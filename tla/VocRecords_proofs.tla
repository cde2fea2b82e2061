-------------------------- MODULE VocRecords_proofs --------------------------
(***************************************************************************)
(* Proofs about upload sessions and the records of past enquiries          *)
(* (UploadSession, VocRecords).  The inductive invariant has five parts.   *)
(* Sessions and Once are about uploads: what a preview that was offered    *)
(* still has, and what becomes of it when commits do not overlap.  Stored  *)
(* is about the rows of an import, Fits about vectors, verdicts and the    *)
(* texts a classification carries, Single about the flag of the            *)
(* classification.                                                         *)
(***************************************************************************)
EXTENDS VocRecords, TLAPS, FiniteSetTheorems, SequenceTheorems

\* the commits that may have registered an upload
Over     == {"drop", "done", "failed", "lost"}
Spent(u) == {r \in Reqs : req[r].u = u /\ req[r].at \in Over}

Counted == \A u \in Uploads : committed[u] <= Cardinality(Spent(u))

Sessions ==
    /\ \A r \in Reqs :
        /\ req[r].at = "idle" => req[r].u = None
        /\ req[r].at \in {"found", "clear", "store", "drop"} => req[r].u # None
        /\ req[r].u # None => prev[req[r].u] \in {"offered", "wiped"}
        /\ req[r].at \in {"clear", "store"} => sess[req[r].u].kind \in Early
        /\ req[r].at = "drop" => committed[req[r].u] > 0
    /\ \A u \in Uploads :
        /\ committed[u] > 0 => prev[u] \in {"offered", "wiped"}
        /\ sess[u].kind = "voc_table" /\ prev[u] = "offered" /\ ~sess[u].expired /\ committed[u] = 0
             => sess[u].row /\ sess[u].file

\* without overlap an upload has one commit at work, and after a registration no session or the
\* commit that is about to clear it
Once == calm =>
    /\ \A r, q \in Reqs : Working(r) /\ Working(q) /\ req[r].u = req[q].u /\ req[r].u # None => r = q
    /\ \A r \in Reqs : req[r].at = "store" => ~sess[req[r].u].row
    /\ \A u \in Uploads : committed[u] > 0 =>
        /\ committed[u] = 1
        /\ \A r \in Reqs : Working(r) /\ req[r].u = u => req[r].at = "drop"
        /\ sess[u].row => \E r \in Reqs : req[r].u = u /\ req[r].at = "drop"

UpInv == UploadTypeOK /\ Counted /\ Sessions /\ Once

RowsOf(r, k) == {i \in Ids : recs[i].batch = r /\ recs[i].pos = k}
Whole(r, k) ==
    /\ plan[r][k] = "blank" => RowsOf(r, k) = {}
    /\ plan[r][k] # "blank" => \E i \in Ids : RowsOf(r, k) = {i}
    /\ \A i \in RowsOf(r, k) : recs[i].live /\ recs[i].vec = 0 => plan[r][k] = "gap"

\* before the first row, between two rows and after the last
StoredBy(r) ==
    /\ req[r].at \in {"idle", "found", "clear", "store", "embed"} =>
         plan[r] = <<>> /\ next[r] = 1 /\ \A k \in 0..MaxItems : RowsOf(r, k) = {}
    /\ req[r].at = "insert" =>
         /\ next[r] \in 1..Len(plan[r])
         /\ \A k \in 1..next[r] - 1 : Whole(r, k)
         /\ \A k \in next[r]..MaxItems : RowsOf(r, k) = {}
    /\ req[r].at = "drop" \/ (req[r].at = "done" /\ plan[r] # <<>>) => \A k \in 1..Len(plan[r]) : Whole(r, k)
Stored == \A r \in Reqs : StoredBy(r)

Fits ==
    /\ \A i \in Ids :
        /\ recs[i].vec \in {0, recs[i].text}
        /\ recs[i].label \in {0, recs[i].text} \/ i \in touched
    /\ \A s \in Runs : \A p \in run[s].todo \cup run[s].verdicts :
        p[1] \in Ids /\ (recs[p[1]].live => p[2] = recs[p[1]].text \/ p[1] \in touched)

Active(s) == Task(s) \/ run[s].at = "opening"
Single == raced \/ /\ \A s, q \in Runs : Active(s) /\ Active(q) => s = q
                   /\ running <=> \E s \in Runs : Task(s)

RecTypes  == recs \in Seq(Record) /\ Len(recs) <= MaxRecs /\ touched \subseteq 1..MaxRecs
PlanTypes == /\ plan \in [Reqs -> Seq(Item)] /\ next \in [Reqs -> 1..MaxItems + 1]
             /\ \A r \in Reqs : Len(plan[r]) <= MaxItems
RunTypes  == run \in [Runs -> RunRec] /\ running \in BOOLEAN /\ pool \in BOOLEAN /\ raced \in BOOLEAN

IInv == UpInv /\ RecTypes /\ PlanTypes /\ RunTypes /\ Stored /\ Fits /\ Single
-----------------------------------------------------------------------------
(***************************************************************************)
(* Previews                                                                *)
(***************************************************************************)
LEMMA Stages ==
    /\ Previews = {"none", "saved", "clean", "check", "offered", "wiped", "failed"}
    /\ Early = {"document", "spreadsheet", "execution_commands"}
    /\ Ended = {"done", "failed", "lost"}
  BY DEF Previews, Early, Ended

LEMMA SessionFields ==
    ASSUME NEW q \in Session, NEW b \in BOOLEAN
    PROVE  /\ [q EXCEPT !.row = b] \in Session /\ [q EXCEPT !.file = b] \in Session
           /\ [q EXCEPT !.expired = b] \in Session
           /\ [q EXCEPT !.row = b].row = b /\ [q EXCEPT !.row = b].file = q.file
           /\ [q EXCEPT !.row = b].expired = q.expired /\ [q EXCEPT !.row = b].kind = q.kind
           /\ [q EXCEPT !.file = b].row = q.row /\ [q EXCEPT !.file = b].file = b
           /\ [q EXCEPT !.file = b].expired = q.expired /\ [q EXCEPT !.file = b].kind = q.kind
           /\ [q EXCEPT !.expired = b].row = q.row /\ [q EXCEPT !.expired = b].file = q.file
           /\ [q EXCEPT !.expired = b].expired = b /\ [q EXCEPT !.expired = b].kind = q.kind
  BY DEF Session

\* a session is cleared with its row, if it has one
LEMMA Discarded ==
    ASSUME UploadTypeOK, NEW u \in Uploads, Discard(u)
    PROVE  /\ sess' \in [Uploads -> Session]
           /\ \A v \in Uploads \ {u} : sess'[v] = sess[v]
           /\ ~sess'[u].row /\ sess'[u].kind = sess[u].kind /\ sess'[u].expired = sess[u].expired
  <1>1. sess \in [Uploads -> Session] /\ sess[u] \in Session
    BY DEF UploadTypeOK
  <1> DEFINE q == [sess[u] EXCEPT !.row = FALSE, !.file = FALSE]
  <1>2. q \in Session /\ q.row = FALSE /\ q.kind = sess[u].kind /\ q.expired = sess[u].expired
    BY <1>1 DEF Session
  <1>3. sess' = [sess EXCEPT ![u] = IF sess[u].row THEN q ELSE sess[u]]
    BY DEF Discard, Without
  <1>4. sess[u].row \in BOOLEAN
    BY <1>1 DEF Session
  <1> HIDE DEF q
  <1> QED  BY <1>1, <1>2, <1>3, <1>4

\* a clearing that fails leaves the row, with the file or without
LEMMA NotDiscarded ==
    ASSUME UploadTypeOK, NEW u \in Uploads, DiscardFails(u)
    PROVE  /\ sess' \in [Uploads -> Session]
           /\ \A v \in Uploads \ {u} : sess'[v] = sess[v]
           /\ sess'[u].row = sess[u].row /\ sess'[u].kind = sess[u].kind /\ sess'[u].expired = sess[u].expired
  <1>1. sess \in [Uploads -> Session] /\ sess[u] \in Session
    BY DEF UploadTypeOK
  <1> DEFINE q == [sess[u] EXCEPT !.file = FALSE]
  <1>2. q \in Session /\ q.row = sess[u].row /\ q.kind = sess[u].kind /\ q.expired = sess[u].expired
    BY <1>1, SessionFields
  <1>3. sess' = sess \/ sess' = [sess EXCEPT ![u] = q]
    BY DEF DiscardFails
  <1> HIDE DEF q
  <1> QED  BY <1>1, <1>2, <1>3

\* what a step of a preview does to the sessions, its own and others
PreviewFacts ==
    /\ UNCHANGED <<req, committed, restarts, calm>>
    /\ sess' \in [Uploads -> Session] /\ prev' \in [Uploads -> Previews]
    /\ \A v \in Uploads :
        /\ sess'[v].kind = sess[v].kind
        /\ prev[v] \in {"offered", "wiped"} => prev'[v] = prev[v] /\ (sess'[v].row => sess[v].row)
        /\ prev'[v] = "offered" /\ ~sess'[v].expired =>
             \/ sess'[v].row /\ sess'[v].file
             \/ prev[v] = "offered" /\ ~sess[v].expired /\ sess'[v].row = sess[v].row /\ sess'[v].file = sess[v].file

LEMMA PreviewDoes ==
    ASSUME UploadTypeOK, NEW u \in Uploads, PreviewStep(u)
    PROVE  PreviewFacts
  <1>1. sess \in [Uploads -> Session] /\ prev \in [Uploads -> Previews]
    BY DEF UploadTypeOK
  <1>2. CASE Save(u)
    <2>1. PICK ok \in BOOLEAN : /\ sess' = [sess EXCEPT ![u].file = TRUE, ![u].row = ok]
                                /\ PreviewTo(u, IF ok THEN "saved" ELSE "failed")
      BY <1>2 DEF Save
    <2> DEFINE q == [[sess[u] EXCEPT !.file = TRUE] EXCEPT !.row = ok]
    <2>2. q \in Session /\ q.kind = sess[u].kind
      BY <1>1 DEF Session
    <2>3. sess' = [sess EXCEPT ![u] = q]
      BY <1>1, <2>1
    <2> HIDE DEF q
    <2>4. prev[u] = "none" /\ prev' = [prev EXCEPT ![u] = IF ok THEN "saved" ELSE "failed"]
          /\ UNCHANGED <<req, committed, restarts, calm>>
      BY <1>2, <2>1 DEF Save, PreviewTo
    <2> QED  BY <1>1, <2>2, <2>3, <2>4, Stages DEF PreviewFacts
  <1>3. CASE CleanupRead(u)
    <2> DEFINE old == {v \in Uploads : sess[v].row /\ sess[v].expired}
               gone(v) == [sess[v] EXCEPT !.file = FALSE]
    <2>1. /\ \/ sess' = [v \in Uploads |-> IF v \in old THEN gone(v) ELSE sess[v]]
             \/ sess' = sess
          /\ \E l \in {"check", "clean", "failed"} : prev' = [prev EXCEPT ![u] = l]
          /\ prev[u] = "saved" /\ UNCHANGED <<req, committed, restarts, calm>>
      BY <1>3 DEF CleanupRead, PreviewTo
    <2>2. \A v \in Uploads : /\ gone(v) \in Session /\ gone(v).kind = sess[v].kind
                             /\ gone(v).row = sess[v].row /\ gone(v).expired = sess[v].expired
      BY <1>1, SessionFields
    <2>3. \A v \in old : sess[v].expired
      OBVIOUS
    <2> HIDE DEF old, gone
    <2> QED  BY <1>1, <2>1, <2>2, <2>3, Stages DEF PreviewFacts
  <1>4. CASE CleanupDelete(u)
    <2> DEFINE gone(v) == [sess[v] EXCEPT !.row = FALSE]
    <2>1. /\ \/ sess' = [v \in Uploads |-> IF sess[v].expired THEN gone(v) ELSE sess[v]]
             \/ sess' = sess
          /\ \E l \in {"check", "failed"} : prev' = [prev EXCEPT ![u] = l]
          /\ prev[u] = "clean" /\ UNCHANGED <<req, committed, restarts, calm>>
      BY <1>4 DEF CleanupDelete, PreviewTo
    <2>2. \A v \in Uploads : /\ gone(v) \in Session /\ gone(v).kind = sess[v].kind
                             /\ gone(v).row = FALSE /\ gone(v).expired = sess[v].expired
      BY <1>1, SessionFields
    <2> HIDE DEF gone
    <2> QED  BY <1>1, <2>1, <2>2, Stages DEF PreviewFacts
  <1>5. CASE Look(u)
    <2>1. prev[u] = "check" /\ UNCHANGED <<req, committed, restarts, calm>>
      BY <1>5 DEF Look, PreviewTo
    <2>2. CASE sess[u].row /\ sess[u].file /\ UNCHANGED sess /\ prev' = [prev EXCEPT ![u] = "offered"]
      BY <1>1, <2>1, <2>2, Stages DEF PreviewFacts
    <2>3. CASE Discard(u) /\ prev' = [prev EXCEPT ![u] = "failed"]
      BY <1>1, <2>1, <2>3, Discarded, Stages DEF PreviewFacts
    <2>4. CASE DiscardFails(u) /\ prev' = [prev EXCEPT ![u] = "failed"]
      BY <1>1, <2>1, <2>4, NotDiscarded, Stages DEF PreviewFacts
    <2> QED  BY <1>5, <2>2, <2>3, <2>4 DEF Look, PreviewTo
  <1>6. CASE Expire(u)
    <2> DEFINE q == [sess[u] EXCEPT !.expired = TRUE]
    <2>1. sess' = [sess EXCEPT ![u] = q] /\ UNCHANGED <<prev, req, committed, restarts, calm>>
      BY <1>6 DEF Expire
    <2>2. q \in Session /\ q.kind = sess[u].kind /\ q.row = sess[u].row /\ q.expired = TRUE
      BY <1>1, SessionFields
    <2> HIDE DEF q
    <2> QED  BY <1>1, <2>1, <2>2, Stages DEF PreviewFacts
  <1> QED  BY <1>2, <1>3, <1>4, <1>5, <1>6 DEF PreviewStep

LEMMA PreviewKept ==
    ASSUME UpInv, PreviewFacts
    PROVE  UpInv'
  <1>1. UploadTypeOK /\ Counted /\ Sessions /\ Once
    BY DEF UpInv
  <1>2. UNCHANGED <<req, committed, restarts, calm>>
    BY DEF PreviewFacts
  <1>3. UploadTypeOK'
    BY <1>1, <1>2 DEF PreviewFacts, UploadTypeOK
  <1>4. Counted'
    BY <1>1, <1>2 DEF Counted, Spent
  <1>5. req \in [Reqs -> Request] /\ \A r \in Reqs : req[r].u \in Uploads \cup {None}
    BY <1>1 DEF UploadTypeOK, Request
  <1>6. Sessions'
    <2>1. ASSUME NEW r \in Reqs
          PROVE  /\ req'[r].at = "idle" => req'[r].u = None
                 /\ req'[r].at \in {"found", "clear", "store", "drop"} => req'[r].u # None
                 /\ req'[r].u # None => prev'[req'[r].u] \in {"offered", "wiped"}
                 /\ req'[r].at \in {"clear", "store"} => sess'[req'[r].u].kind \in Early
                 /\ req'[r].at = "drop" => committed'[req'[r].u] > 0
      BY <1>1, <1>2, <1>5 DEF PreviewFacts, Sessions
    <2>2. ASSUME NEW u \in Uploads PROVE committed'[u] > 0 => prev'[u] \in {"offered", "wiped"}
      BY <1>1, <1>2 DEF PreviewFacts, Sessions
    <2>3. ASSUME NEW u \in Uploads, sess'[u].kind = "voc_table", prev'[u] = "offered", ~sess'[u].expired,
                 committed'[u] = 0
          PROVE  sess'[u].row /\ sess'[u].file
      BY <1>1, <1>2, <2>3 DEF PreviewFacts, Sessions
    <2> QED  BY <2>1, <2>2, <2>3 DEF Sessions
  <1>7. Once'
    <2> SUFFICES ASSUME calm PROVE Once'
      BY <1>2 DEF Once
    <2>1. \A r \in Reqs : req'[r].at = "store" => ~sess'[req'[r].u].row
      BY <1>1, <1>2, <1>5 DEF PreviewFacts, Sessions, Once
    <2>2. \A u \in Uploads : committed[u] > 0 /\ sess'[u].row => sess[u].row
      BY <1>1 DEF PreviewFacts, Sessions
    <2> QED  BY <1>1, <1>2, <2>1, <2>2 DEF Once, Working
  <1> QED  BY <1>3, <1>4, <1>6, <1>7 DEF UpInv
-----------------------------------------------------------------------------
(***************************************************************************)
(* Commits                                                                 *)
(***************************************************************************)
LEMMA SpentFinite ==
    ASSUME NEW u PROVE IsFiniteSet(Spent(u)) /\ Cardinality(Spent(u)) \in Nat /\ Cardinality(Spent(u)) <= Cardinality(Reqs)
  BY UploadAssumption, FS_Subset, FS_CardinalityType DEF Spent

\* a registration is counted against the commit that made it
LEMMA CountKept ==
    ASSUME Counted, committed' = committed, \A u \in Uploads : Spent(u) \subseteq Spent(u)',
           committed \in [Uploads -> 0..Cardinality(Reqs)]
    PROVE  Counted'
  <1> SUFFICES ASSUME NEW u \in Uploads PROVE committed[u] <= Cardinality(Spent(u)')
    BY DEF Counted
  <1> DEFINE S == Spent(u)'
  <1>1. IsFiniteSet(S) /\ Cardinality(S) \in Nat /\ S \subseteq Reqs
    BY UploadAssumption, FS_Subset, FS_CardinalityType DEF Spent
  <1>2. Spent(u) \subseteq S
    OBVIOUS
  <1> HIDE DEF S
  <1>3. Cardinality(Spent(u)) <= Cardinality(S)
    BY <1>1, <1>2, FS_Subset
  <1>4. committed[u] <= Cardinality(Spent(u)) /\ Cardinality(Spent(u)) \in Nat /\ committed[u] \in Nat
    BY SpentFinite DEF Counted
  <1>5. committed[u] <= Cardinality(S)
    BY <1>1, <1>3, <1>4
  <1> QED  BY <1>5 DEF S

LEMMA CountGrows ==
    ASSUME Counted, NEW u \in Uploads, NEW r \in Reqs, committed \in [Uploads -> 0..Cardinality(Reqs)],
           committed' = [committed EXCEPT ![u] = @ + 1],
           \A v \in Uploads : Spent(v) \subseteq Spent(v)', r \notin Spent(u), r \in Spent(u)'
    PROVE  Counted' /\ committed' \in [Uploads -> 0..Cardinality(Reqs)]
  <1>0. IsFiniteSet(Reqs) /\ Cardinality(Reqs) \in Nat
    BY UploadAssumption, FS_CardinalityType
  <1>1. ASSUME NEW v \in Uploads
        PROVE committed'[v] <= Cardinality(Spent(v)') /\ committed'[v] \in 0..Cardinality(Reqs)
    <2> DEFINE S == Spent(v)'
    <2>1. IsFiniteSet(S) /\ Cardinality(S) \in Nat /\ S \subseteq Reqs /\ Cardinality(S) <= Cardinality(Reqs)
      BY UploadAssumption, FS_Subset, FS_CardinalityType DEF Spent
    <2>2. Spent(v) \subseteq S
      OBVIOUS
    <2>3. committed[v] <= Cardinality(Spent(v)) /\ Cardinality(Spent(v)) \in Nat /\ committed[v] \in Nat
          /\ IsFiniteSet(Spent(v))
      BY <1>0, SpentFinite DEF Counted
    <2>4. v = u => r \in S
      OBVIOUS
    <2> HIDE DEF S
    <2>5. CASE v = u
      <3> DEFINE T == Spent(v) \cup {r}
      <3>1. Cardinality(T) = Cardinality(Spent(v)) + 1
        BY <2>3, <2>5, FS_AddElement
      <3>2. T \subseteq S
        BY <2>2, <2>4, <2>5
      <3> HIDE DEF T
      <3>3. Cardinality(T) <= Cardinality(S)
        BY <2>1, <3>2, FS_Subset
      <3>4. committed'[v] = committed[v] + 1
        BY <2>5
      <3>5. committed'[v] <= Cardinality(S) /\ committed'[v] \in 0..Cardinality(Reqs)
        BY <1>0, <2>1, <2>3, <3>1, <3>3, <3>4
      <3> QED  BY <3>5 DEF S
    <2>6. CASE v # u
      <3>1. Cardinality(Spent(v)) <= Cardinality(S)
        BY <2>1, <2>2, FS_Subset
      <3>2. committed'[v] = committed[v]
        BY <2>6
      <3>3. committed'[v] <= Cardinality(S) /\ committed'[v] \in 0..Cardinality(Reqs)
        BY <1>0, <2>1, <2>3, <3>1, <3>2
      <3> QED  BY <3>3 DEF S
    <2> QED  BY <2>5, <2>6
  <1> QED  BY <1>1 DEF Counted

\* a step of one commit after its Find; a session can only lose its row
Moved(r) ==
    /\ req' \in [Reqs -> Request] /\ \A q \in Reqs \ {r} : req'[q] = req[q]
    /\ req'[r].u = req[r].u
    /\ UNCHANGED <<prev, restarts>>
    /\ sess' \in [Uploads -> Session]
    /\ \A v \in Uploads : /\ sess'[v].kind = sess[v].kind /\ sess'[v].expired = sess[v].expired
                          /\ sess'[v].row => sess[v].row

LEMMA UploadOf ==
    ASSUME UpInv, NEW r \in Reqs
    PROVE  /\ req[r] \in Request /\ req[r].u \in Uploads \cup {None}
           /\ req[r].u # None => req[r].u \in Uploads
  BY UploadAssumption DEF UpInv, UploadTypeOK, Request

LEMMA SpentGrows ==
    ASSUME UpInv, NEW r \in Reqs, Moved(r), req[r].at \in Over => req'[r].at \in Over
    PROVE  \A u : Spent(u) \subseteq Spent(u)'
  BY DEF Spent, Moved

\* a step that neither registers nor clears after a registration
LEMMA PlainKept ==
    ASSUME UpInv, NEW r \in Reqs, Moved(r), UNCHANGED <<committed, calm>>,
           req[r].at \in {"idle", "found", "clear", "store", "embed", "insert"},
           req'[r].at \in {"clear", "store", "embed", "insert", "done", "failed"},
           req'[r].at \in {"clear", "store"} => req[r].u \in Uploads /\ sess[req[r].u].kind \in Early,
           req'[r].at = "store" => ~sess'[req[r].u].row,
           \A v \in Uploads : sess'[v] = sess[v] \/ (v = req[r].u /\ sess[v].kind \in Early)
    PROVE  UpInv'
  <1>1. UploadTypeOK /\ Counted /\ Sessions /\ Once
    BY DEF UpInv
  <1>2. Counted'
    <2>1. \A u \in Uploads : Spent(u) \subseteq Spent(u)'
      BY SpentGrows DEF Over
    <2> QED  BY <1>1, <2>1, CountKept DEF UploadTypeOK
  <1>3. UploadTypeOK'
    BY <1>1 DEF UploadTypeOK, Moved
  <1>4. Sessions'
    <2>1. ASSUME NEW q \in Reqs
          PROVE  /\ req'[q].at = "idle" => req'[q].u = None
                 /\ req'[q].at \in {"found", "clear", "store", "drop"} => req'[q].u # None
                 /\ req'[q].u # None => prev'[req'[q].u] \in {"offered", "wiped"}
                 /\ req'[q].at \in {"clear", "store"} => sess'[req'[q].u].kind \in Early
                 /\ req'[q].at = "drop" => committed'[req'[q].u] > 0
      <3>1. CASE q = r
        BY <1>1, <3>1, UploadAssumption DEF Moved, Sessions
      <3>2. CASE q # r
        BY <1>1, <3>2, UploadOf DEF Moved, Sessions
      <3> QED  BY <3>1, <3>2
    <2>2. ASSUME NEW u \in Uploads, sess'[u].kind = "voc_table" PROVE sess'[u] = sess[u]
      BY <2>2, Stages DEF Moved
    <2> QED  BY <1>1, <2>1, <2>2 DEF Sessions, Moved
  <1>5. Once'
    <2> SUFFICES ASSUME calm PROVE Once'
      BY DEF Once
    <2>1. Working(r) \/ req[r].u = None
      BY <1>1, Stages DEF Working, Sessions
    <2>2. ASSUME NEW p \in Reqs, NEW q \in Reqs, Working(p)', Working(q)', req'[p].u = req'[q].u, req'[p].u # None
          PROVE  p = q
      <3>1. Working(p) /\ Working(q) /\ req[p].u = req[q].u /\ req[p].u # None
        BY <2>1, <2>2 DEF Working, Moved
      <3> QED  BY <1>1, <3>1 DEF Once
    <2>3. ASSUME NEW q \in Reqs, req'[q].at = "store" PROVE ~sess'[req'[q].u].row
      <3>1. CASE q = r
        BY <2>3, <3>1 DEF Moved
      <3>2. CASE q # r
        <4>1. req'[q] = req[q] /\ req[q].u \in Uploads /\ ~sess[req[q].u].row
          BY <1>1, <2>3, <3>2, UploadOf DEF Moved, Once, Sessions
        <4> QED  BY <4>1 DEF Moved
      <3> QED  BY <3>1, <3>2
    <2>4. ASSUME NEW u \in Uploads, committed'[u] > 0
          PROVE  /\ committed'[u] = 1
                 /\ \A q \in Reqs : Working(q)' /\ req'[q].u = u => req'[q].at = "drop"
                 /\ sess'[u].row => \E q \in Reqs : req'[q].u = u /\ req'[q].at = "drop"
      <3>1. /\ committed[u] = 1 /\ \A q \in Reqs : Working(q) /\ req[q].u = u => req[q].at = "drop"
            /\ sess[u].row => \E q \in Reqs : req[q].u = u /\ req[q].at = "drop"
        BY <1>1, <2>4 DEF Once
      <3>2. req[r].u # u
        BY <2>1, <3>1, UploadAssumption
      <3> QED  BY <3>1, <3>2 DEF Working, Moved
    <2> QED  BY <2>2, <2>3, <2>4 DEF Once
  <1> QED  BY <1>2, <1>3, <1>4, <1>5 DEF UpInv

\* a step that registers the content of an upload
LEMMA RegisterKept ==
    ASSUME UpInv, NEW r \in Reqs, Moved(r), UNCHANGED <<sess, calm>>, NEW u \in Uploads, req[r].u = u,
           committed' = [committed EXCEPT ![u] = @ + 1],
           \/ req[r].at = "store" /\ req'[r].at = "done"
           \/ req[r].at = "insert" /\ req'[r].at = "drop"
    PROVE  UpInv'
  <1>1. UploadTypeOK /\ Counted /\ Sessions /\ Once /\ u # None /\ Cardinality(Reqs) \in Nat
    BY UploadAssumption, FS_CardinalityType DEF UpInv
  <1>2. Counted' /\ committed' \in [Uploads -> 0..Cardinality(Reqs)]
    <2>1. \A v \in Uploads : Spent(v) \subseteq Spent(v)'
      BY SpentGrows DEF Over
    <2>2. r \notin Spent(u) /\ r \in Spent(u)'
      BY DEF Spent, Over, Moved
    <2>3. committed \in [Uploads -> 0..Cardinality(Reqs)]
      BY <1>1 DEF UploadTypeOK
    <2> QED  BY <1>1, <2>1, <2>2, <2>3, CountGrows
  <1>3. UploadTypeOK'
    BY <1>1, <1>2 DEF UploadTypeOK, Moved
  <1>4. /\ committed[u] \in Nat /\ committed'[u] = committed[u] + 1
        /\ \A v \in Uploads \ {u} : committed'[v] = committed[v]
        /\ \A v \in Uploads : committed[v] > 0 => committed'[v] > 0
        /\ \A v \in Uploads : committed'[v] = 0 => committed[v] = 0
    <2>1. committed \in [Uploads -> Nat]
      BY <1>1 DEF UploadTypeOK
    <2> QED  BY <2>1
  <1>5. Sessions'
    <2>1. ASSUME NEW q \in Reqs
          PROVE  /\ req'[q].at = "idle" => req'[q].u = None
                 /\ req'[q].at \in {"found", "clear", "store", "drop"} => req'[q].u # None
                 /\ req'[q].u # None => prev'[req'[q].u] \in {"offered", "wiped"}
                 /\ req'[q].at \in {"clear", "store"} => sess'[req'[q].u].kind \in Early
                 /\ req'[q].at = "drop" => committed'[req'[q].u] > 0
      <3>1. CASE q = r
        BY <1>1, <1>4, <3>1 DEF Moved, Sessions
      <3>2. CASE q # r
        BY <1>1, <1>4, <3>2, UploadOf DEF Moved, Sessions
      <3> QED  BY <3>1, <3>2
    <2>2. \A v \in Uploads : committed'[v] > 0 => prev'[v] \in {"offered", "wiped"}
      BY <1>1, <1>4 DEF Sessions, Moved
    <2> QED  BY <1>1, <1>4, <2>1, <2>2 DEF Sessions, Moved
  <1>6. Once'
    <2> SUFFICES ASSUME calm PROVE Once'
      BY DEF Once
    <2>1. Working(r)
      BY Stages DEF Working
    <2>2. committed[u] = 0
      BY <1>1, <1>4, <2>1 DEF Once
    <2>3. ASSUME NEW p \in Reqs, NEW q \in Reqs, Working(p)', Working(q)', req'[p].u = req'[q].u, req'[p].u # None
          PROVE  p = q
      <3>1. Working(p) /\ Working(q) /\ req[p].u = req[q].u /\ req[p].u # None
        BY <2>1, <2>3 DEF Working, Moved
      <3> QED  BY <1>1, <3>1 DEF Once
    <2>4. \A q \in Reqs : req'[q].at = "store" => ~sess'[req'[q].u].row
      BY <1>1 DEF Once, Moved
    <2>5. ASSUME NEW v \in Uploads \ {u}, committed'[v] > 0
          PROVE  /\ committed'[v] = 1
                 /\ \A q \in Reqs : Working(q)' /\ req'[q].u = v => req'[q].at = "drop"
                 /\ sess'[v].row => \E q \in Reqs : req'[q].u = v /\ req'[q].at = "drop"
      BY <1>1, <1>4, <2>5 DEF Once, Working, Moved
    <2>6. \A q \in Reqs : Working(q)' /\ req'[q].u = u => req'[q].at = "drop"
      <3> SUFFICES ASSUME NEW q \in Reqs, Working(q)', req'[q].u = u PROVE req'[q].at = "drop"
        OBVIOUS
      <3>1. q = r
        BY <1>1, <2>1 DEF Once, Working, Moved
      <3> QED  BY <3>1, Stages DEF Working
    <2>7. sess'[u].row => \E q \in Reqs : req'[q].u = u /\ req'[q].at = "drop"
      BY <1>1 DEF Once, Moved
    <2> QED  BY <1>4, <2>2, <2>3, <2>4, <2>5, <2>6, <2>7 DEF Once
  <1> QED  BY <1>2, <1>3, <1>5, <1>6 DEF UpInv

\* a table's session goes after its rows are stored, or calm ends
LEMMA DropKept ==
    ASSUME UpInv, NEW r \in Reqs, Drop(r)
    PROVE  UpInv' /\ Moved(r) /\ req[r].at = "drop" /\ req'[r].at \in {"done", "failed"}
  <1>1. UploadTypeOK /\ Counted /\ Sessions /\ Once /\ req[r].at = "drop" /\ req[r] \in Request
    BY UploadOf DEF UpInv, Drop, ClearLast
  <1> DEFINE u == req[r].u
  <1>2. u \in Uploads /\ u # None /\ committed[u] > 0
    BY <1>1, UploadOf DEF Sessions
  <1>3. UNCHANGED <<prev, committed, restarts>>
    BY DEF Drop, ClearLast
  <1>4. \/ Discard(u) /\ ReqTo(r, "done") /\ UNCHANGED calm
        \/ DiscardFails(u) /\ ReqTo(r, "failed") /\ calm' = FALSE
    BY DEF Drop, ClearLast
  <1>5. /\ sess' \in [Uploads -> Session]
        /\ \A v \in Uploads : /\ sess'[v].kind = sess[v].kind /\ sess'[v].expired = sess[v].expired
                              /\ sess'[v].row => sess[v].row
        /\ \A v \in Uploads \ {u} : sess'[v] = sess[v]
        /\ calm' => calm /\ ~sess'[u].row
        /\ calm' \in BOOLEAN
    <2>1. CASE Discard(u) /\ UNCHANGED calm
      BY <1>1, <1>2, <2>1, Discarded DEF UploadTypeOK
    <2>2. CASE DiscardFails(u) /\ calm' = FALSE
      BY <1>1, <1>2, <2>2, NotDiscarded DEF UploadTypeOK
    <2> QED  BY <1>4, <2>1, <2>2
  <1>6. /\ req' \in [Reqs -> Request] /\ \A q \in Reqs \ {r} : req'[q] = req[q]
        /\ req'[r].u = u /\ req'[r].at \in {"done", "failed"}
    <2> DEFINE x(l) == [req[r] EXCEPT !.at = l]
    <2>1. \A l \in {"done", "failed"} : x(l) \in Request /\ x(l).u = u /\ x(l).at = l
      BY <1>1 DEF Request
    <2>2. \E l \in {"done", "failed"} : req' = [req EXCEPT ![r] = x(l)]
      BY <1>1, <1>4 DEF ReqTo
    <2> HIDE DEF x
    <2> QED  BY <1>1, <2>1, <2>2 DEF UploadTypeOK
  <1> HIDE DEF u
  <1>7. Moved(r)
    BY <1>3, <1>5, <1>6 DEF Moved, u
  <1>8. Counted'
    <2>1. \A v \in Uploads : Spent(v) \subseteq Spent(v)'
      BY <1>6, <1>7, SpentGrows DEF Over
    <2> QED  BY <1>1, <1>3, <2>1, CountKept DEF UploadTypeOK
  <1>9. UploadTypeOK'
    BY <1>1, <1>3, <1>5, <1>6 DEF UploadTypeOK
  <1>10. Sessions'
    <2>1. ASSUME NEW q \in Reqs
          PROVE  /\ req'[q].at = "idle" => req'[q].u = None
                 /\ req'[q].at \in {"found", "clear", "store", "drop"} => req'[q].u # None
                 /\ req'[q].u # None => prev'[req'[q].u] \in {"offered", "wiped"}
                 /\ req'[q].at \in {"clear", "store"} => sess'[req'[q].u].kind \in Early
                 /\ req'[q].at = "drop" => committed'[req'[q].u] > 0
      <3>1. CASE q = r
        BY <1>1, <1>2, <1>3, <1>6, <3>1 DEF Sessions, u
      <3>2. CASE q # r
        BY <1>1, <1>3, <1>5, <1>6, <3>2, UploadOf DEF Sessions
      <3> QED  BY <3>1, <3>2
    <2> QED  BY <1>1, <1>2, <1>3, <1>5, <2>1 DEF Sessions
  <1>11. Once'
    <2> SUFFICES ASSUME calm' PROVE Once'
      BY DEF Once
    <2>1. calm /\ ~sess'[u].row
      BY <1>5
    <2>2. \A q \in Reqs : Working(q)' => q # r /\ Working(q) /\ req'[q] = req[q]
      BY <1>6, Stages DEF Working
    <2>3. \A p, q \in Reqs : Working(p)' /\ Working(q)' /\ req'[p].u = req'[q].u /\ req'[p].u # None => p = q
      BY <1>1, <2>1, <2>2 DEF Once
    <2>4. ASSUME NEW q \in Reqs, req'[q].at = "store" PROVE ~sess'[req'[q].u].row
      <3>1. q # r /\ req'[q] = req[q] /\ req[q].u \in Uploads /\ ~sess[req[q].u].row
        BY <1>1, <1>6, <2>1, <2>4, UploadOf DEF Once, Sessions
      <3> QED  BY <1>5, <3>1
    <2>5. ASSUME NEW v \in Uploads, committed'[v] > 0
          PROVE  /\ committed'[v] = 1
                 /\ \A q \in Reqs : Working(q)' /\ req'[q].u = v => req'[q].at = "drop"
                 /\ sess'[v].row => \E q \in Reqs : req'[q].u = v /\ req'[q].at = "drop"
      <3>1. /\ committed[v] = 1 /\ \A q \in Reqs : Working(q) /\ req[q].u = v => req[q].at = "drop"
            /\ sess[v].row => \E q \in Reqs : req[q].u = v /\ req[q].at = "drop"
        BY <1>1, <1>3, <2>1, <2>5 DEF Once
      <3>2. v # u => (sess'[v].row => \E q \in Reqs \ {r} : req'[q].u = v /\ req'[q].at = "drop")
        BY <1>5, <1>6, <3>1 DEF u
      <3> QED  BY <1>3, <2>1, <2>2, <3>1, <3>2
    <2> QED  BY <2>3, <2>4, <2>5 DEF Once
  <1> QED  BY <1>1, <1>6, <1>7, <1>8, <1>9, <1>10, <1>11 DEF UpInv

\* a move to another stage
LEMMA ReqMoved ==
    ASSUME UpInv, NEW r \in Reqs, NEW e \in BOOLEAN,
           NEW l \in {"idle", "found", "clear", "store", "embed", "insert", "drop", "done", "failed", "lost"},
           \/ req' = [req EXCEPT ![r].at = l]
           \/ req' = [req EXCEPT ![r].at = l, ![r].empty = e]
    PROVE  /\ req' \in [Reqs -> Request] /\ \A q \in Reqs \ {r} : req'[q] = req[q]
           /\ req'[r].u = req[r].u /\ req'[r].at = l
  <1>1. req \in [Reqs -> Request] /\ req[r] \in Request
    BY DEF UpInv, UploadTypeOK
  <1> DEFINE x == [req[r] EXCEPT !.at = l]
             y == [x EXCEPT !.empty = e]
  <1>2. x \in Request /\ x.u = req[r].u /\ x.at = l
    BY <1>1 DEF Request
  <1>3. y \in Request /\ y.u = req[r].u /\ y.at = l
    BY <1>1 DEF Request
  <1>4. req' = [req EXCEPT ![r] = x] \/ req' = [req EXCEPT ![r] = y]
    BY <1>1
  <1> HIDE DEF x, y
  <1> QED  BY <1>1, <1>2, <1>3, <1>4

LEMMA SessionsStay ==
    ASSUME UpInv, UNCHANGED sess
    PROVE  /\ sess' \in [Uploads -> Session]
           /\ \A v \in Uploads : /\ sess'[v].kind = sess[v].kind /\ sess'[v].expired = sess[v].expired
                                 /\ sess'[v].row => sess[v].row
  BY DEF UpInv, UploadTypeOK

LEMMA ParseKept ==
    ASSUME UpInv, NEW r \in Reqs, Parse(r)
    PROVE  UpInv' /\ Moved(r) /\ req[r].at = "found" /\ req'[r].at \in {"clear", "embed", "failed"}
  <1>1. req[r].at = "found" /\ UNCHANGED <<sess, prev, committed, restarts, calm>>
        /\ req[r].u \in Uploads
    BY UploadOf DEF Parse, UpInv, Sessions
  <1>2. /\ req' \in [Reqs -> Request] /\ \A q \in Reqs \ {r} : req'[q] = req[q]
        /\ req'[r].u = req[r].u /\ req'[r].at \in {"clear", "embed", "failed"}
        /\ req'[r].at = "clear" => sess[req[r].u].kind \in Early
    <2>1. CASE ReqTo(r, "failed")
      BY <2>1, ReqMoved DEF ReqTo
    <2>2. ASSUME NEW e \in BOOLEAN, sess[req[r].u].kind \in Early, req' = [req EXCEPT ![r].at = "clear", ![r].empty = e]
          PROVE /\ req' \in [Reqs -> Request] /\ \A q \in Reqs \ {r} : req'[q] = req[q]
                /\ req'[r].u = req[r].u /\ req'[r].at = "clear"
      BY <2>2, ReqMoved
    <2>3. CASE ReqTo(r, "embed")
      BY <2>3, ReqMoved DEF ReqTo
    <2> QED  BY <2>1, <2>2, <2>3 DEF Parse
  <1>3. Moved(r)
    BY <1>1, <1>2, SessionsStay DEF Moved
  <1>4. UpInv'
    BY <1>1, <1>2, <1>3, PlainKept
  <1> QED  BY <1>1, <1>2, <1>3, <1>4

LEMMA ClearFirstKept ==
    ASSUME UpInv, NEW r \in Reqs, ClearFirst(r)
    PROVE  UpInv' /\ Moved(r) /\ req[r].at = "clear" /\ req'[r].at \in {"store", "failed"}
  <1>1. req[r].at = "clear" /\ UNCHANGED <<prev, committed, restarts, calm>>
        /\ req[r].u \in Uploads /\ sess[req[r].u].kind \in Early
    BY UploadOf DEF ClearFirst, UpInv, Sessions
  <1>2. CASE Discard(req[r].u) /\ ReqTo(r, IF req[r].empty THEN "failed" ELSE "store")
    <2>1. PICK l \in {"failed", "store"} : ReqTo(r, l)
      BY <1>2
    <2>2. /\ req' \in [Reqs -> Request] /\ \A q \in Reqs \ {r} : req'[q] = req[q]
          /\ req'[r].u = req[r].u /\ req'[r].at = l
      BY <2>1, ReqMoved DEF ReqTo
    <2>3. /\ sess' \in [Uploads -> Session]
          /\ \A v \in Uploads \ {req[r].u} : sess'[v] = sess[v]
          /\ ~sess'[req[r].u].row /\ sess'[req[r].u].kind = sess[req[r].u].kind
          /\ sess'[req[r].u].expired = sess[req[r].u].expired
      BY <1>1, <1>2, Discarded DEF UpInv
    <2>4. Moved(r)
      BY <1>1, <2>2, <2>3 DEF Moved
    <2>5. UpInv'
      BY <1>1, <2>2, <2>3, <2>4, PlainKept
    <2> QED  BY <1>1, <2>2, <2>4, <2>5
  <1>3. CASE DiscardFails(req[r].u) /\ ReqTo(r, "failed")
    <2>1. /\ req' \in [Reqs -> Request] /\ \A q \in Reqs \ {r} : req'[q] = req[q]
          /\ req'[r].u = req[r].u /\ req'[r].at = "failed"
      BY <1>3, ReqMoved DEF ReqTo
    <2>2. /\ sess' \in [Uploads -> Session]
          /\ \A v \in Uploads \ {req[r].u} : sess'[v] = sess[v]
          /\ sess'[req[r].u].row = sess[req[r].u].row /\ sess'[req[r].u].kind = sess[req[r].u].kind
          /\ sess'[req[r].u].expired = sess[req[r].u].expired
      BY <1>1, <1>3, NotDiscarded DEF UpInv
    <2>3. Moved(r)
      BY <1>1, <2>1, <2>2 DEF Moved
    <2>4. UpInv'
      BY <1>1, <2>1, <2>2, <2>3, PlainKept
    <2> QED  BY <1>1, <2>1, <2>3, <2>4
  <1> QED  BY <1>2, <1>3 DEF ClearFirst

LEMMA StoreKept ==
    ASSUME UpInv, NEW r \in Reqs, Store(r)
    PROVE  UpInv' /\ Moved(r) /\ req[r].at = "store" /\ req'[r].at \in {"done", "failed"}
  <1>1. req[r].at = "store" /\ UNCHANGED <<sess, prev, restarts, calm>> /\ req[r].u \in Uploads
    BY UploadOf DEF Store, UpInv, Sessions
  <1>2. PICK l \in {"done", "failed"} : ReqTo(r, l)
    BY DEF Store
  <1>3. /\ req' \in [Reqs -> Request] /\ \A q \in Reqs \ {r} : req'[q] = req[q]
        /\ req'[r].u = req[r].u /\ req'[r].at = l
    BY <1>2, ReqMoved DEF ReqTo
  <1>4. Moved(r)
    BY <1>1, <1>3, SessionsStay DEF Moved
  <1>5. CASE committed' = [committed EXCEPT ![req[r].u] = @ + 1] /\ ReqTo(r, "done")
    <2>1. req'[r].at = "done"
      BY <1>5, ReqMoved DEF ReqTo
    <2>2. UpInv'
      BY <1>1, <1>4, <1>5, <2>1, RegisterKept
    <2> QED  BY <1>1, <1>4, <2>1, <2>2
  <1>6. CASE UNCHANGED committed
    <2>1. UpInv'
      BY <1>1, <1>3, <1>4, <1>6, PlainKept
    <2> QED  BY <1>1, <1>3, <1>4, <2>1
  <1> QED  BY <1>5, <1>6 DEF Store

\* get_upload_session: a session that was offered and is neither expired nor without its file is kept
LEMMA FindKept ==
    ASSUME UpInv, NEW r \in Reqs, Find(r)
    PROVE  /\ UpInv' /\ \A q \in Reqs \ {r} : req'[q] = req[q]
           /\ req[r].at = "idle" /\ req'[r].at \in {"found", "failed"}
  <1>1. UploadTypeOK /\ Counted /\ Sessions /\ Once /\ req[r].at = "idle" /\ req[r].u = None
        /\ UNCHANGED <<prev, committed, restarts>>
    BY DEF UpInv, Find, Sessions
  <1>2. PICK u \in {v \in Uploads : prev[v] \in {"offered", "wiped"}}, stranger \in BOOLEAN, otherKind \in BOOLEAN :
         LET s == sess[u]
             refuse == ~s.row \/ stranger
             gone == ~refuse /\ (s.expired \/ (~otherKind /\ ~s.file))
             ok == ~refuse /\ ~gone /\ ~otherKind
         IN  /\ req' = [req EXCEPT ![r] = [NoReq EXCEPT !.at = IF ok THEN "found" ELSE "failed", !.u = u]]
             /\ IF gone THEN Discard(u) \/ DiscardFails(u) ELSE UNCHANGED sess
             /\ calm' = (calm /\ (ok => \A q \in Reqs : Working(q) => req[q].u # u))
    BY DEF Find
  <1> DEFINE refuse == ~sess[u].row \/ stranger
             gone == ~refuse /\ (sess[u].expired \/ (~otherKind /\ ~sess[u].file))
             ok == ~refuse /\ ~gone /\ ~otherKind
             x == [NoReq EXCEPT !.at = IF ok THEN "found" ELSE "failed", !.u = u]
  <1>3. /\ ok => sess[u].row /\ ~gone
        /\ gone => sess[u].expired \/ ~sess[u].file
    OBVIOUS
  <1>4. /\ req' = [req EXCEPT ![r] = x]
        /\ IF gone THEN Discard(u) \/ DiscardFails(u) ELSE UNCHANGED sess
        /\ calm' = (calm /\ (ok => \A q \in Reqs : Working(q) => req[q].u # u))
    BY <1>2
  <1>5. x \in Request /\ x.u = u /\ x.at = IF ok THEN "found" ELSE "failed"
    <2> HIDE DEF ok
    <2> QED  BY DEF NoReq, Request
  <1> HIDE DEF refuse, gone, ok, x
  <1>6. /\ req' \in [Reqs -> Request] /\ \A q \in Reqs \ {r} : req'[q] = req[q]
        /\ req'[r].u = u /\ req'[r].at = IF ok THEN "found" ELSE "failed"
        /\ u \in Uploads /\ u # None /\ prev[u] \in {"offered", "wiped"}
    BY <1>1, <1>2, <1>4, <1>5, UploadAssumption DEF UploadTypeOK
  <1>7. /\ sess' \in [Uploads -> Session]
        /\ \A v \in Uploads : /\ sess'[v].kind = sess[v].kind /\ sess'[v].expired = sess[v].expired
                              /\ sess'[v].row => sess[v].row
        /\ \A v \in Uploads \ {u} : sess'[v] = sess[v]
        /\ ~gone => sess' = sess
    <2>1. CASE gone /\ Discard(u)
      BY <1>1, <1>6, <2>1, Discarded DEF UploadTypeOK
    <2>2. CASE gone /\ DiscardFails(u)
      BY <1>1, <1>6, <2>2, NotDiscarded DEF UploadTypeOK
    <2>3. CASE ~gone
      BY <1>1, <1>4, <2>3 DEF UploadTypeOK
    <2> QED  BY <1>4, <2>1, <2>2, <2>3
  <1>8. Counted'
    <2>1. \A v \in Uploads : Spent(v) \subseteq Spent(v)'
      BY <1>1, <1>6 DEF Spent, Over
    <2> QED  BY <1>1, <2>1, CountKept DEF UploadTypeOK
  <1>9. UploadTypeOK'
    <2>1. calm' \in BOOLEAN
      BY <1>4
    <2> QED  BY <1>1, <1>6, <1>7, <2>1 DEF UploadTypeOK
  <1>10. Sessions'
    <2>1. ASSUME NEW q \in Reqs
          PROVE  /\ req'[q].at = "idle" => req'[q].u = None
                 /\ req'[q].at \in {"found", "clear", "store", "drop"} => req'[q].u # None
                 /\ req'[q].u # None => prev'[req'[q].u] \in {"offered", "wiped"}
                 /\ req'[q].at \in {"clear", "store"} => sess'[req'[q].u].kind \in Early
                 /\ req'[q].at = "drop" => committed'[req'[q].u] > 0
      <3>1. CASE q = r
        BY <1>1, <1>6, <3>1
      <3>2. CASE q # r
        BY <1>1, <1>6, <1>7, <3>2, UploadOf DEF Sessions
      <3> QED  BY <3>1, <3>2
    <2>2. ASSUME NEW v \in Uploads, sess'[v].kind = "voc_table", prev'[v] = "offered", ~sess'[v].expired,
                 committed'[v] = 0
          PROVE  sess'[v].row /\ sess'[v].file
      <3>1. sess[v].row /\ sess[v].file /\ ~sess[v].expired
        BY <1>1, <1>7, <2>2 DEF Sessions
      <3>2. v = u => ~gone
        BY <1>3, <3>1
      <3> QED  BY <1>7, <3>1, <3>2
    <2> QED  BY <1>1, <2>1, <2>2 DEF Sessions
  <1>11. Once'
    <2> SUFFICES ASSUME calm' PROVE Once'
      BY DEF Once
    <2>1. calm /\ (ok => \A q \in Reqs : Working(q) => req[q].u # u)
      BY <1>4
    <2>2. /\ \A q \in Reqs \ {r} : Working(q)' <=> Working(q)
          /\ Working(r)' => ok
      BY <1>6, Stages DEF Working
    <2>3. \A p, q \in Reqs : Working(p)' /\ Working(q)' /\ req'[p].u = req'[q].u /\ req'[p].u # None => p = q
      BY <1>1, <1>6, <2>1, <2>2 DEF Once
    <2>4. ASSUME NEW q \in Reqs, req'[q].at = "store" PROVE ~sess'[req'[q].u].row
      <3>1. q # r
        BY <1>6, <2>4
      <3>2. req'[q] = req[q] /\ req[q].u \in Uploads /\ ~sess[req[q].u].row
        BY <1>1, <1>6, <2>1, <2>4, <3>1, UploadOf DEF Once, Sessions
      <3> QED  BY <1>7, <3>2
    <2>5. ASSUME NEW v \in Uploads, committed'[v] > 0
          PROVE  /\ committed'[v] = 1
                 /\ \A q \in Reqs : Working(q)' /\ req'[q].u = v => req'[q].at = "drop"
                 /\ sess'[v].row => \E q \in Reqs : req'[q].u = v /\ req'[q].at = "drop"
      <3>1. /\ committed[v] = 1 /\ \A q \in Reqs : Working(q) /\ req[q].u = v => req[q].at = "drop"
            /\ sess[v].row => \E q \in Reqs : req[q].u = v /\ req[q].at = "drop"
        BY <1>1, <2>1, <2>5 DEF Once
      <3>2. v = u => ~ok
        <4> SUFFICES ASSUME v = u, ok PROVE FALSE
          OBVIOUS
        <4>1. PICK q \in Reqs : req[q].u = u /\ req[q].at = "drop"
          BY <1>3, <3>1
        <4>2. Working(q)
          BY <4>1, Stages DEF Working
        <4> QED  BY <2>1, <4>1, <4>2
      <3>3. sess'[v].row => \E q \in Reqs \ {r} : req'[q].u = v /\ req'[q].at = "drop"
        BY <1>1, <1>6, <1>7, <3>1
      <3> QED  BY <1>1, <1>6, <2>2, <3>1, <3>2, <3>3
    <2> QED  BY <2>3, <2>4, <2>5 DEF Once
  <1> QED  BY <1>1, <1>6, <1>8, <1>9, <1>10, <1>11 DEF UpInv

\* a restart ends every commit, and calm with it if one was about to clear its session
LEMMA RestartKept ==
    ASSUME UpInv, UploadRestart
    PROVE  /\ UpInv'
           /\ \A r \in Reqs : req'[r].at = req[r].at \/ req'[r].at = "lost"
  <1>1. UploadTypeOK /\ Counted /\ Sessions /\ Once /\ UNCHANGED committed
        /\ req \in [Reqs -> Request] /\ sess \in [Uploads -> Session] /\ prev \in [Uploads -> Previews]
    BY DEF UpInv, UploadTypeOK, UploadRestart
  <1>2. PICK wiped \in BOOLEAN :
          /\ sess' = [u \in Uploads |-> [sess[u] EXCEPT !.file = @ /\ ~wiped]]
          /\ prev' = [u \in Uploads |-> CASE prev[u] \in {"saved", "clean", "check"} -> "failed"
                                          [] prev[u] = "offered" /\ wiped -> "wiped"
                                          [] OTHER -> prev[u]]
    BY DEF UploadRestart
  <1>3. ASSUME NEW u \in Uploads
        PROVE  /\ sess'[u] \in Session /\ sess'[u].kind = sess[u].kind /\ sess'[u].row = sess[u].row
               /\ sess'[u].expired = sess[u].expired
               /\ ~wiped => sess'[u].file = sess[u].file
    <2> DEFINE b == sess[u].file /\ ~wiped
    <2>1. b \in BOOLEAN /\ sess'[u] = [sess[u] EXCEPT !.file = b]
      BY <1>2
    <2>2. ~wiped => b = sess[u].file
      BY <1>1 DEF Session
    <2> HIDE DEF b
    <2> DEFINE x == [sess[u] EXCEPT !.file = b]
    <2>3. /\ x \in Session /\ x.kind = sess[u].kind /\ x.row = sess[u].row
          /\ x.expired = sess[u].expired /\ x.file = b
      <3>1. sess[u] \in Session
        BY <1>1
      <3>2. b \in BOOLEAN
        BY <2>1
      <3> QED  BY <3>1, <3>2 DEF Session
    <2>4. sess'[u] = x
      BY <2>1
    <2> HIDE DEF x
    <2> QED  BY <2>2, <2>3, <2>4
  <1>4. sess' \in [Uploads -> Session]
    <2>1. sess' = [u \in Uploads |-> sess'[u]]
      BY <1>2
    <2> QED  BY <1>3, <2>1
  <1>5. ASSUME NEW u \in Uploads
        PROVE  /\ prev'[u] \in Previews
               /\ prev[u] \in {"offered", "wiped"} => prev'[u] \in {"offered", "wiped"}
               /\ prev'[u] = "offered" => prev[u] = "offered" /\ ~wiped
    BY <1>1, <1>2, Stages
  <1>6. prev' \in [Uploads -> Previews]
    <2>1. prev' = [u \in Uploads |-> prev'[u]]
      BY <1>2
    <2> QED  BY <1>5, <2>1
  <1>7. ASSUME NEW r \in Reqs
        PROVE  /\ req'[r] \in Request /\ req'[r].u = req[r].u /\ ~Working(r)'
               /\ \/ req'[r].at = req[r].at /\ req[r].at \notin {"found", "clear", "store", "drop"}
                  \/ req'[r].at = "lost" /\ req[r].at # "idle"
               /\ req[r].at \in Over => req'[r].at \in Over
    <2> DEFINE x == [req[r] EXCEPT !.at = "lost"]
    <2>1. req'[r] = IF Working(r) THEN x ELSE req[r]
      BY DEF UploadRestart
    <2>2. x \in Request /\ x.u = req[r].u /\ x.at = "lost"
      BY <1>1 DEF Request
    <2> HIDE DEF x
    <2> QED  BY <1>1, <2>1, <2>2, Stages DEF Working, Over
  <1>8. req' \in [Reqs -> Request]
    BY <1>7 DEF UploadRestart
  <1>9. Counted'
    <2>1. \A u \in Uploads : Spent(u) \subseteq Spent(u)'
      BY <1>7 DEF Spent
    <2> QED  BY <1>1, <2>1, CountKept DEF UploadTypeOK
  <1>10. UploadTypeOK'
    <2>1. restarts' \in 0..MaxRestart /\ calm' \in BOOLEAN
      BY <1>1, UploadAssumption DEF UploadTypeOK, UploadRestart
    <2> QED  BY <1>1, <1>4, <1>6, <1>8, <2>1 DEF UploadTypeOK
  <1>11. Sessions'
    <2>1. ASSUME NEW r \in Reqs
          PROVE  /\ req'[r].at = "idle" => req'[r].u = None
                 /\ req'[r].at \notin {"found", "clear", "store", "drop"}
                 /\ req'[r].u # None => prev'[req'[r].u] \in {"offered", "wiped"}
      <3>1. req[r].at = "idle" => req[r].u = None
        BY <1>1 DEF Sessions
      <3>2. req[r].u # None => req[r].u \in Uploads /\ prev[req[r].u] \in {"offered", "wiped"}
        BY <1>1, UploadOf DEF Sessions
      <3> QED  BY <1>5, <1>7, <3>1, <3>2
    <2>2. ASSUME NEW u \in Uploads PROVE committed'[u] > 0 => prev'[u] \in {"offered", "wiped"}
      BY <1>1, <1>5 DEF Sessions
    <2>3. ASSUME NEW u \in Uploads, sess'[u].kind = "voc_table", prev'[u] = "offered", ~sess'[u].expired,
                 committed'[u] = 0
          PROVE  sess'[u].row /\ sess'[u].file
      <3>1. prev[u] = "offered" /\ ~wiped
        BY <1>5, <2>3
      <3>2. sess[u].kind = "voc_table" /\ ~sess[u].expired /\ committed[u] = 0
        BY <1>1, <1>3, <2>3
      <3>3. sess[u].row /\ sess[u].file
        BY <1>1, <3>1, <3>2 DEF Sessions
      <3> QED  BY <1>3, <3>1, <3>3
    <2> QED  BY <2>1, <2>2, <2>3 DEF Sessions
  <1>12. Once'
    <2> SUFFICES ASSUME calm' PROVE Once'
      BY DEF Once
    <2>1. calm /\ \A r \in Reqs : req[r].at # "drop"
      BY DEF UploadRestart
    <2>2. \A u \in Uploads : committed[u] > 0 => committed[u] = 1 /\ ~sess[u].row
      BY <1>1, <2>1 DEF Once
    <2>3. \A r \in Reqs : req'[r].at # "store"
      BY <1>7
    <2> QED  BY <1>1, <1>3, <1>7, <2>2, <2>3 DEF Once
  <1> QED  BY <1>7, <1>9, <1>10, <1>11, <1>12 DEF UpInv

LEMMA UpStays == ASSUME UpInv, UNCHANGED upVars PROVE UpInv'
  BY DEF UpInv, UploadTypeOK, Counted, Spent, Sessions, Once, Working, upVars
-----------------------------------------------------------------------------
(***************************************************************************)
(* The rows of an import                                                   *)
(***************************************************************************)
\* the rows of r are the same, and one that is live without a vector was so before
SameRows(r, k) ==
    /\ RowsOf(r, k)' = RowsOf(r, k)
    /\ \A i \in RowsOf(r, k) : recs'[i].live /\ recs'[i].vec = 0 => recs[i].live /\ recs[i].vec = 0
RowsKept(r) == \A k \in 0..MaxItems : SameRows(r, k)

LEMMA WholeKept ==
    ASSUME NEW r, NEW k, SameRows(r, k), plan'[r] = plan[r], Whole(r, k)
    PROVE  Whole(r, k)'
  <1>1. RowsOf(r, k)' = RowsOf(r, k) /\ RowsOf(r, k)' \subseteq Ids'
    BY DEF SameRows, RowsOf
  <1> QED  BY <1>1 DEF Whole, SameRows

LEMMA PlanBounds ==
    ASSUME PlanTypes, NEW r \in Reqs
    PROVE  /\ MaxItems \in Nat /\ plan[r] \in Seq(Item) /\ Len(plan[r]) \in Nat /\ Len(plan[r]) <= MaxItems
           /\ next[r] \in Nat
  BY VocAssumption DEF PlanTypes

\* a commit keeps what it has stored through every step but those that store
LEMMA StoredKept ==
    ASSUME NEW r \in Reqs, PlanTypes, RowsKept(r), StoredBy(r), plan'[r] = plan[r], next'[r] = next[r],
           \/ req'[r].at = req[r].at
           \/ req'[r].at \in {"failed", "lost"}
           \/ /\ req[r].at \in {"idle", "found", "clear", "store", "embed"}
              /\ req'[r].at \in {"found", "clear", "store", "embed", "done"}
           \/ req[r].at = "drop" /\ req'[r].at = "done"
    PROVE  StoredBy(r)'
  <1>0. /\ MaxItems \in Nat /\ Len(plan[r]) \in Nat /\ next[r] \in Nat /\ plan[r] \in Seq(Item)
        /\ Len(plan[r]) <= MaxItems
    BY PlanBounds
  <1>1. \A k \in 0..MaxItems : RowsOf(r, k)' = RowsOf(r, k) /\ (Whole(r, k) => Whole(r, k)')
    BY WholeKept DEF RowsKept, SameRows
  <1>2. \A k \in 1..Len(plan[r]) : Whole(r, k) => Whole(r, k)'
    BY <1>0, <1>1
  <1>3. next[r] \in 1..Len(plan[r]) => \A k \in 1..next[r] - 1 : Whole(r, k) => Whole(r, k)'
    BY <1>0, <1>1
  <1>4. next[r] \in 1..Len(plan[r]) => \A k \in next[r]..MaxItems : RowsOf(r, k)' = RowsOf(r, k)
    BY <1>0, <1>1
  <1>5. \A k \in 0..MaxItems : RowsOf(r, k)' = RowsOf(r, k)
    BY <1>1
  <1> QED  BY <1>0, <1>2, <1>3, <1>4, <1>5 DEF StoredBy

\* rows that keep their batch and place, and get no vector taken away
LEMMA RowsLike ==
    ASSUME RecTypes, Len(recs') = Len(recs), NEW r \in Reqs,
           \A i \in Ids : /\ recs'[i].batch = recs[i].batch /\ recs'[i].pos = recs[i].pos
                          /\ recs'[i].live /\ recs'[i].vec = 0 => recs[i].live /\ recs[i].vec = 0
    PROVE  RowsKept(r)
  BY DEF RowsKept, SameRows, RowsOf, Ids

\* a row stored for somebody else
LEMMA RowAppended ==
    ASSUME RecTypes, NEW x \in Record, recs' = Append(recs, x), Len(recs) < MaxRecs
    PROVE  /\ recs' \in Seq(Record) /\ Len(recs') = Len(recs) + 1 /\ Len(recs') <= MaxRecs /\ Len(recs) \in Nat
           /\ \A i \in Ids : recs'[i] = recs[i]
           /\ recs'[Len(recs) + 1] = x
           /\ \A r, k : RowsOf(r, k)' = RowsOf(r, k) \cup (IF x.batch = r /\ x.pos = k THEN {Len(recs) + 1} ELSE {})
  <1>1. /\ recs' \in Seq(Record) /\ Len(recs') = Len(recs) + 1 /\ Len(recs) \in Nat
        /\ \A i \in Ids : recs'[i] = recs[i]
        /\ recs'[Len(recs) + 1] = x
    BY AppendProperties, LenProperties DEF RecTypes, Ids
  <1>2. ASSUME NEW r, NEW k
        PROVE  RowsOf(r, k)' = RowsOf(r, k) \cup (IF x.batch = r /\ x.pos = k THEN {Len(recs) + 1} ELSE {})
    <2>1. \A i : i \in Ids' <=> i \in Ids \/ i = Len(recs) + 1
      BY <1>1 DEF Ids
    <2> QED  BY <1>1, <2>1 DEF RowsOf
  <1>3. Len(recs') <= MaxRecs
    BY <1>1, VocAssumption
  <1> QED  BY <1>1, <1>2, <1>3

LEMMA RowsSame ==
    ASSUME UNCHANGED recs, NEW r PROVE RowsKept(r)
  BY DEF RowsKept, SameRows, RowsOf, Ids

\* a step about uploads only
LEMMA UploadStep ==
    ASSUME IInv, UpInv', UNCHANGED <<recVars, runVars, touched>>,
           \A r \in Reqs :
               \/ req'[r].at = req[r].at
               \/ req'[r].at \in {"failed", "lost"}
               \/ /\ req[r].at \in {"idle", "found", "clear", "store"}
                  /\ req'[r].at \in {"found", "clear", "store", "embed", "done"}
               \/ req[r].at = "drop" /\ req'[r].at = "done"
    PROVE  IInv'
  <1>1. UNCHANGED <<recs, plan, next, run, running, pool, raced, touched>>
    BY DEF recVars, runVars
  <1>2. ASSUME NEW r \in Reqs PROVE StoredBy(r)'
    BY <1>1, RowsSame, StoredKept DEF IInv, Stored
  <1>3. Fits'
    BY <1>1 DEF IInv, Fits, Ids
  <1>4. Single'
    BY <1>1 DEF IInv, Single, Active, Task
  <1> QED  BY <1>1, <1>2, <1>3, <1>4 DEF IInv, RecTypes, PlanTypes, RunTypes, Stored

LEMMA OfUploadKept ==
    ASSUME IInv, \/ \E u \in Uploads : OfUpload(PreviewStep(u))
                 \/ \E r \in Reqs : OfUpload(Find(r)) \/ OfUpload(CommitStep(r))
    PROVE  IInv'
  <1>1. UpInv /\ UNCHANGED <<recVars, runVars, touched>>
    BY DEF IInv, OfUpload
  <1>2. ASSUME NEW u \in Uploads, PreviewStep(u) PROVE IInv'
    <2>1. PreviewFacts
      BY <1>1, <1>2, PreviewDoes DEF UpInv
    <2>2. UpInv' /\ req' = req
      BY <1>1, <2>1, PreviewKept DEF PreviewFacts
    <2> QED  BY <1>1, <2>2, UploadStep
  <1>3. ASSUME NEW r \in Reqs, Find(r) PROVE IInv'
    BY <1>1, <1>3, FindKept, UploadStep
  <1>4. ASSUME NEW r \in Reqs, CommitStep(r) PROVE IInv'
    <2>1. CASE Parse(r)
      <3>1. UpInv' /\ Moved(r) /\ req[r].at = "found" /\ req'[r].at \in {"clear", "embed", "failed"}
        BY <1>1, <2>1, ParseKept
      <3> QED  BY <1>1, <3>1, UploadStep DEF Moved
    <2>2. CASE ClearFirst(r)
      <3>1. UpInv' /\ Moved(r) /\ req[r].at = "clear" /\ req'[r].at \in {"store", "failed"}
        BY <1>1, <2>2, ClearFirstKept
      <3> QED  BY <1>1, <3>1, UploadStep DEF Moved
    <2>3. CASE Store(r)
      <3>1. UpInv' /\ Moved(r) /\ req[r].at = "store" /\ req'[r].at \in {"done", "failed"}
        BY <1>1, <2>3, StoreKept
      <3> QED  BY <1>1, <3>1, UploadStep DEF Moved
    <2>4. CASE Drop(r)
      <3>1. UpInv' /\ Moved(r) /\ req[r].at = "drop" /\ req'[r].at \in {"done", "failed"}
        BY <1>1, <2>4, DropKept
      <3> QED  BY <1>1, <3>1, UploadStep DEF Moved
    <2> QED  BY <1>4, <2>1, <2>2, <2>3, <2>4 DEF CommitStep
  <1> QED  BY <1>2, <1>3, <1>4 DEF OfUpload

LEMMA ImportFileKept ==
    ASSUME IInv, NEW r \in Reqs, ImportFile(r)
    PROVE  IInv'
  <1>1. /\ UpInv /\ req[r].at = "idle" /\ req[r].u = None
        /\ UNCHANGED <<sess, prev, committed, restarts, calm, recVars, runVars, touched>>
    BY DEF ImportFile, IInv, UpInv, Sessions
  <1>2. PICK l \in {"embed", "failed"} : ReqTo(r, l)
    BY DEF ImportFile
  <1>3. /\ req' \in [Reqs -> Request] /\ \A q \in Reqs \ {r} : req'[q] = req[q]
        /\ req'[r].u = req[r].u /\ req'[r].at = l
    BY <1>1, <1>2, ReqMoved DEF ReqTo
  <1>4. Moved(r)
    BY <1>1, <1>3, SessionsStay DEF Moved
  <1>5. UpInv'
    BY <1>1, <1>3, <1>4, PlainKept
  <1> QED  BY <1>1, <1>3, <1>5, UploadStep

\* the rows are planned, none is stored yet
LEMMA EmbedKept ==
    ASSUME IInv, NEW r \in Reqs, Embed(r)
    PROVE  IInv'
  <1>1. /\ UpInv /\ PlanTypes /\ StoredBy(r) /\ req[r].at = "embed"
        /\ UNCHANGED <<sess, prev, committed, restarts, calm, recs, next, run, running, raced, touched>>
    BY DEF Embed, IInv, Stored
  <1>2. PICK l \in {"insert", "done", "failed"} : ReqTo(r, l)
    BY DEF Embed
  <1>3. /\ req' \in [Reqs -> Request] /\ \A q \in Reqs \ {r} : req'[q] = req[q]
        /\ req'[r].u = req[r].u /\ req'[r].at = l
    BY <1>1, <1>2, ReqMoved DEF ReqTo
  <1>4. Moved(r)
    BY <1>1, <1>3, SessionsStay DEF Moved
  <1>5. UpInv'
    BY <1>1, <1>3, <1>4, PlainKept
  <1>6. Fits' /\ RecTypes'
    BY <1>1 DEF IInv, Fits, Ids, RecTypes
  <1>7. Single'
    BY <1>1 DEF IInv, Single, Active, Task
  <1>8. RunTypes'
    BY <1>1 DEF Embed, IInv, RunTypes
  <1>9. CASE UNCHANGED plan /\ (ReqTo(r, "done") \/ ReqTo(r, "failed"))
    <2>1. req'[r].at \in {"done", "failed"} /\ plan[r] = <<>>
      BY <1>1, <1>9, ReqMoved DEF ReqTo, StoredBy
    <2>2. ASSUME NEW q \in Reqs PROVE StoredBy(q)'
      BY <1>1, <1>3, <1>9, <2>1, RowsSame, StoredKept DEF IInv, Stored
    <2> QED  BY <1>1, <1>5, <1>6, <1>7, <1>8, <1>9, <2>2 DEF IInv, PlanTypes, Stored
  <1>10. ASSUME NEW n \in 1..MaxItems, NEW p \in [1..n -> Item], plan' = [plan EXCEPT ![r] = p], ReqTo(r, "insert")
         PROVE  IInv'
    <2>1. req'[r].at = "insert"
      BY <1>1, <1>10, ReqMoved DEF ReqTo
    <2>2. n \in Nat /\ MaxItems \in Nat
      BY VocAssumption
    <2>3. p \in Seq(Item) /\ Len(p) = n
      BY <2>2
    <2>4. PlanTypes' /\ plan'[r] = p /\ \A q \in Reqs \ {r} : plan'[q] = plan[q]
      <3>1. n <= MaxItems
        BY <2>2
      <3> QED  BY <1>1, <1>10, <2>3, <3>1 DEF PlanTypes
    <2>5. StoredBy(r)'
      <3>1. next[r] = 1 /\ \A k \in 0..MaxItems : RowsOf(r, k) = {}
        BY <1>1 DEF StoredBy
      <3>2. next'[r] = 1 /\ \A k \in 0..MaxItems : RowsOf(r, k)' = {}
        BY <1>1, <3>1, RowsSame DEF RowsKept, SameRows
      <3> QED  BY <2>1, <2>2, <2>3, <2>4, <3>2 DEF StoredBy
    <2>6. ASSUME NEW q \in Reqs \ {r} PROVE StoredBy(q)'
      BY <1>1, <1>3, <2>4, RowsSame, StoredKept DEF IInv, Stored
    <2> QED  BY <1>5, <1>6, <1>7, <1>8, <2>4, <2>5, <2>6 DEF IInv, Stored
  <1> QED  BY <1>9, <1>10 DEF Embed

\* where the loop over the rows goes
LEMMA GoOnKept ==
    ASSUME UpInv, PlanTypes, NEW r \in Reqs, req[r].at = "insert", GoOn(r), next[r] \in 1..Len(plan[r]),
           UNCHANGED <<sess, prev, restarts, calm, plan>>
    PROVE  /\ UpInv' /\ PlanTypes'
           /\ \A q \in Reqs \ {r} : req'[q] = req[q] /\ next'[q] = next[q]
           /\ next'[r] = next[r] + 1
           /\ \/ next[r] = Len(plan[r]) /\ req'[r].at \in {"drop", "done"}
              \/ next[r] < Len(plan[r]) /\ req'[r].at = "insert"
  <1>1. /\ MaxItems \in Nat /\ Len(plan[r]) \in Nat /\ Len(plan[r]) <= MaxItems /\ next[r] \in Nat
    BY PlanBounds
  <1>2. /\ next' \in [Reqs -> 1..MaxItems + 1] /\ next'[r] = next[r] + 1
        /\ \A q \in Reqs \ {r} : next'[q] = next[q]
    <2>1. next[r] + 1 \in 1..MaxItems + 1
      BY <1>1
    <2>2. next' = [next EXCEPT ![r] = next[r] + 1]
      BY DEF GoOn
    <2> QED  BY <2>1, <2>2 DEF PlanTypes
  <1>3. PlanTypes'
    BY <1>2 DEF PlanTypes
  <1>4. CASE next[r] # Len(plan[r])
    <2>1. UNCHANGED <<req, committed>>
      BY <1>4 DEF GoOn
    <2>2. UpInv'
      BY <2>1, UpStays DEF upVars
    <2> QED  BY <1>1, <1>2, <1>3, <1>4, <2>1, <2>2
  <1>5. CASE next[r] = Len(plan[r])
    <2>1. Finished(r)
      BY <1>5 DEF GoOn
    <2>2. CASE req[r].u = None
      <3>1. ReqTo(r, "done") /\ UNCHANGED committed
        BY <2>1, <2>2 DEF Finished
      <3>2. /\ req' \in [Reqs -> Request] /\ \A q \in Reqs \ {r} : req'[q] = req[q]
            /\ req'[r].u = req[r].u /\ req'[r].at = "done"
        BY <3>1, ReqMoved DEF ReqTo
      <3>3. Moved(r)
        BY <3>2, SessionsStay DEF Moved
      <3>4. UpInv'
        BY <3>1, <3>2, <3>3, PlainKept
      <3> QED  BY <1>2, <1>3, <1>5, <3>2, <3>4
    <2>3. CASE req[r].u # None
      <3>1. ReqTo(r, "drop") /\ committed' = [committed EXCEPT ![req[r].u] = @ + 1] /\ req[r].u \in Uploads
        BY <2>1, <2>3, UploadOf DEF Finished
      <3>2. /\ req' \in [Reqs -> Request] /\ \A q \in Reqs \ {r} : req'[q] = req[q]
            /\ req'[r].u = req[r].u /\ req'[r].at = "drop"
        BY <3>1, ReqMoved DEF ReqTo
      <3>3. Moved(r)
        BY <3>2, SessionsStay DEF Moved
      <3>4. UpInv'
        BY <3>1, <3>2, <3>3, RegisterKept
      <3> QED  BY <1>2, <1>3, <1>5, <3>2, <3>4
    <2> QED  BY <2>2, <2>3
  <1> QED  BY <1>4, <1>5

\* the row at hand is stored, those before it were and those after it are not
LEMMA RowStored ==
    ASSUME NEW r \in Reqs, NEW n, n = next[r], PlanTypes, StoredBy(r), req[r].at = "insert", plan'[r] = plan[r],
           next'[r] = n + 1,
           \/ n = Len(plan[r]) /\ req'[r].at \in {"drop", "done"}
           \/ n < Len(plan[r]) /\ req'[r].at = "insert",
           Whole(r, n)', \A k \in 0..MaxItems : k # n => SameRows(r, k)
    PROVE  StoredBy(r)'
  <1>1. /\ MaxItems \in Nat /\ Len(plan[r]) \in Nat /\ Len(plan[r]) <= MaxItems /\ n \in Nat
        /\ n \in 1..Len(plan[r])
    BY PlanBounds DEF StoredBy
  <1>2. \A k \in 1..n - 1 : Whole(r, k)'
    <2> SUFFICES ASSUME NEW k \in 1..n - 1 PROVE Whole(r, k)'
      OBVIOUS
    <2>1. k \in 0..MaxItems /\ k # n
      BY <1>1
    <2>2. Whole(r, k) /\ SameRows(r, k)
      BY <2>1 DEF StoredBy
    <2> QED  BY <2>2, WholeKept
  <1>3. \A k \in 1..n : Whole(r, k)'
    <2> SUFFICES ASSUME NEW k \in 1..n PROVE Whole(r, k)'
      OBVIOUS
    <2>1. k = n \/ k \in 1..n - 1
      BY <1>1
    <2> QED  BY <1>2, <2>1
  <1>4. \A k \in n + 1..MaxItems : RowsOf(r, k)' = {}
    <2> SUFFICES ASSUME NEW k \in n + 1..MaxItems PROVE RowsOf(r, k)' = {}
      OBVIOUS
    <2>1. k \in 0..MaxItems /\ k # n /\ k \in n..MaxItems
      BY <1>1
    <2> QED  BY <2>1 DEF StoredBy, SameRows
  <1>5. CASE n = Len(plan[r]) /\ req'[r].at \in {"drop", "done"}
    <2>1. \A k \in 1..Len(plan'[r]) : Whole(r, k)'
      BY <1>3, <1>5
    <2> QED  BY <1>5, <2>1 DEF StoredBy
  <1>6. CASE n < Len(plan[r]) /\ req'[r].at = "insert"
    <2>1. next'[r] \in 1..Len(plan'[r])
      BY <1>1, <1>6
    <2>2. \A k \in 1..next'[r] - 1 : Whole(r, k)'
      BY <1>1, <1>3
    <2>3. \A k \in next'[r]..MaxItems : RowsOf(r, k)' = {}
      BY <1>4
    <2> QED  BY <1>6, <2>1, <2>2, <2>3 DEF StoredBy
  <1> QED  BY <1>5, <1>6

\* a new row fits, and is nobody else's
LEMMA AppendKept ==
    ASSUME RecTypes, Fits, NEW x \in Record, recs' = Append(recs, x), Len(recs) < MaxRecs,
           x.vec \in {0, x.text}, x.label = 0, UNCHANGED <<run, touched>>
    PROVE  /\ RecTypes' /\ Fits'
           /\ \A q \in Reqs, k \in 0..MaxItems : (x.batch # q \/ x.pos # k) => SameRows(q, k)
  <1>1. /\ recs' \in Seq(Record) /\ Len(recs') = Len(recs) + 1 /\ Len(recs') <= MaxRecs /\ Len(recs) \in Nat
        /\ \A i \in Ids : recs'[i] = recs[i]
        /\ recs'[Len(recs) + 1] = x
        /\ \A r, k : RowsOf(r, k)' = RowsOf(r, k) \cup (IF x.batch = r /\ x.pos = k THEN {Len(recs) + 1} ELSE {})
    BY RowAppended
  <1>2. \A i : i \in Ids' <=> i \in Ids \/ i = Len(recs) + 1
    BY <1>1 DEF Ids
  <1>3. RecTypes'
    BY <1>1 DEF RecTypes
  <1>4. Fits'
    <2>1. ASSUME NEW i \in Ids'
          PROVE  /\ recs'[i].vec \in {0, recs'[i].text}
                 /\ recs'[i].label \in {0, recs'[i].text} \/ i \in touched
      BY <1>1, <1>2 DEF Fits
    <2>2. ASSUME NEW s \in Runs, NEW p \in run[s].todo \cup run[s].verdicts
          PROVE  p[1] \in Ids' /\ (recs'[p[1]].live => p[2] = recs'[p[1]].text \/ p[1] \in touched)
      BY <1>1, <1>2 DEF Fits
    <2> QED  BY <2>1, <2>2 DEF Fits
  <1>5. ASSUME NEW q \in Reqs, NEW k \in 0..MaxItems, x.batch # q \/ x.pos # k
        PROVE  SameRows(q, k)
    <2>1. RowsOf(q, k)' = RowsOf(q, k)
      BY <1>1, <1>5
    <2>2. RowsOf(q, k) \subseteq Ids
      BY DEF RowsOf
    <2> QED  BY <1>1, <2>1, <2>2 DEF SameRows
  <1> QED  BY <1>3, <1>4, <1>5

LEMMA InsertRowKept ==
    ASSUME IInv, NEW r \in Reqs, InsertRow(r)
    PROVE  IInv'
  <1>1. /\ UpInv /\ RecTypes /\ PlanTypes /\ RunTypes /\ Stored /\ Fits /\ Single
        /\ req[r].at = "insert"
        /\ UNCHANGED <<sess, prev, restarts, calm, plan, run, running, pool, raced, touched>>
    BY DEF IInv, InsertRow, StoreRow, runVars
  <1>0. PICK n : n = next[r]
    OBVIOUS
  <1> DEFINE item == plan[r][n]
  <1>2. /\ MaxItems \in Nat /\ plan[r] \in Seq(Item) /\ Len(plan[r]) \in Nat /\ Len(plan[r]) <= MaxItems
        /\ n \in 1..Len(plan[r]) /\ n \in 0..MaxItems /\ RowsOf(r, n) = {} /\ StoredBy(r)
    <2>1. StoredBy(r)
      BY <1>1 DEF Stored
    <2>2. /\ MaxItems \in Nat /\ plan[r] \in Seq(Item) /\ Len(plan[r]) \in Nat /\ Len(plan[r]) <= MaxItems
          /\ n \in 1..Len(plan[r])
      BY <1>0, <1>1, <2>1, PlanBounds DEF StoredBy
    <2>3. n \in 0..MaxItems /\ n \in n..MaxItems
      BY <2>2
    <2> QED  BY <1>0, <1>1, <2>1, <2>2, <2>3 DEF StoredBy
  <1>3. Single' /\ RunTypes'
    BY <1>1 DEF Single, Active, Task, RunTypes
  <1>4. CASE ReqTo(r, "failed") /\ UNCHANGED <<recs, next, committed>>
    <2>1. /\ req' \in [Reqs -> Request] /\ \A q \in Reqs \ {r} : req'[q] = req[q]
          /\ req'[r].u = req[r].u /\ req'[r].at = "failed"
      BY <1>1, <1>4, ReqMoved DEF ReqTo
    <2>2. Moved(r)
      BY <1>1, <2>1, SessionsStay DEF Moved
    <2>3. UpInv'
      BY <1>1, <1>4, <2>1, <2>2, PlainKept
    <2>4. UNCHANGED <<recVars, runVars, touched>>
      BY <1>1, <1>4 DEF recVars, runVars
    <2> QED  BY <2>1, <2>3, <2>4, UploadStep
  <1>5. ASSUME GoOn(r), RecTypes', Fits', Whole(r, n)',
               \A q \in Reqs, k \in 0..MaxItems : (q # r \/ k # n) => SameRows(q, k)
        PROVE  IInv'
    <2>1. /\ UpInv' /\ PlanTypes'
          /\ \A q \in Reqs \ {r} : req'[q] = req[q] /\ next'[q] = next[q]
          /\ next'[r] = next[r] + 1
          /\ \/ next[r] = Len(plan[r]) /\ req'[r].at \in {"drop", "done"}
             \/ next[r] < Len(plan[r]) /\ req'[r].at = "insert"
      BY <1>0, <1>1, <1>2, <1>5, GoOnKept
    <2>2. StoredBy(r)'
      BY <1>0, <1>1, <1>2, <1>5, <2>1, RowStored
    <2>3. ASSUME NEW q \in Reqs \ {r} PROVE StoredBy(q)'
      <3>1. RowsKept(q) /\ StoredBy(q)
        BY <1>1, <1>5 DEF RowsKept, Stored
      <3> QED  BY <1>1, <2>1, <3>1, StoredKept
    <2> QED  BY <1>3, <1>5, <2>1, <2>2, <2>3 DEF IInv, Stored
  <1>6. CASE item = "blank" /\ UNCHANGED recs /\ GoOn(r)
    <2>1. \A q \in Reqs : RowsKept(q)
      BY <1>6, RowsSame
    <2>2. RowsOf(r, n)' = {}
      BY <1>2, <2>1 DEF RowsKept, SameRows
    <2>3. Whole(r, n)'
      <3>1. plan'[r][n] = "blank"
        BY <1>1, <1>6
      <3> QED  BY <2>2, <3>1 DEF Whole
    <2>4. RecTypes' /\ Fits'
      BY <1>1, <1>6 DEF RecTypes, Fits, Ids
    <2> QED  BY <1>5, <1>6, <2>1, <2>3, <2>4 DEF RowsKept
  <1>7. CASE /\ item # "blank" /\ Len(recs) < MaxRecs
             /\ recs' = Append(recs, NewRecord(r, n, IF item = "vector" THEN 1 ELSE 0))
             /\ GoOn(r)
    <2> DEFINE v == IF item = "vector" THEN 1 ELSE 0
               x == NewRecord(r, n, v)
    <2>1. v \in {0, 1} /\ (v = 0 => item # "vector")
      OBVIOUS
    <2>2. item = "gap" \/ item = "vector"
      <3>1. item \in Item
        BY <1>2, ElementOfSeq
      <3> QED  BY <1>7, <3>1 DEF Item
    <2>3. recs' = Append(recs, x)
      BY <1>7
    <2> HIDE DEF v
    <2>4. /\ x \in Record /\ x.live = TRUE /\ x.vec = v /\ x.text = 1 /\ x.label = 0
          /\ x.batch = r /\ x.pos = n
      <3>1. 1 \in Texts /\ MaxText \in Nat
        BY VocAssumption DEF Texts
      <3> QED  BY <1>2, <2>1, <3>1 DEF Record, NewRecord
    <2> HIDE DEF x
    <2>5. /\ recs' \in Seq(Record) /\ Len(recs') = Len(recs) + 1 /\ Len(recs') <= MaxRecs /\ Len(recs) \in Nat
          /\ recs'[Len(recs) + 1] = x
          /\ RowsOf(r, n)' = RowsOf(r, n) \cup (IF x.batch = r /\ x.pos = n THEN {Len(recs) + 1} ELSE {})
      BY <1>1, <1>7, <2>3, <2>4, RowAppended
    <2>6. RowsOf(r, n)' = {Len(recs) + 1} /\ Len(recs) + 1 \in Ids'
      BY <1>2, <2>4, <2>5 DEF Ids
    <2>7. Whole(r, n)'
      <3>1. plan'[r][n] = item /\ item # "blank"
        BY <1>1, <1>7
      <3>2. \A i \in RowsOf(r, n)' : recs'[i].vec = 0 => item = "gap"
        BY <2>1, <2>2, <2>4, <2>5, <2>6
      <3> QED  BY <2>6, <3>1, <3>2 DEF Whole
    <2>8. /\ RecTypes' /\ Fits'
          /\ \A q \in Reqs, k \in 0..MaxItems : (x.batch # q \/ x.pos # k) => SameRows(q, k)
      <3>1. x.vec \in {0, x.text}
        BY <2>1, <2>4
      <3> QED  BY <1>1, <1>7, <2>3, <2>4, <3>1, AppendKept
    <2> QED  BY <1>5, <1>7, <2>4, <2>7, <2>8
  <1> QED  BY <1>0, <1>4, <1>6, <1>7 DEF InsertRow, StoreRow
-----------------------------------------------------------------------------
(***************************************************************************)
(* Editing                                                                 *)
(***************************************************************************)
\* a step about rows and classifications only
LEMMA RowStep ==
    ASSUME IInv, UNCHANGED <<upVars, plan, next>>, RecTypes', RunTypes', Fits', Single',
           \A r \in Reqs : RowsKept(r)
    PROVE  IInv'
  <1>1. UpInv' /\ PlanTypes' /\ req' = req
    BY UpStays DEF IInv, PlanTypes, upVars
  <1>2. ASSUME NEW r \in Reqs PROVE StoredBy(r)'
    BY <1>1, StoredKept DEF IInv, Stored
  <1> QED  BY <1>1, <1>2 DEF IInv, Stored

LEMMA EditStep ==
    ASSUME IInv, UNCHANGED <<upVars, plan, next, run, running, raced>>, pool' = TRUE, RecTypes', Fits',
           \A r \in Reqs : RowsKept(r)
    PROVE  IInv'
  <1>1. RunTypes'
    BY DEF IInv, RunTypes
  <1>2. Single'
    BY DEF IInv, Single, Active, Task
  <1> QED  BY <1>1, <1>2, RowStep

LEMMA CreateKept ==
    ASSUME IInv, Create
    PROVE  IInv'
  <1>1. /\ RecTypes /\ Fits /\ Len(recs) < MaxRecs /\ recs' = Append(recs, NewRecord(None, 0, 1))
        /\ UNCHANGED <<upVars, plan, next, run, running, raced, touched>> /\ pool' = TRUE
    BY DEF IInv, Create, Change
  <1> DEFINE x == NewRecord(None, 0, 1)
  <1>2. x \in Record /\ x.vec = 1 /\ x.text = 1 /\ x.label = 0 /\ x.batch = None
    <2>1. 1 \in Texts /\ 0 \in 0..MaxItems
      BY VocAssumption DEF Texts
    <2> QED  BY <2>1 DEF Record, NewRecord
  <1>3. recs' = Append(recs, x)
    BY <1>1
  <1> HIDE DEF x
  <1>4. /\ RecTypes' /\ Fits'
        /\ \A q \in Reqs, k \in 0..MaxItems : (x.batch # q \/ x.pos # k) => SameRows(q, k)
    BY <1>1, <1>2, <1>3, AppendKept
  <1>5. \A q \in Reqs : RowsKept(q)
    BY <1>2, <1>4, UploadAssumption DEF RowsKept
  <1> QED  BY <1>1, <1>4, <1>5, EditStep

LEMMA RecordAt ==
    ASSUME RecTypes, NEW i \in Ids
    PROVE  /\ recs[i] \in Record /\ i \in 1..Len(recs) /\ i \in 1..MaxRecs /\ Len(recs) \in Nat
           /\ recs[i].live \in BOOLEAN /\ recs[i].text \in Texts /\ recs[i].vec \in Texts \cup {0}
           /\ recs[i].label \in Texts \cup {0} /\ recs[i].batch \in Reqs \cup {None}
           /\ recs[i].pos \in 0..MaxItems
  <1>1. Len(recs) \in Nat /\ i \in 1..Len(recs)
    BY LenProperties DEF RecTypes, Ids
  <1>2. recs[i] \in Record
    BY <1>1, ElementOfSeq DEF RecTypes
  <1>3. i \in 1..MaxRecs
    BY <1>1, VocAssumption DEF RecTypes
  <1> QED  BY <1>1, <1>2, <1>3 DEF Record

\* one row is written
LEMMA RecordSet ==
    ASSUME RecTypes, NEW i \in Ids, NEW e \in Record, recs' = [recs EXCEPT ![i] = e]
    PROVE  /\ recs' \in Seq(Record) /\ Len(recs') = Len(recs) /\ Ids' = Ids
           /\ recs'[i] = e /\ \A j \in Ids \ {i} : recs'[j] = recs[j]
  BY ExceptSeq, RecordAt DEF RecTypes, Ids

LEMMA UpdateKept ==
    ASSUME IInv, NEW i \in Ids, Update(i)
    PROVE  IInv'
  <1>1. /\ RecTypes /\ Fits /\ recs[i].live /\ recs[i].text < MaxText
        /\ recs' = [recs EXCEPT ![i] = Reset(i, recs[i].text + 1)]
        /\ touched' = IF \E s \in Runs : Holds(s, i) THEN touched \cup {i} ELSE touched
        /\ UNCHANGED <<upVars, plan, next, run, running, raced>> /\ pool' = TRUE
    BY DEF IInv, Update, Change, Edited
  <1>2. /\ recs[i] \in Record /\ i \in 1..MaxRecs /\ recs[i].text \in Texts
        /\ recs[i].batch \in Reqs \cup {None} /\ recs[i].pos \in 0..MaxItems
    BY <1>1, RecordAt
  <1>3. PICK n : n = recs[i].text + 1
    OBVIOUS
  <1>4. n \in Texts /\ n # 0
    BY <1>1, <1>2, <1>3, VocAssumption DEF Texts
  <1> DEFINE x == [recs[i] EXCEPT !.text = n, !.vec = n]
             e == [x EXCEPT !.label = 0]
  <1>5. x \in Record /\ x.text = n /\ x.vec = n /\ x.batch = recs[i].batch /\ x.pos = recs[i].pos
    <2>1. n \in Texts \cup {0}
      BY <1>4
    <2> QED  BY <1>2, <1>4, <2>1 DEF Record
  <1>6. recs' = [recs EXCEPT ![i] = e]
    BY <1>1, <1>2, <1>3 DEF Reset, Record
  <1> HIDE DEF x
  <1>7. /\ e \in Record /\ e.text = n /\ e.vec = n /\ e.label = 0
        /\ e.batch = recs[i].batch /\ e.pos = recs[i].pos
    BY <1>5 DEF Record
  <1> HIDE DEF e
  <1>8. /\ recs' \in Seq(Record) /\ Len(recs') = Len(recs) /\ Ids' = Ids
        /\ recs'[i] = e /\ \A j \in Ids \ {i} : recs'[j] = recs[j]
    BY <1>1, <1>6, <1>7, RecordSet
  <1>9. RecTypes'
    BY <1>1, <1>2, <1>8 DEF RecTypes
  <1>10. Fits'
    <2>1. ASSUME NEW j \in Ids
          PROVE  /\ recs'[j].vec \in {0, recs'[j].text}
                 /\ recs'[j].label \in {0, recs'[j].text} \/ j \in touched'
      BY <1>1, <1>7, <1>8 DEF Fits
    <2>2. ASSUME NEW s \in Runs, NEW p \in run[s].todo \cup run[s].verdicts
          PROVE  p[1] \in Ids /\ (recs'[p[1]].live => p[2] = recs'[p[1]].text \/ p[1] \in touched')
      <3>1. CASE p[1] = i
        <4>1. Holds(s, i)
          BY <3>1 DEF Holds
        <4> QED  BY <1>1, <3>1, <4>1
      <3>2. CASE p[1] # i
        <4>1. p[1] \in Ids /\ (recs[p[1]].live => p[2] = recs[p[1]].text \/ p[1] \in touched)
          BY <1>1 DEF Fits
        <4> QED  BY <1>1, <1>8, <3>2, <4>1
      <3> QED  BY <3>1, <3>2
    <2>3. run' = run
      BY <1>1
    <2> QED  BY <1>8, <2>1, <2>2, <2>3 DEF Fits
  <1>11. \A r \in Reqs : RowsKept(r)
    <2>1. \A j \in Ids : /\ recs'[j].batch = recs[j].batch /\ recs'[j].pos = recs[j].pos
                         /\ recs'[j].live /\ recs'[j].vec = 0 => recs[j].live /\ recs[j].vec = 0
      BY <1>4, <1>7, <1>8
    <2> QED  BY <1>1, <1>8, <2>1, RowsLike
  <1> QED  BY <1>1, <1>9, <1>10, <1>11, EditStep

LEMMA RemovedKept ==
    ASSUME IInv, NEW S \in SUBSET Ids, Change(Removed(S))
    PROVE  IInv'
  <1>1. /\ RecTypes /\ Fits /\ touched' = touched \ S
        /\ UNCHANGED <<upVars, plan, next, run, running, raced>> /\ pool' = TRUE
    BY DEF IInv, Change, Removed
  <1> DEFINE x(i) == [NewRecord(recs[i].batch, recs[i].pos, 0) EXCEPT !.live = FALSE]
  <1>2. recs' = [i \in Ids |-> IF i \in S THEN x(i) ELSE recs[i]]
    BY DEF Change, Removed
  <1>3. ASSUME NEW i \in Ids
        PROVE  /\ x(i) \in Record /\ ~x(i).live /\ x(i).vec = 0 /\ x(i).label = 0
               /\ x(i).batch = recs[i].batch /\ x(i).pos = recs[i].pos
    <2>1. recs[i].batch \in Reqs \cup {None} /\ recs[i].pos \in 0..MaxItems
      BY <1>1, RecordAt
    <2>2. 1 \in Texts
      BY VocAssumption DEF Texts
    <2> QED  BY <2>1, <2>2 DEF NewRecord, Record
  <1> HIDE DEF x
  <1>4. Len(recs) \in Nat /\ Ids = 1..Len(recs) /\ \A i \in Ids : recs[i] \in Record
    BY <1>1, LenProperties, RecordAt DEF RecTypes, Ids
  <1>5. recs' \in [1..Len(recs) -> Record]
    BY <1>2, <1>3, <1>4
  <1>6. recs' \in Seq(Record) /\ Len(recs') = Len(recs)
    BY <1>4, <1>5
  <1>7. Ids' = Ids
    BY <1>6 DEF Ids
  <1>8. RecTypes'
    BY <1>1, <1>6 DEF RecTypes
  <1>9. Fits'
    <2>1. ASSUME NEW i \in Ids
          PROVE  /\ recs'[i].vec \in {0, recs'[i].text}
                 /\ recs'[i].label \in {0, recs'[i].text} \/ i \in touched'
      BY <1>1, <1>2, <1>3 DEF Fits
    <2>2. ASSUME NEW s \in Runs, NEW p \in run[s].todo \cup run[s].verdicts
          PROVE  p[1] \in Ids /\ (recs'[p[1]].live => p[2] = recs'[p[1]].text \/ p[1] \in touched')
      BY <1>1, <1>2, <1>3 DEF Fits
    <2>3. run' = run
      BY <1>1
    <2> QED  BY <1>7, <2>1, <2>2, <2>3 DEF Fits
  <1>10. \A r \in Reqs : RowsKept(r)
    <2>1. \A j \in Ids : /\ recs'[j].batch = recs[j].batch /\ recs'[j].pos = recs[j].pos
                         /\ recs'[j].live /\ recs'[j].vec = 0 => recs[j].live /\ recs[j].vec = 0
      BY <1>2, <1>3
    <2> QED  BY <1>1, <1>6, <2>1, RowsLike
  <1> QED  BY <1>1, <1>8, <1>9, <1>10, EditStep
-----------------------------------------------------------------------------
(***************************************************************************)
(* The classification                                                      *)
(***************************************************************************)
\* a run that goes on, or ends with its flag
LEMMA SingleStays ==
    ASSUME Single, NEW s \in Runs, \A q \in Runs \ {s} : run'[q] = run[q], UNCHANGED raced, Task(s),
           \/ Task(s)' /\ UNCHANGED running
           \/ ~Active(s)' /\ running' = FALSE
    PROVE  Single'
  <1> SUFFICES ASSUME ~raced PROVE Single'
    BY DEF Single
  <1>1. /\ \A p, q \in Runs : Active(p) /\ Active(q) => p = q
        /\ running <=> \E p \in Runs : Task(p)
        /\ Active(s)
    BY DEF Single, Active
  <1>2. \A q \in Runs \ {s} : (Task(q)' <=> Task(q)) /\ (Active(q)' <=> Active(q))
    BY DEF Task, Active
  <1>3. \A q \in Runs \ {s} : ~Task(q)' /\ ~Active(q)'
    BY <1>1, <1>2 DEF Active
  <1>4. CASE Task(s)' /\ UNCHANGED running
    <2>1. running'
      BY <1>1, <1>4
    <2>2. \A p, q \in Runs : Active(p)' /\ Active(q)' => p = q
      BY <1>3
    <2> QED  BY <1>4, <2>1, <2>2 DEF Single
  <1>5. CASE ~Active(s)' /\ running' = FALSE
    <2>1. \A q \in Runs : ~Task(q)' /\ ~Active(q)'
      BY <1>3, <1>5 DEF Active
    <2> QED  BY <1>5, <2>1 DEF Single
  <1> QED  BY <1>4, <1>5

\* the records of the runs after one has moved on
LEMMA RunMoved ==
    ASSUME RunTypes, NEW s \in Runs, NEW l \in {"idle", "opening", "read", "batch", "write", "ended", "lost"},
           RunTo(s, l)
    PROVE  /\ run' \in [Runs -> RunRec] /\ \A q \in Runs \ {s} : run'[q] = run[q]
           /\ run'[s].at = l /\ run'[s].todo = run[s].todo /\ run'[s].verdicts = run[s].verdicts
  <1>1. run \in [Runs -> RunRec] /\ run[s] \in RunRec
    BY DEF RunTypes
  <1> DEFINE x == [run[s] EXCEPT !.at = l]
  <1>2. x \in RunRec /\ x.at = l /\ x.todo = run[s].todo /\ x.verdicts = run[s].verdicts
    BY <1>1 DEF RunRec
  <1>3. run' = [run EXCEPT ![s] = x]
    BY DEF RunTo
  <1> HIDE DEF x
  <1> QED  BY <1>1, <1>2, <1>3

LEMMA EndDoes ==
    ASSUME RunTypes, NEW s \in Runs, End(s)
    PROVE  /\ run' \in [Runs -> RunRec] /\ \A q \in Runs \ {s} : run'[q] = run[q]
           /\ run'[s].at = "ended" /\ run'[s].todo = {} /\ run'[s].verdicts = {} /\ running' = FALSE
  <1>1. run \in [Runs -> RunRec]
    BY DEF RunTypes
  <1> DEFINE x == [NoRun EXCEPT !.at = "ended"]
  <1>2. x \in RunRec /\ x.at = "ended" /\ x.todo = {} /\ x.verdicts = {}
    BY DEF RunRec, NoRun
  <1>3. run' = [run EXCEPT ![s] = x] /\ running' = FALSE
    BY DEF End
  <1> HIDE DEF x
  <1> QED  BY <1>1, <1>2, <1>3

\* what a run holds fits if it was held before
LEMMA FitsHeld ==
    ASSUME Fits, UNCHANGED <<recs, touched>>, NEW s \in Runs, \A q \in Runs \ {s} : run'[q] = run[q],
           \A p \in run'[s].todo \cup run'[s].verdicts :
             \/ p \in run[s].todo \cup run[s].verdicts
             \/ p[1] \in Ids /\ p[2] = recs[p[1]].text
    PROVE  Fits'
  BY DEF Fits, Ids

\* a run that ends, for whatever reason, without having written to a row
LEMMA EndKept ==
    ASSUME IInv, NEW s \in Runs, Task(s), End(s), UNCHANGED <<upVars, plan, next, touched, recs, pool, raced>>
    PROVE  IInv'
  <1>1. RunTypes /\ RecTypes /\ Fits /\ Single
    BY DEF IInv
  <1>2. /\ run' \in [Runs -> RunRec] /\ \A q \in Runs \ {s} : run'[q] = run[q]
        /\ run'[s].at = "ended" /\ run'[s].todo = {} /\ run'[s].verdicts = {} /\ running' = FALSE
    BY <1>1, EndDoes
  <1>3. RunTypes'
    BY <1>1, <1>2 DEF RunTypes
  <1>4. Single'
    <2>1. ~Active(s)'
      BY <1>2 DEF Active, Task
    <2> QED  BY <1>1, <1>2, <2>1, SingleStays
  <1>5. Fits'
    BY <1>1, <1>2, FitsHeld
  <1>6. RecTypes' /\ \A r \in Reqs : RowsKept(r)
    BY <1>1, RowsSame DEF RecTypes
  <1> QED  BY <1>3, <1>4, <1>5, <1>6, RowStep

LEMMA StartKept ==
    ASSUME IInv, NEW s \in Runs, Start(s)
    PROVE  IInv'
  <1>1. /\ RunTypes /\ RecTypes /\ Fits /\ Single /\ ~running
        /\ UNCHANGED <<upVars, plan, next, touched, recs, pool>>
        /\ raced' = (raced \/ \E q \in Runs : run[q].at = "opening")
    BY DEF IInv, Start, InRun, MayStart, NotRunning
  <1>2. \/ RunTo(s, "read") /\ running' = TRUE
        \/ RunTo(s, "opening") /\ UNCHANGED running
    BY DEF Start
  <1>3. /\ run' \in [Runs -> RunRec] /\ \A q \in Runs \ {s} : run'[q] = run[q]
        /\ run'[s].todo = run[s].todo /\ run'[s].verdicts = run[s].verdicts
        /\ \/ run'[s].at = "read" /\ running'
           \/ run'[s].at = "opening" /\ ~running'
        /\ running' \in BOOLEAN
    <2>1. PICK l \in {"read", "opening"} : RunTo(s, l) /\ (l = "read" => running' = TRUE)
                                                      /\ (l = "opening" => running' = running)
      BY <1>2
    <2>2. /\ run' \in [Runs -> RunRec] /\ \A q \in Runs \ {s} : run'[q] = run[q]
          /\ run'[s].at = l /\ run'[s].todo = run[s].todo /\ run'[s].verdicts = run[s].verdicts
      BY <1>1, <2>1, RunMoved
    <2>3. running = FALSE /\ running' \in BOOLEAN
      BY <1>1, <2>1 DEF RunTypes
    <2> QED  BY <2>1, <2>2, <2>3
  <1>4. RunTypes'
    <2>1. raced' \in BOOLEAN
      BY <1>1 DEF RunTypes
    <2> QED  BY <1>1, <1>3, <2>1 DEF RunTypes
  <1>5. Single'
    <2> SUFFICES ASSUME ~raced' PROVE Single'
      BY DEF Single
    <2>1. ~raced /\ \A q \in Runs : run[q].at # "opening"
      BY <1>1
    <2>2. \A q \in Runs : ~Task(q) /\ ~Active(q)
      BY <1>1, <2>1 DEF Single, Active
    <2>3. \A q \in Runs \ {s} : ~Task(q)' /\ ~Active(q)'
      BY <1>3, <2>2 DEF Task, Active
    <2>4. Task(s)' <=> running'
      BY <1>3 DEF Task
    <2> QED  BY <2>3, <2>4 DEF Single
  <1>6. Fits'
    BY <1>1, <1>3, FitsHeld
  <1>7. RecTypes' /\ \A r \in Reqs : RowsKept(r)
    BY <1>1, RowsSame DEF RecTypes
  <1> QED  BY <1>1, <1>4, <1>5, <1>6, <1>7, RowStep

LEMMA LaunchKept ==
    ASSUME IInv, NEW s \in Runs, Launch(s)
    PROVE  IInv'
  <1>1. /\ RunTypes /\ RecTypes /\ Fits /\ Single /\ run[s].at = "opening"
        /\ UNCHANGED <<upVars, plan, next, touched, recs, raced>>
    BY DEF IInv, Launch, InRun
  <1>2. \/ RunTo(s, "read") /\ running' = TRUE /\ pool' = TRUE
        \/ RunTo(s, "ended") /\ UNCHANGED <<running, pool>>
    BY DEF Launch
  <1>3. /\ run' \in [Runs -> RunRec] /\ \A q \in Runs \ {s} : run'[q] = run[q]
        /\ run'[s].todo = run[s].todo /\ run'[s].verdicts = run[s].verdicts
        /\ \/ run'[s].at = "read" /\ running' = TRUE
           \/ run'[s].at = "ended" /\ running' = running
    BY <1>1, <1>2, RunMoved
  <1>4. RunTypes'
    BY <1>1, <1>2, <1>3 DEF RunTypes
  <1>5. Single'
    <2> SUFFICES ASSUME ~raced PROVE Single'
      BY <1>1 DEF Single
    <2>1. Active(s) /\ ~Task(s)
      BY <1>1 DEF Active, Task
    <2>2. \A q \in Runs : ~Task(q) /\ (q # s => ~Active(q))
      BY <1>1, <2>1 DEF Single, Active
    <2>3. ~running
      BY <1>1, <2>2 DEF Single
    <2>4. \A q \in Runs \ {s} : ~Task(q)' /\ ~Active(q)'
      BY <1>3, <2>2 DEF Task, Active
    <2>5. Task(s)' <=> running'
      BY <1>3, <2>3 DEF Task
    <2> QED  BY <2>4, <2>5 DEF Single
  <1>6. Fits'
    BY <1>1, <1>3, FitsHeld
  <1>7. RecTypes' /\ \A r \in Reqs : RowsKept(r)
    BY <1>1, RowsSame DEF RecTypes
  <1> QED  BY <1>1, <1>4, <1>5, <1>6, <1>7, RowStep

LEMMA ReadPendingKept ==
    ASSUME IInv, NEW s \in Runs, ReadPending(s)
    PROVE  IInv'
  <1>1. /\ RunTypes /\ RecTypes /\ Fits /\ Single /\ run[s].at = "read" /\ Task(s)
        /\ UNCHANGED <<upVars, plan, next, touched, recs, pool, raced>>
    BY DEF IInv, ReadPending, InRun, Task
  <1>2. CASE End(s)
    BY <1>1, <1>2, EndKept
  <1>3. ASSUME NEW T \in {First(Pending, 1), Pending}, UNCHANGED running,
               run' = [run EXCEPT ![s].at = "batch", ![s].todo = T]
        PROVE  IInv'
    <2>1. T \subseteq Pending
      BY <1>3 DEF First
    <2>2. \A p \in Pending : /\ p \in (1..MaxRecs) \X Texts
                             /\ p[1] \in Ids /\ p[2] = recs[p[1]].text
      BY <1>1, RecordAt DEF Pending, Live
    <2>3. T \in SUBSET ((1..MaxRecs) \X Texts)
      BY <2>1, <2>2
    <2>4. run \in [Runs -> RunRec] /\ run[s] \in RunRec
      BY <1>1 DEF RunTypes
    <2> DEFINE x == [[run[s] EXCEPT !.at = "batch"] EXCEPT !.todo = T]
    <2>5. x \in RunRec /\ x.at = "batch" /\ x.todo = T /\ x.verdicts = run[s].verdicts
      BY <2>3, <2>4 DEF RunRec
    <2>6. run' = [run EXCEPT ![s] = x]
      BY <1>3, <2>4
    <2> HIDE DEF x
    <2>7. /\ run' \in [Runs -> RunRec] /\ \A q \in Runs \ {s} : run'[q] = run[q]
          /\ run'[s].at = "batch" /\ run'[s].todo = T /\ run'[s].verdicts = run[s].verdicts
      BY <2>4, <2>5, <2>6
    <2>8. RunTypes'
      BY <1>1, <1>3, <2>7 DEF RunTypes
    <2>9. Single'
      <3>1. Task(s)'
        BY <2>7 DEF Task
      <3> QED  BY <1>1, <1>3, <2>7, <3>1, SingleStays
    <2>10. Fits'
      BY <1>1, <2>1, <2>2, <2>7, FitsHeld
    <2>11. RecTypes' /\ \A r \in Reqs : RowsKept(r)
      BY <1>1, RowsSame DEF RecTypes
    <2> QED  BY <1>1, <2>8, <2>9, <2>10, <2>11, RowStep
  <1> QED  BY <1>2, <1>3 DEF ReadPending, Fails

LEMMA JudgeKept ==
    ASSUME IInv, NEW s \in Runs, Judge(s)
    PROVE  IInv'
  <1>1. /\ RunTypes /\ RecTypes /\ Fits /\ Single /\ run[s].at = "batch" /\ Task(s)
        /\ UNCHANGED <<upVars, plan, next, touched, recs, running, pool, raced>>
    BY DEF IInv, Judge, InRun, Task
  <1>2. PICK V \in Verdicts(First(run[s].todo, BatchSize)) :
          run' = [run EXCEPT ![s] = [at |-> "write", verdicts |-> V,
                                     todo |-> run[s].todo \ First(run[s].todo, BatchSize)]]
    BY DEF Judge
  <1> DEFINE left == run[s].todo \ First(run[s].todo, BatchSize)
             x == [at |-> "write", verdicts |-> V, todo |-> left]
  <1>3. run \in [Runs -> RunRec] /\ run[s] \in RunRec
    BY <1>1 DEF RunTypes
  <1>4. V \subseteq run[s].todo /\ left \subseteq run[s].todo
    BY DEF Verdicts, First
  <1>5. run' = [run EXCEPT ![s] = x]
    BY <1>2
  <1> HIDE DEF left
  <1>6. x \in RunRec /\ x.at = "write" /\ x.todo = left /\ x.verdicts = V
    BY <1>3, <1>4 DEF RunRec
  <1> HIDE DEF x
  <1>7. /\ run' \in [Runs -> RunRec] /\ \A q \in Runs \ {s} : run'[q] = run[q]
        /\ run'[s].at = "write" /\ run'[s].todo = left /\ run'[s].verdicts = V
    BY <1>3, <1>5, <1>6
  <1>8. RunTypes'
    BY <1>1, <1>7 DEF RunTypes
  <1>9. Single'
    <2>1. Task(s)'
      BY <1>7 DEF Task
    <2> QED  BY <1>1, <1>7, <2>1, SingleStays
  <1>10. Fits'
    BY <1>1, <1>4, <1>7, FitsHeld
  <1>11. RecTypes' /\ \A r \in Reqs : RowsKept(r)
    BY <1>1, RowsSame DEF RecTypes
  <1> QED  BY <1>1, <1>8, <1>9, <1>10, <1>11, RowStep

LEMMA WriteVerdictKept ==
    ASSUME IInv, NEW s \in Runs, WriteVerdict(s)
    PROVE  IInv'
  <1>1. /\ RunTypes /\ RecTypes /\ Fits /\ Single /\ run[s].at = "write" /\ Task(s)
        /\ UNCHANGED <<upVars, plan, next, touched, pool, raced>>
    BY DEF IInv, WriteVerdict, InRun, Task
  <1>2. CASE Fails(s) /\ UNCHANGED recs
    BY <1>1, <1>2, EndKept DEF Fails
  <1>3. CASE RunTo(s, "batch") /\ UNCHANGED <<recs, running>>
    <2>1. /\ run' \in [Runs -> RunRec] /\ \A q \in Runs \ {s} : run'[q] = run[q]
          /\ run'[s].at = "batch" /\ run'[s].todo = run[s].todo /\ run'[s].verdicts = run[s].verdicts
      BY <1>1, <1>3, RunMoved
    <2>2. RunTypes'
      BY <1>1, <1>3, <2>1 DEF RunTypes
    <2>3. Single'
      <3>1. Task(s)'
        BY <2>1 DEF Task
      <3> QED  BY <1>1, <1>3, <2>1, <3>1, SingleStays
    <2>4. Fits'
      BY <1>1, <1>3, <2>1, FitsHeld
    <2>5. RecTypes' /\ \A r \in Reqs : RowsKept(r)
      BY <1>1, <1>3, RowsSame DEF RecTypes
    <2> QED  BY <1>1, <2>2, <2>3, <2>4, <2>5, RowStep
  <1>4. ASSUME NEW p \in run[s].verdicts, run' = [run EXCEPT ![s].verdicts = @ \ {p}], UNCHANGED running,
               recs' = IF recs[p[1]].live THEN [recs EXCEPT ![p[1]].label = p[2]] ELSE recs
        PROVE  IInv'
    <2>1. run \in [Runs -> RunRec] /\ run[s] \in RunRec /\ p \in (1..MaxRecs) \X Texts
      BY <1>1 DEF RunTypes, RunRec
    <2>2. PICK left : left = run[s].verdicts \ {p}
      OBVIOUS
    <2> DEFINE x == [run[s] EXCEPT !.verdicts = left]
    <2>3. x \in RunRec /\ x.at = "write" /\ x.todo = run[s].todo /\ x.verdicts = left
      <3>1. left \subseteq (1..MaxRecs) \X Texts
        BY <2>1, <2>2 DEF RunRec
      <3> QED  BY <1>1, <2>1, <3>1 DEF RunRec
    <2>4. run' = [run EXCEPT ![s] = x]
      BY <1>4, <2>2
    <2> HIDE DEF x
    <2>5. /\ run' \in [Runs -> RunRec] /\ \A q \in Runs \ {s} : run'[q] = run[q]
          /\ run'[s].at = "write" /\ run'[s].todo = run[s].todo /\ run'[s].verdicts \subseteq run[s].verdicts
      BY <2>1, <2>2, <2>3, <2>4
    <2>6. RunTypes'
      BY <1>1, <1>4, <2>5 DEF RunTypes
    <2>7. Single'
      <3>1. Task(s)'
        BY <2>5 DEF Task
      <3> QED  BY <1>1, <1>4, <2>5, <3>1, SingleStays
    <2>8. p[1] \in Ids /\ p[2] \in Texts /\ (recs[p[1]].live => p[2] = recs[p[1]].text \/ p[1] \in touched)
      BY <1>1, <2>1 DEF Fits
    <2>9. CASE ~recs[p[1]].live
      <3>1. recs' = recs
        BY <1>4, <2>9
      <3>2. Fits'
        BY <1>1, <2>5, <3>1, FitsHeld
      <3>3. RecTypes' /\ \A r \in Reqs : RowsKept(r)
        BY <1>1, <3>1, RowsSame DEF RecTypes
      <3> QED  BY <1>1, <2>6, <2>7, <3>2, <3>3, RowStep
    <2>10. CASE recs[p[1]].live
      <3> DEFINE i == p[1]
                 e == [recs[i] EXCEPT !.label = p[2]]
      <3>1. /\ recs[i] \in Record
        BY <1>1, <2>8, RecordAt
      <3>2. /\ e \in Record /\ e.live = recs[i].live /\ e.text = recs[i].text /\ e.vec = recs[i].vec
            /\ e.label = p[2] /\ e.batch = recs[i].batch /\ e.pos = recs[i].pos
        <4>1. p[2] \in Texts \cup {0}
          BY <2>8
        <4> QED  BY <3>1, <4>1 DEF Record
      <3>3. recs' = [recs EXCEPT ![i] = e]
        BY <1>4, <2>10
      <3> HIDE DEF e
      <3>4. /\ recs' \in Seq(Record) /\ Len(recs') = Len(recs) /\ Ids' = Ids
            /\ recs'[i] = e /\ \A j \in Ids \ {i} : recs'[j] = recs[j]
        BY <1>1, <2>8, <3>2, <3>3, RecordSet
      <3>5. RecTypes'
        BY <1>1, <3>4 DEF RecTypes
      <3>6. \A j \in Ids : /\ recs'[j].batch = recs[j].batch /\ recs'[j].pos = recs[j].pos
                           /\ recs'[j].live = recs[j].live /\ recs'[j].vec = recs[j].vec
                           /\ recs'[j].text = recs[j].text
        BY <3>2, <3>4
      <3>7. \A r \in Reqs : RowsKept(r)
        BY <1>1, <3>4, <3>6, RowsLike
      <3>8. Fits'
        <4>1. ASSUME NEW j \in Ids PROVE recs'[j].vec \in {0, recs'[j].text}
          BY <1>1, <3>6 DEF Fits
        <4>2. ASSUME NEW j \in Ids PROVE recs'[j].label \in {0, recs'[j].text} \/ j \in touched
          BY <1>1, <2>8, <2>10, <3>2, <3>4 DEF Fits
        <4>3. ASSUME NEW q \in Runs, NEW o \in run'[q].todo \cup run'[q].verdicts
              PROVE  o[1] \in Ids /\ (recs'[o[1]].live => o[2] = recs'[o[1]].text \/ o[1] \in touched)
          <5>1. o \in run[q].todo \cup run[q].verdicts
            BY <2>5
          <5>2. o[1] \in Ids /\ (recs[o[1]].live => o[2] = recs[o[1]].text \/ o[1] \in touched)
            BY <1>1, <5>1 DEF Fits
          <5> QED  BY <3>6, <5>2
        <4>4. touched' = touched
          BY <1>1
        <4> QED  BY <3>4, <4>1, <4>2, <4>3, <4>4 DEF Fits
      <3> QED  BY <1>1, <2>6, <2>7, <3>5, <3>7, <3>8, RowStep
    <2> QED  BY <2>9, <2>10
  <1> QED  BY <1>2, <1>3, <1>4 DEF WriteVerdict

LEMMA FinishKept ==
    ASSUME IInv, NEW s \in Runs, Finish(s)
    PROVE  IInv'
  <1>1. Task(s) /\ End(s) /\ UNCHANGED <<upVars, plan, next, touched, recs, pool, raced>>
    BY DEF Finish, InRun, Task
  <1> QED  BY <1>1, EndKept

LEMMA RestartedKept ==
    ASSUME IInv, Restart
    PROVE  IInv'
  <1>1. /\ UpInv /\ UploadRestart /\ UNCHANGED <<recs, plan, next, touched>>
        /\ running' = FALSE /\ pool' = FALSE /\ raced' = FALSE
        /\ RunTypes /\ RecTypes /\ PlanTypes /\ Stored /\ Fits
    BY DEF IInv, Restart, recVars
  <1>2. UpInv' /\ \A r \in Reqs : req'[r].at = req[r].at \/ req'[r].at = "lost"
    BY <1>1, RestartKept
  <1>3. run \in [Runs -> RunRec]
    BY <1>1 DEF RunTypes
  <1> DEFINE x == [NoRun EXCEPT !.at = "lost"]
  <1>4. run' = [s \in Runs |-> IF run[s].at \in {"idle", "ended"} THEN run[s] ELSE x]
    BY DEF Restart
  <1>5. x \in RunRec /\ x.at = "lost" /\ x.todo = {} /\ x.verdicts = {}
    BY DEF NoRun, RunRec
  <1> HIDE DEF x
  <1>6. /\ run' \in [Runs -> RunRec]
        /\ \A s \in Runs : /\ run'[s].at \in {"idle", "ended", "lost"}
                           /\ run'[s].todo \subseteq run[s].todo /\ run'[s].verdicts \subseteq run[s].verdicts
    BY <1>3, <1>4, <1>5
  <1>7. RunTypes'
    BY <1>1, <1>6 DEF RunTypes
  <1>8. Single'
    <2>1. \A s \in Runs : ~Task(s)' /\ ~Active(s)'
      BY <1>6 DEF Task, Active
    <2> QED  BY <1>1, <2>1 DEF Single
  <1>9. Fits'
    BY <1>1, <1>6 DEF Fits, Ids
  <1>10. \A r \in Reqs : StoredBy(r)'
    BY <1>1, <1>2, RowsSame, StoredKept DEF Stored
  <1> QED  BY <1>1, <1>2, <1>7, <1>8, <1>9, <1>10 DEF IInv, RecTypes, PlanTypes, Stored
-----------------------------------------------------------------------------
(***************************************************************************)
(* The invariant, and what follows from it                                 *)
(***************************************************************************)
LEMMA InitInv == Init => IInv
  <1> SUFFICES ASSUME Init PROVE IInv
    OBVIOUS
  <1>0. /\ MaxRecs \in Nat /\ MaxItems \in Nat /\ MaxRestart \in Nat /\ IsFiniteSet(Reqs)
        /\ UsedKinds \subseteq Kinds
    BY VocAssumption, UploadAssumption
  <1>1. /\ UploadInit /\ recs = <<>> /\ touched = {} /\ running = FALSE /\ pool = FALSE /\ raced = FALSE
        /\ plan = [r \in Reqs |-> <<>>] /\ next = [r \in Reqs |-> 1] /\ run = [s \in Runs |-> NoRun]
    BY DEF Init
  <1>2. /\ sess \in [Uploads -> {[row |-> FALSE, file |-> FALSE, expired |-> FALSE, kind |-> k] : k \in UsedKinds}]
        /\ prev = [u \in Uploads |-> "none"] /\ req = [r \in Reqs |-> NoReq]
        /\ committed = [u \in Uploads |-> 0] /\ restarts = 0 /\ calm = TRUE
    BY <1>1 DEF UploadInit
  <1>3. NoReq \in Request /\ NoReq.at = "idle" /\ NoReq.u = None
    BY DEF NoReq, Request
  <1>4. UploadTypeOK
    <2>1. sess \in [Uploads -> Session]
      <3>1. \A k \in UsedKinds : [row |-> FALSE, file |-> FALSE, expired |-> FALSE, kind |-> k] \in Session
        BY <1>0 DEF Session
      <3> QED  BY <1>2, <3>1
    <2>2. prev \in [Uploads -> Previews] /\ req \in [Reqs -> Request]
      BY <1>2, <1>3, Stages
    <2>3. committed \in [Uploads -> 0..Cardinality(Reqs)]
      <3>1. 0 \in 0..Cardinality(Reqs)
        BY <1>0, FS_CardinalityType
      <3> QED  BY <1>2, <3>1
    <2> QED  BY <1>0, <1>2, <2>1, <2>2, <2>3 DEF UploadTypeOK
  <1>5. Counted
    <2>1. \A u \in Uploads : Cardinality(Spent(u)) \in Nat /\ committed[u] = 0
      BY <1>2, SpentFinite
    <2> QED  BY <2>1 DEF Counted
  <1>6. Sessions /\ Once
    <2>1. \A r \in Reqs : req[r].at = "idle" /\ req[r].u = None
      BY <1>2, <1>3
    <2>2. \A u \in Uploads : committed[u] = 0 /\ prev[u] = "none"
      BY <1>2
    <2> QED  BY <2>1, <2>2 DEF Sessions, Once
  <1>7. RecTypes /\ Ids = {}
    <2>1. recs \in Seq(Record) /\ Len(recs) = 0
      BY <1>1
    <2> QED  BY <1>0, <1>1, <2>1 DEF RecTypes, Ids
  <1>8. PlanTypes
    <2>1. <<>> \in Seq(Item) /\ Len(<<>>) = 0
      OBVIOUS
    <2> QED  BY <1>0, <1>1, <2>1 DEF PlanTypes
  <1>9. NoRun \in RunRec /\ NoRun.at = "idle" /\ NoRun.todo = {} /\ NoRun.verdicts = {}
    BY DEF NoRun, RunRec
  <1>10. RunTypes
    BY <1>1, <1>9 DEF RunTypes
  <1>11. Stored
    <2>1. \A r \in Reqs : req[r].at = "idle" /\ plan[r] = <<>> /\ next[r] = 1
      BY <1>1, <1>2, <1>3
    <2>2. \A r, k : RowsOf(r, k) = {}
      BY <1>7 DEF RowsOf
    <2> QED  BY <2>1, <2>2 DEF Stored, StoredBy
  <1>12. Fits /\ Single
    BY <1>1, <1>7, <1>9 DEF Fits, Single, Active, Task
  <1> QED  BY <1>4, <1>5, <1>6, <1>7, <1>8, <1>10, <1>11, <1>12 DEF IInv, UpInv

LEMMA StutterKept == ASSUME IInv, UNCHANGED vars PROVE IInv'
  <1>1. UNCHANGED <<upVars, recVars, runVars, touched, req>>
    BY DEF vars, upVars
  <1>2. UpInv'
    BY <1>1, UpStays DEF IInv
  <1> QED  BY <1>1, <1>2, UploadStep

LEMMA StepInv == IInv /\ [Next]_vars => IInv'
  <1> SUFFICES ASSUME IInv, [Next]_vars PROVE IInv'
    OBVIOUS
  <1>1. CASE UNCHANGED vars
    BY <1>1, StutterKept
  <1>2. ASSUME NEW u \in Uploads, OfUpload(PreviewStep(u)) PROVE IInv'
    BY <1>2, OfUploadKept
  <1>3. ASSUME NEW r \in Reqs, OfUpload(Find(r)) \/ ImportFile(r) \/ ReqStep(r) \/ DeleteBatch(r) PROVE IInv'
    <2>1. CASE OfUpload(Find(r)) \/ OfUpload(CommitStep(r))
      BY <2>1, OfUploadKept
    <2>2. CASE ImportFile(r)
      BY <2>2, ImportFileKept
    <2>3. CASE Embed(r)
      BY <2>3, EmbedKept
    <2>4. CASE InsertRow(r)
      BY <2>4, InsertRowKept
    <2>5. CASE DeleteBatch(r)
      <3> DEFINE S == {i \in Ids : recs[i].batch = r}
      <3>1. S \in SUBSET Ids /\ Change(Removed(S))
        BY <2>5 DEF DeleteBatch, Change
      <3> HIDE DEF S
      <3> QED  BY <3>1, RemovedKept
    <2> QED  BY <1>3, <2>1, <2>2, <2>3, <2>4, <2>5 DEF ReqStep
  <1>4. CASE Create
    BY <1>4, CreateKept
  <1>5. ASSUME NEW i \in Ids, Update(i) PROVE IInv'
    BY <1>5, UpdateKept
  <1>6. ASSUME NEW S \in SUBSET Live, Delete(S) PROVE IInv'
    <2>1. S \in SUBSET Ids /\ Change(Removed(S))
      BY <1>6 DEF Delete, Change, Live
    <2> QED  BY <2>1, RemovedKept
  <1>7. ASSUME NEW s \in Runs, Start(s) \/ TaskStep(s) PROVE IInv'
    BY <1>7, StartKept, LaunchKept, ReadPendingKept, JudgeKept, WriteVerdictKept, FinishKept DEF TaskStep
  <1>8. CASE Restart
    BY <1>8, RestartedKept
  <1> QED  BY <1>1, <1>2, <1>3, <1>4, <1>5, <1>6, <1>7, <1>8 DEF Next

\* Every reachable state has the invariant, for every set of uploads and of requests and every bound.
THEOREM Invariance == Spec => []IInv
  <1> QED  BY InitInv, StepInv, PTL DEF Spec

\* The state is always of the types its columns and variables have.
THEOREM TypeCorrect == Spec => []TypeOK
  <1>1. IInv => TypeOK
    BY DEF IInv, UpInv, RecTypes, PlanTypes, RunTypes, TypeOK
  <1> QED  BY <1>1, Invariance, PTL

\* A VOC commit that failed, at whatever row, leaves the session and the file to the next try
\* (routers/voc.py clears the session only after the last row is stored).
THEOREM SessionSurvives == Spec => []VocSessionSurvives
  <1>1. IInv => VocSessionSurvives
    BY DEF IInv, UpInv, Sessions, VocSessionSurvives, OnlyFailed
  <1> QED  BY <1>1, Invariance, PTL

\* What was uploaded is registered once, whatever kind it is, by whichever of the commits sent for
\* it, as long as they do not overlap (delete_upload_session on success).
THEOREM RegisteredOnce == Spec => []CalmCommittedOnce
  <1>1. ASSUME IInv PROVE CalmCommittedOnce
    <2>1. \A u \in Uploads : committed[u] \in Nat
      <3>1. committed \in [Uploads -> 0..Cardinality(Reqs)]
        BY <1>1 DEF IInv, UpInv, UploadTypeOK
      <3>2. Cardinality(Reqs) \in Nat
        BY UploadAssumption, FS_CardinalityType
      <3> QED  BY <3>1, <3>2
    <2> QED  BY <1>1, <2>1 DEF IInv, UpInv, Once, CalmCommittedOnce
  <1> QED  BY <1>1, Invariance, PTL

\* An import that is answered stored every row of its file once, however many imports, edits,
\* deletions and classifications ran between two of its rows (_insert_many).
THEOREM ImportsWhole == Spec => []AnsweredWhole
  <1>1. ASSUME IInv PROVE AnsweredWhole
    <2> SUFFICES ASSUME NEW r \in Reqs, req[r].at = "drop" \/ (req[r].at = "done" /\ plan[r] # <<>>),
                        NEW k \in 1..Len(plan[r])
                 PROVE  /\ Cardinality(RowsOf(r, k)) = IF plan[r][k] = "blank" THEN 0 ELSE 1
                        /\ \A i \in RowsOf(r, k) \cap Live : recs[i].vec = 0 => plan[r][k] = "gap"
      BY DEF AnsweredWhole, RowsOf
    <2>1. Whole(r, k)
      BY <1>1 DEF IInv, Stored, StoredBy
    <2>2. \A i \in RowsOf(r, k) \cap Live : recs[i].vec = 0 => plan[r][k] = "gap"
      BY <2>1 DEF Whole, Live
    <2>3. CASE plan[r][k] = "blank"
      <3>1. RowsOf(r, k) = {}
        BY <2>1, <2>3 DEF Whole
      <3>2. Cardinality(RowsOf(r, k)) = 0
        BY <3>1, FS_EmptySet
      <3> QED  BY <2>2, <2>3, <3>2
    <2>4. CASE plan[r][k] # "blank"
      <3>1. PICK i \in Ids : RowsOf(r, k) = {i}
        BY <2>1, <2>4 DEF Whole
      <3>2. Cardinality(RowsOf(r, k)) = 1
        BY <3>1, FS_Singleton
      <3> QED  BY <2>2, <2>4, <3>2
    <2> QED  BY <2>3, <2>4
  <1> QED  BY <1>1, Invariance, PTL

\* Vector and verdict are those of the row's present text, unless the row was edited while a
\* classification held its old text (update_voc, classify_pending).
THEOREM LabelsFit == Spec => []CalmLabelFitsText
  <1>1. IInv => CalmLabelFitsText
    BY DEF IInv, Fits, CalmLabelFitsText
  <1> QED  BY <1>1, Invariance, PTL

\* One classification at a time, with the flag up exactly as long as it lasts, for any number of
\* requests that start one, unless two waited for the connection pool together (classify_voc).
THEOREM OneRunAtATime == Spec => []CalmOneRun
  <1>1. IInv => CalmOneRun
    BY DEF IInv, Single, Active, CalmOneRun
  <1> QED  BY <1>1, Invariance, PTL
=============================================================================
