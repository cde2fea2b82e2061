---------------------------- MODULE StreamAnswer ----------------------------
(***************************************************************************)
(* One request to the agent (chat_completions of                           *)
(* src/agent_server/main.py): preparation, the stream of events of the     *)
(* ADK runner turned into text for the user, the retry without streaming   *)
(* after a broken tool call, the review of values that no tool returned,   *)
(* and the release of what the request holds.                              *)
(*                                                                         *)
(* The LLM, its tools and the client are the environment.  A text is a     *)
(* sequence of lines; the progress lines, the charts and the raw outputs   *)
(* around the answer are left out.                                         *)
(***************************************************************************)
EXTENDS Naturals, Sequences, SequencesExt

CONSTANTS
    Words,      \* lines without anything to verify
    Values,     \* lines with an address or a path
    Guides,     \* lines that point to a manual (_GUIDE_MARKERS)
    MaxLines,   \* bound on the lines the LLM writes
    Fallback,   \* the answer of _AnswerGuard.fallback
    Notice,     \* "what could not be verified has been left out"
    ErrorNote,  \* the text of _friendly_error
    None        \* nothing stored

ASSUME StreamAssumption ==
    /\ MaxLines \in Nat
    /\ {Fallback, Notice, ErrorNote, None} \cap (Words \cup Values \cup Guides) = {}
    /\ Words \cap Values = {} /\ Words \cap Guides = {} /\ Values \cap Guides = {}
    /\ None \notin Seq(Words \cup Values \cup Guides)

VARIABLES
    at,         \* where the handler is
    mode,       \* how the answer is produced
    hold,       \* answer_grounding_check
    live,       \* ADK sessions of the request in the session database
    tools,      \* whether its MCP toolsets are open
    llm,        \* lines of the message being streamed, lines said, attempts
    dedup,      \* _StreamDedup; in mode "plain", full is final_text
    buf,        \* what ChartInliner holds back
    out,        \* the answer as the user sees it
    known,      \* values in the corpus of the _AnswerGuard
    searched,   \* searched_manual
    saved,      \* the answer handed to _bg_persist
    unsure      \* history variable: the runner's texts could not be told apart

handler == <<at, mode, hold>>
held    == <<live, tools>>
shown   == <<buf, out>>
corpus  == <<known, searched>>
vars    == <<handler, held, llm, dedup, shown, corpus, saved, unsure>>
-----------------------------------------------------------------------------
Lines == Words \cup Values \cup Guides

\* "plain": no stream wanted; "whole": a stream of complete messages (llm_streaming is
\* off); "deltas" and "sums": the ADK streams the new text, or all text of the message
Modes  == {"plain", "whole", "deltas", "sums"}
Labels == {"start", "prep", "ready", "run", "again", "tail", "close", "tools", "over", "gone"}

TypeOK ==
    /\ at \in Labels /\ mode \in Modes /\ hold \in BOOLEAN
    /\ live \subseteq {"main", "retry"} /\ tools \in BOOLEAN
    /\ llm \in [msg : Seq(Lines), said : Seq(Lines), tries : 1..2]
    /\ dedup \in [cur : Seq(Lines), saw : BOOLEAN, full : Seq(Lines)]
    /\ buf \in Seq(Lines) /\ out \in Seq(Lines \cup {Fallback, Notice, ErrorNote})
    /\ known \subseteq Values /\ searched \in BOOLEAN
    /\ saved \in Seq(Lines) \cup {None} /\ unsure \in BOOLEAN

Init ==
    /\ at = "start" /\ mode \in Modes /\ hold \in BOOLEAN
    /\ live = {} /\ tools = FALSE
    /\ llm = [msg |-> <<>>, said |-> <<>>, tries |-> 1]
    /\ dedup = [cur |-> <<>>, saw |-> FALSE, full |-> <<>>]
    /\ buf = <<>> /\ out = <<>>
    /\ known = {} /\ searched = FALSE
    /\ saved = None /\ unsure = FALSE
-----------------------------------------------------------------------------
Goto(l) == at' = l /\ UNCHANGED <<mode, hold>>
Running == at \in {"run", "again"}
Streams == mode # "plain"

(***************************************************************************)
(* Preparation: the session comes first, then memory and search, then the  *)
(* agent with its toolsets, then the guard with what the search found.     *)
(***************************************************************************)
CreateSession ==
    /\ at = "start" /\ Goto("prep")
    /\ live' = {"main"}
    /\ UNCHANGED <<tools, llm, dedup, shown, corpus, saved, unsure>>

BuildAgent ==
    /\ at = "prep" /\ Goto("ready")
    /\ tools' = TRUE
    /\ UNCHANGED <<live, llm, dedup, shown, corpus, saved, unsure>>

SeedGuard ==
    /\ at = "ready" /\ Goto("run")
    /\ known' \in SUBSET Values /\ searched' \in BOOLEAN
    /\ UNCHANGED <<held, llm, dedup, shown, saved, unsure>>

\* a failed query or connection: the exception leaves the handler
PrepFails ==
    /\ at \in {"prep", "ready"} /\ Goto("over")
    /\ UNCHANGED <<held, llm, dedup, shown, corpus, saved, unsure>>

(***************************************************************************)
(* _StreamDedup.feed                                                       *)
(***************************************************************************)
Rest(text, sent) == SubSeq(text, Len(sent) + 1, Len(text))

Delta(d, text, partial) ==
    CASE IsPrefix(d.cur, text) /\ (partial \/ d.saw) -> Rest(text, d.cur)
      [] ~IsPrefix(d.cur, text) /\ partial           -> text
      [] ~partial /\ ~d.saw                          -> text
      [] OTHER                                       -> <<>>

KeepSent(d, text, partial) ==            \* mutant: no message boundary at the final event
    [cur |-> d.cur \o Delta(d, text, partial), saw |-> d.saw \/ partial,
     full |-> d.full \o Delta(d, text, partial)]
Feed(d, text, partial) ==
    [cur  |-> IF partial THEN d.cur \o Delta(d, text, partial) ELSE <<>>,
     saw  |-> partial,
     full |-> d.full \o Delta(d, text, partial)]

Streamed(h) == FALSE                     \* mutant: the text is not held for the review
Held(h) == h

\* ChartInliner.feed lets go all but a tail that may be the start of a chart marker
Show(text) ==
    IF Held(hold) \/ text = <<>> THEN UNCHANGED shown
    ELSE \E n \in 0..Len(buf \o text) :
            /\ out' = out \o SubSeq(buf \o text, 1, n)
            /\ buf' = SubSeq(buf \o text, n + 1, Len(buf \o text))

\* the loop body of event_stream
Receive(text, partial) ==
    /\ dedup' = Feed(dedup, text, partial)
    /\ Show(Delta(dedup, text, partial))

(***************************************************************************)
(* The events of the runner                                                *)
(***************************************************************************)
Room == Len(llm.said) < MaxLines

Partial(line) ==
    /\ at = "run" /\ mode \in {"deltas", "sums"} /\ Room
    /\ llm' = [llm EXCEPT !.msg = Append(@, line), !.said = Append(@, line)]
    /\ Receive(IF mode = "deltas" THEN <<line>> ELSE llm'.msg, TRUE)
    /\ unsure' = (unsure \/ (mode = "deltas" /\ llm.msg # <<>> /\ IsPrefix(dedup.cur, <<line>>)))
    /\ UNCHANGED <<handler, held, corpus, saved>>

\* the complete message once more, perhaps with more than was streamed
Final(rest) ==
    /\ Running /\ Streams
    /\ rest # <<>> => Room
    /\ llm.msg \o rest # <<>>
    /\ llm' = [llm EXCEPT !.msg = <<>>, !.said = @ \o rest]
    /\ Receive(llm.msg \o rest, FALSE)
    /\ UNCHANGED <<handler, held, corpus, saved, unsure>>

\* without a stream only a message that calls no tool counts, and the last one stays
PlainFinal(line, last) ==
    /\ at = "run" /\ ~Streams /\ Room
    /\ llm' = [llm EXCEPT !.said = Append(@, line)]
    /\ dedup' = IF last THEN [dedup EXCEPT !.full = <<line>>] ELSE dedup
    /\ UNCHANGED <<handler, held, shown, corpus, saved, unsure>>

\* _AnswerGuard.observe
ToolAnswer(v) ==
    /\ Running
    /\ known' = known \cup {v}
    /\ UNCHANGED <<handler, held, llm, dedup, shown, searched, saved, unsure>>

ManualSearched ==
    /\ Running
    /\ searched' = TRUE
    /\ UNCHANGED <<handler, held, llm, dedup, shown, known, saved, unsure>>

\* the finally of the retry ends its session
StreamEnds ==
    /\ Running /\ llm.msg = <<>>
    /\ Goto(IF Streams THEN "tail" ELSE "close")
    /\ live' = live \ {"retry"}
    /\ UNCHANGED <<tools, llm, dedup, shown, corpus, saved, unsure>>

\* _run_with_toolcall_recovery: a new session, and everything once more without a stream
ToolCallBroken ==
    /\ at = "run" /\ mode \in {"deltas", "sums"}
    /\ Goto("again")
    /\ live' = live \cup {"retry"}
    /\ llm' = [llm EXCEPT !.msg = <<>>, !.tries = 2]
    /\ unsure' = (unsure \/ dedup.saw)
    /\ UNCHANGED <<tools, dedup, shown, corpus, saved>>

\* any other exception, or one of the retry
StreamFails ==
    /\ Streams /\ at \in {"run", "again", "tail"}
    /\ Goto("close")
    /\ out' = Append(out, ErrorNote)
    /\ live' = live \ {"retry"}
    /\ UNCHANGED <<tools, llm, dedup, buf, corpus, saved, unsure>>

PlainFails ==
    /\ ~Streams /\ at = "run" /\ Goto("over")
    /\ live' = {} /\ tools' = FALSE
    /\ UNCHANGED <<llm, dedup, shown, corpus, saved, unsure>>

\* is_disconnected: the loop is left at the next event; the generator of the retry is
\* closed when it is collected
Disconnect ==
    /\ Running /\ Streams /\ Goto("tail")
    /\ UNCHANGED <<held, llm, dedup, shown, corpus, saved, unsure>>

\* the client is gone while something is sent or awaited
Cancelled ==
    /\ Streams /\ at \in {"run", "again", "tail"} /\ Goto("close")
    /\ UNCHANGED <<held, llm, dedup, shown, corpus, saved, unsure>>

Collect ==
    /\ ~Running /\ at # "gone" /\ "retry" \in live
    /\ live' = live \ {"retry"}
    /\ UNCHANGED <<handler, tools, llm, dedup, shown, corpus, saved, unsure>>

(***************************************************************************)
(* _AnswerGuard.review and the end of the stream                           *)
(***************************************************************************)
Bad(text) == (ToSet(text) \cap Values) \ known

\* the lines of a text that are not to go
Without(text, gone) ==
    LET kept[n \in 0..Len(text)] ==
          IF n = 0 THEN <<>>
          ELSE IF text[n] \in gone THEN kept[n - 1] ELSE Append(kept[n - 1], text[n])
    IN  kept[Len(text)]

UnsearchedGuide(text) == ~searched /\ ToSet(text) \cap Guides # {}

\* the possible outcomes: whether what is left has substance is a matter of its length
Review(text) ==
    LET kept == Without(text, Bad(text)) IN
    IF ~hold \/ text = <<>> THEN {text}
    ELSE IF UnsearchedGuide(text) THEN {<<Fallback>>}
    ELSE IF Bad(text) = {} THEN {text}
    ELSE {<<Fallback>>} \cup (IF kept = <<>> THEN {} ELSE {Append(kept, Notice)})

NoFlush(b) == <<>>                       \* mutant: the tail held back is not flushed
Flush(b) == b

SendTail ==
    /\ at = "tail" /\ Goto("close")
    /\ IF hold THEN \E text \in Review(dedup.full) : out' = text
               ELSE out' = out \o Flush(buf)
    /\ buf' = <<>>
    /\ UNCHANGED <<held, llm, dedup, corpus, saved, unsure>>

DeletesLatest(l) ==                      \* mutant: the retry replaced session_id
    l \ IF "retry" \in l THEN {"retry"} ELSE {"main"}
DeletesOwn(l) == l \ {"main"}

DeleteSession ==
    /\ at = "close" /\ Goto("tools")
    /\ live' = DeletesOwn(live)
    /\ UNCHANGED <<tools, llm, dedup, shown, corpus, saved, unsure>>

LastMessage(d) == d.cur                  \* mutant: only the message being streamed
AsShown(d) == out                        \* mutant: the text as shown, errors and notices too
Answer(d) == d.full

CloseToolsets ==
    /\ at = "tools" /\ Goto("over")
    /\ tools' = FALSE
    /\ saved' = IF Answer(dedup) = <<>> THEN None ELSE Answer(dedup)
    /\ IF Streams THEN UNCHANGED out ELSE \E text \in Review(dedup.full) : out' = text
    /\ UNCHANGED <<live, llm, dedup, buf, corpus, unsure>>

\* the process dies, or the request is cancelled and its cleanup with it
Killed ==
    /\ at \notin {"start", "over", "gone"} /\ Goto("gone")
    /\ UNCHANGED <<held, llm, dedup, shown, corpus, saved, unsure>>
-----------------------------------------------------------------------------
Handle ==
    \/ CreateSession \/ BuildAgent \/ SeedGuard
    \/ \E line \in Lines : Partial(line)
    \/ \E rest \in BoundedSeq(Lines, 1) : Final(rest)
    \/ \E line \in Lines, last \in BOOLEAN : PlainFinal(line, last)
    \/ StreamEnds \/ SendTail \/ DeleteSession \/ CloseToolsets

Next ==
    \/ Handle
    \/ \E v \in Values : ToolAnswer(v)
    \/ ManualSearched
    \/ ToolCallBroken \/ PrepFails \/ StreamFails \/ PlainFails
    \/ Disconnect \/ Cancelled \/ Collect \/ Killed

Spec == Init /\ [][Next]_vars

\* The LLM and its tools answer or time out, and an abandoned generator is collected.
FairSpec == Spec /\ WF_vars(Handle) /\ WF_vars(Collect)
-----------------------------------------------------------------------------
(***************************************************************************)
(* Properties                                                              *)
(***************************************************************************)

AnswerOf(text) == Without(text, {ErrorNote})

\* The text kept of the answer is what the LLM said, no line twice and none lost, over all
\* messages of a turn and a retry between two messages (_StreamDedup.feed).
DedupExact == (Streams /\ ~unsure) => dedup.full = llm.said

\* With the check on, no value that no tool returned and no reference to a manual nobody
\* searched is ever shown (_AnswerGuard.hold and review).
NothingMadeUp ==
    hold => \A line \in ToSet(out) :
              /\ line \in Values => line \in known
              /\ line \in Guides => searched

\* What was sent and what is held back for a chart marker make up the whole answer, so the
\* tail arrives unless the request fails (ChartInliner.feed and flush).
AnswerDelivered ==
    (Streams /\ ~hold) => AnswerOf(out) \o buf = dedup.full

\* What was shown of an answer is also what the memory gets of it (_bg_persist).
RememberedAsShown ==
    (Streams /\ ~hold /\ at = "over" /\ AnswerOf(out) # <<>>)
        => saved # None /\ IsPrefix(AnswerOf(out), saved)

\* Once the runner has started, the request releases its sessions and toolsets, unless the process
\* dies or the cleanup is itself cancelled (the finally of event_stream and of
\* _run_with_toolcall_recovery); both are Killed, after which nothing is promised.
Released == (at = "run") ~> ((live = {} /\ ~tools) \/ at = "gone")

\* Every text of the retry reaches the answer (_run_with_toolcall_recovery).
RetryTextShown ==
    [][(at = "again" /\ llm'.said # llm.said)
          => IsSuffix(Rest(llm'.said, llm.said), dedup'.full)]_vars

\* With the check on, the memory gets no value that no tool returned (review).
RememberedVerified ==
    (hold /\ saved # None) => ToSet(saved) \cap Values \subseteq known

\* No request leaves its session behind (_cleanup_session).
NoSessionLeft == at = "over" => "main" \notin live

\* A streamed answer is never changed on its way (the two cases of _StreamDedup).
DeltaExact == (Streams /\ llm.tries = 1) => dedup.full = llm.said
=============================================================================
