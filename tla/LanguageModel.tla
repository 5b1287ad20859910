--------------------------- MODULE LanguageModel ---------------------------
(***************************************************************************)
(* mlc_llm_engine.cpp and language_model.cpp: the infer operator of a      *)
(* component with a model of its own.  The engine generates one piece of   *)
(* text per step; the component takes it for a message, for a part of a    *)
(* tool call or for reasoning, and which of these lasts from one piece to  *)
(* the next in variables of the engine, not of the request.                *)
(*                                                                         *)
(* The model itself is external: it generates any pieces, one at a time,   *)
(* and gives a reason when it stops.  A piece is a mark of its vocabulary, *)
(* a word, or a text that is JSON by itself and no longer when anything is *)
(* joined to it; outside of a tool call such a text is as good as a word.  *)
(***************************************************************************)
EXTENDS Integers, Sequences, FiniteSets

CONSTANTS
    Json            \* Json[c]: the tools that piece c asks for

Marks == {"botc", "eotc", "think", "unthink"}
Words == {"word", "empty"}
Calls == DOMAIN Json
Reasons == {"stop", "length", "error"}

ASSUME JsonAssumption ==
    /\ Calls \cap (Marks \cup Words) = {}
    /\ \A c \in Calls : Json[c] \in Seq({Json[c][i] : i \in DOMAIN Json[c]})

VARIABLES
    model,          \* the pieces the model knows, and how many it generates at most
    mode,           \* mode_
    tokens,         \* tool_call_tokens_
    running,        \* the request is in request_map_ and the engine has it
    lastError,      \* last_error_ is set
    configValid,    \* the model's default generation config can be validated
    ignoring,       \* ignore_reasoning_messages of the component
    generated,      \* ghost: what the model has generated for the request
    reason,         \* ghost: why it has stopped, or "none"
    deltas,         \* ghost: the deltas the operator has put out for it
    clean           \* ghost: no earlier generation broke off in the middle

modelVars == <<model, mode, tokens, running, lastError, configValid, ignoring,
               generated, reason, deltas, clean>>

Text == [kind |-> "text", tools |-> <<>>, finish |-> "none"]
Reasoning == [kind |-> "reasoning", tools |-> <<>>, finish |-> "none"]
ToolCalls(c) == [kind |-> "calls", tools |-> Json[c], finish |-> "tool_calls"]
Final(f) == [kind |-> "end", tools |-> <<>>, finish |-> f]

-----------------------------------------------------------------------------
(* What should come of a generation, read as a whole.                      *)

\* Position i of text is inside a tool call: one has begun since the last ended.
Inside(text, i) ==
    \E j \in 1 .. i - 1 :
        text[j] = "botc" /\ \A k \in j .. i - 1 : text[k] # "eotc"

\* It is a thought: the last mark before it that is not in a call begins one.
Thought(text, i) ==
    \E j \in 1 .. i - 1 :
        /\ text[j] = "think" /\ ~Inside(text, j)
        /\ \A k \in j .. i - 1 : text[k] \notin {"unthink", "botc", "eotc"}

\* The pieces of the call that is open before i; an empty one adds nothing to it.
Pieces(text, i) ==
    {k \in 1 .. i - 1 :
        /\ Inside(text, k) /\ text[k] \notin {"botc", "empty"}
        /\ \A l \in k .. i - 1 : text[l] # "eotc"}

\* The call that ends at i is the one piece c.
IsCall(text, i, c) ==
    /\ text[i] = "eotc" /\ c \in Calls
    /\ \E k \in 1 .. i - 1 : Pieces(text, i) = {k} /\ text[k] = c

Shown(text, i, ignore) ==
    \/ \E c \in Calls : IsCall(text, i, c)
    \/ text[i] = "word" /\ ~Inside(text, i) /\ ~(ignore /\ Thought(text, i))

Meaning(text, i) ==
    IF \E c \in Calls : IsCall(text, i, c)
    THEN ToolCalls(CHOOSE c \in Calls : IsCall(text, i, c))
    ELSE IF Thought(text, i) THEN Reasoning ELSE Text

\* The n-th delta of a generation is that of the piece with n shown up to it.
Reading(text, ignore) ==
    LET shown(i) == {j \in 1 .. i : Shown(text, j, ignore)}
    IN  [n \in 1 .. Cardinality(shown(Len(text))) |->
            Meaning(text, CHOOSE i \in shown(Len(text)) : Cardinality(shown(i)) = n)]

\* The model has broken off in a call or in a thought.
BrokenOff(text) == Inside(text, Len(text) + 1) \/ Thought(text, Len(text) + 1)

-----------------------------------------------------------------------------
(* The engine and the operator.                                            *)

\* The component is made: its engine is new, and may have a config of no use.
NewModel ==
    /\ mode' = "text" /\ tokens' = <<>>
    /\ running' = FALSE /\ lastError' = FALSE
    /\ configValid' \in BOOLEAN
    /\ UNCHANGED model
    /\ ignoring' = FALSE
    /\ generated' = <<>> /\ reason' = "none" /\ deltas' = <<>> /\ clean' = TRUE

ModelInit ==
    /\ mode = "text" /\ tokens = <<>>
    /\ running = FALSE /\ lastError = FALSE /\ configValid = TRUE
    /\ ignoring = FALSE
    /\ generated = <<>> /\ reason = "none" /\ deltas = <<>> /\ clean = TRUE

\* initialize_chat_completion, after the messages have been found valid.  What
\* has become of the mode and the tokens of an earlier request stays.
Initialize(ignore) ==
    /\ ignoring' = ignore
    /\ running' = configValid
    /\ lastError' = (lastError \/ ~configValid)
    /\ clean' = (~BrokenOff(generated)
                    /\ (clean \/ \E i \in DOMAIN generated : generated[i] = "eotc"))
    /\ generated' = <<>> /\ reason' = "none" /\ deltas' = <<>>
    /\ UNCHANGED <<model, mode, tokens, configValid>>

\* Variant: the tokens of a call are left for the next one.
KeepTokens(c) ==
    \/ /\ c = "botc"
       /\ mode' = "tool_call" /\ UNCHANGED tokens
    \/ /\ c = "eotc"
       /\ mode' = "text" /\ UNCHANGED tokens
    \/ /\ c \notin {"botc", "eotc"} /\ mode = "tool_call"
       /\ tokens' = (IF c = "empty" THEN tokens ELSE Append(tokens, c))
       /\ UNCHANGED mode
    \/ /\ c \notin {"botc", "eotc"} /\ mode # "tool_call"
       /\ mode' = CASE c = "think" -> "reasoning"
                    [] c = "unthink" -> "text"
                    [] OTHER -> mode
       /\ UNCHANGED tokens

\* get_response_from_stream_output: what piece c does to the mode.
Parse(c) ==
    \/ /\ c = "botc"
       /\ mode' = "tool_call" /\ UNCHANGED tokens
    \/ /\ c = "eotc"
       /\ mode' = "text" /\ tokens' = <<>>
    \/ /\ c \notin {"botc", "eotc"} /\ mode = "tool_call"
       /\ tokens' = (IF c = "empty" THEN tokens ELSE Append(tokens, c))
       /\ UNCHANGED mode
    \/ /\ c \notin {"botc", "eotc"} /\ mode # "tool_call"
       /\ mode' = CASE c = "think" -> "reasoning"
                    [] c = "unthink" -> "text"
                    [] OTHER -> mode
       /\ UNCHANGED tokens

\* get_json_str_if_valid
Valid == Len(tokens) = 1 /\ tokens[1] \in Calls

\* The delta the step puts out for piece c when the model stops for reason f, or
\* none: a tool call takes the place of the reason, the reason that of a text.
Delta(c, f) ==
    IF c = "eotc" /\ Valid THEN <<ToolCalls(tokens[1])>>
    ELSE IF f # "none" THEN <<Final(f)>>
    ELSE IF c # "word" \/ mode = "tool_call" \/ (mode = "reasoning" /\ ignoring) THEN <<>>
    ELSE IF mode = "reasoning" THEN <<Reasoning>> ELSE <<Text>>

Generates(c, f) ==
    /\ running /\ c \in model.pieces \cup {"empty"}
    /\ c \in Calls => mode = "tool_call"
    /\ c = "empty" => f # "none"
    /\ f \in {"stop", "error"} => c \in Words
    /\ Len(generated) = model.limit - 1 => f # "none"

\* One turn of the loop in the operator's step: the model generates c.
Step(c, f) ==
    /\ ~lastError /\ Generates(c, f)
    /\ Parse(c)
    /\ running' = (f = "none")
    /\ generated' = Append(generated, c)
    /\ reason' = f
    /\ deltas' = deltas \o Delta(c, f)
    /\ UNCHANGED <<model, lastError, configValid, ignoring, clean>>

\* The output that ends the call: only one kind of end does.
Ends(d) == d # <<>> /\ d[1].finish = "stop"

\* language_model.cpp, mlc_llm_engine.cpp: the deltas of a request are those its
\* text means when it is read as a whole: no piece is shown that belongs to a
\* call or to reasoning that is ignored, a call is shown once and complete, and
\* the end comes last.  The piece the model stops with goes unseen when it is a
\* word; and a generation after one that broke off in the middle is read wrongly.
AnswerIsParsed ==
    clean =>
        LET last == Len(generated)
            seen == IF reason = "none" \/ generated[last] = "eotc" THEN generated
                    ELSE SubSeq(generated, 1, last - 1)
        IN  deltas = Reading(seen, ignoring) \o
                (IF reason = "none" \/ \E c \in Calls : IsCall(generated, last, c)
                 THEN <<>> ELSE <<Final(reason)>>)

=============================================================================
