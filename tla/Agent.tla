------------------------------- MODULE Agent -------------------------------
(***************************************************************************)
(* agent.py and agent.ts over a language model in the VM: one Agent, its   *)
(* history of messages, its tools and its queries.  A query is a generator *)
(* that goes on when its user takes the next response; every query of the  *)
(* agent works on the one history, and the VM serves one call at a time,   *)
(* whether it is an inference, a define or delete, or a call that a tool   *)
(* makes.  The model is the VM's own (LanguageModel) or OpenAI's           *)
(* (openai.cpp), whose server is external.                                 *)
(*                                                                         *)
(* The way of packets to and from the VM is left out: Runtime, AsyncRuntime*)
(* and NodeRuntime show that a call's packets reach it in order.           *)
(***************************************************************************)
EXTENDS LanguageModel

CONSTANTS
    Scenarios,      \* the binding, the backend, its model and the number of queries
    Tools,          \* the tools the user may add
    RuntimeTools,   \* those that are operators of the VM, as presets are
    MaxQueries,     \* bound: queries ever made
    MaxInfers,      \* bound: inferences after which the model calls no tools
    NoQuery

ASSUME AgentAssumption ==
    /\ RuntimeTools \subseteq Tools /\ MaxInfers \in Nat
    /\ MaxQueries \in Nat /\ NoQuery \notin 1 .. MaxQueries
    /\ \A s \in Scenarios : s.queries \in 1 .. MaxQueries

VARIABLES
    scenario,       \* one of Scenarios
    valid,          \* _component_state.valid
    user,           \* what define() or delete() the user waits for
    messages,       \* _messages
    registered,     \* the names in _tools
    pc,             \* pc[q]: where query q is
    text,           \* queries with output text that is not in a message yet
    called,         \* queries with is_tool_called
    asked,          \* asked[q]: the tools of the call message under way
    todo,           \* todo[q]: those still to be started
    waiting,        \* waiting[q]: answers of the VM its tools wait for
    refused,        \* queries with a tool call promise that is rejected
    stream,         \* stream[q]: deltas put out by the VM and not taken
    inbox,          \* calls the VM has not served
    serving,        \* the query whose inference the VM is in, or NoQuery
    defined,        \* the VM has the agent's component
    infers,         \* how many inferences have been asked for
    died,           \* why the process has ended, or "no"
    disturbed       \* ghost: a tool call was left, or the history was shared

\* Queries are numbered as they are made.
Queries == 1 .. MaxQueries
Python == scenario.binding = "python"
Remote == scenario.backend = "openai"

queryVars == <<pc, text, called, asked, todo, waiting, refused>>
agentVars == <<valid, user, messages, registered>>
vmVars == <<inbox, serving, defined, infers>>
vars == <<modelVars, queryVars, agentVars, vmVars, scenario, stream,
          died, disturbed>>

System == [kind |-> "system", tools |-> <<>>]
UserMessage == [kind |-> "user", tools |-> <<>>]
Answer == [kind |-> "text", tools |-> <<>>]
CallMessage(ts) == [kind |-> "calls", tools |-> ts]
Result(t) == [kind |-> "result", tools |-> <<t>>]

Failure == [kind |-> "failure", tools |-> <<>>, finish |-> "none"]
Over == [kind |-> "over", tools |-> <<>>, finish |-> "none"]

Live == {"stream", "ending", "calling", "tools", "results"}

\* Every tool call of a history is followed by its results, and no other ones.
Sound(history) ==
    /\ \A i \in DOMAIN history : history[i].kind = "calls" =>
           \A j \in DOMAIN history[i].tools :
               i + j \in DOMAIN history /\ history[i + j] = Result(history[i].tools[j])
    /\ \A i \in DOMAIN history : history[i].kind = "result" =>
           \E j \in 1 .. i - 1 :
               /\ history[j].kind = "calls" /\ i - j \in DOMAIN history[j].tools
               /\ history[i] = Result(history[j].tools[i - j])

Init ==
    /\ ModelInit
    /\ scenario \in Scenarios /\ model = scenario.model
    /\ valid = FALSE /\ user = "free" /\ messages = <<>> /\ registered = {}
    /\ pc = [q \in Queries |-> "none"]
    /\ text = {} /\ called = {} /\ refused = {}
    /\ asked = [q \in Queries |-> <<>>] /\ todo = [q \in Queries |-> <<>>]
    /\ waiting = [q \in Queries |-> 0]
    /\ stream = [q \in Queries |-> <<>>]
    /\ inbox = <<>> /\ serving = NoQuery /\ defined = FALSE /\ infers = 0
    /\ died = "no" /\ disturbed = FALSE

Up == died = "no"
Goto(q, l) == pc' = [pc EXCEPT ![q] = l]
Others(q) == \E r \in Queries \ {q} : pc[r] \in Live
Send(item) == inbox' = Append(inbox, item)
Item(what, q, sound, ignore) == [what |-> what, by |-> q, sound |-> sound, ignore |-> ignore]

-----------------------------------------------------------------------------
(* define(), delete() and add_tool().                                      *)

Define ==
    /\ Up /\ user = "free" /\ ~valid
    /\ user' = "defining"
    /\ messages' = IF messages = <<>> /\ ~Remote THEN <<System>> ELSE messages
    /\ Send(Item("define", NoQuery, TRUE, FALSE))
    /\ UNCHANGED <<modelVars, queryVars, valid, registered, serving, defined, infers,
                   scenario, stream, died, disturbed>>

\* Only the system message stays.
Forget ==
    /\ valid' = FALSE
    /\ messages' = IF messages # <<>> /\ messages[1] = System THEN <<System>> ELSE <<>>

\* Variant: the component is left to the runtime's stop().
DeleteNothing ==
    /\ Up /\ user = "free" /\ valid
    /\ disturbed' = (disturbed \/ \E q \in Queries : pc[q] \in Live)
    /\ Forget /\ UNCHANGED <<user, inbox>>
    /\ UNCHANGED <<modelVars, queryVars, registered, serving, defined, infers,
                   scenario, stream, died>>

\* The runtime is alive; agent.ts tests for the contrary.
Delete ==
    /\ Up /\ user = "free" /\ valid
    /\ disturbed' = (disturbed \/ \E q \in Queries : pc[q] \in Live)
    /\ IF Python
       THEN /\ user' = "deleting"
            /\ Send(Item("delete", NoQuery, TRUE, FALSE))
            /\ UNCHANGED <<valid, messages>>
       ELSE Forget /\ UNCHANGED <<user, inbox>>
    /\ UNCHANGED <<modelVars, queryVars, registered, serving, defined, infers,
                   scenario, stream, died>>

\* bound: not while a query is under way.
AddTool(t) ==
    /\ Up /\ t \notin registered /\ \A q \in Queries : pc[q] \notin Live
    /\ registered' = registered \cup {t}
    /\ UNCHANGED <<modelVars, queryVars, valid, user, messages, vmVars, scenario, stream, died, disturbed>>

-----------------------------------------------------------------------------
(* query().                                                                *)

\* The head of the loop: the history as it is now goes to the model.
Infer(q, history) ==
    /\ \E ignore \in {FALSE, "think" \in model.pieces} : Send(Item("infer", q, Sound(history), ignore))
    /\ infers' = infers + 1
    /\ stream' = [stream EXCEPT ![q] = <<>>]
    /\ called' = called \ {q}
    /\ Goto(q, "stream")

\* The first response is asked for.
Query(q) ==
    /\ Up /\ pc[q] = "none" /\ q <= scenario.queries /\ \A r \in 1 .. q - 1 : pc[r] # "none"
    /\ IF valid
       THEN /\ messages' = Append(messages, UserMessage)
            /\ Infer(q, messages')
            /\ disturbed' = (disturbed \/ Others(q))
       ELSE /\ Goto(q, "failed")
            /\ UNCHANGED <<messages, inbox, infers, stream, called, disturbed>>
    /\ UNCHANGED <<modelVars, text, asked, todo, waiting, refused, valid, user,
                   registered, serving, defined, scenario, died>>

\* The query is over: it throws, or its user takes no more responses.
Leave(q, how) ==
    /\ Goto(q, how)
    /\ text' = text \ {q} /\ called' = called \ {q}
    /\ asked' = [asked EXCEPT ![q] = <<>>] /\ todo' = [todo EXCEPT ![q] = <<>>]
    /\ refused' = refused \ {q}
    /\ stream' = [stream EXCEPT ![q] = <<>>]

Abandon(q) ==
    /\ Up /\ pc[q] \in Live \ {"tools"}
    /\ Leave(q, "abandoned")
    /\ disturbed' = (disturbed \/ pc[q] \in {"calling", "results"})
    /\ UNCHANGED <<modelVars, waiting, agentVars, vmVars, scenario, died>>

\* _append_assistant_text_message
Flushed(q) == IF q \in text THEN Append(messages, Answer) ELSE messages

\* JSON need not be a call of tools: MessageDelta.model_validate finds out before the
\* history is touched, and the loop over tool_calls in agent.ts, after that, if the
\* engine has made none of an empty list.
Malformed(ts) == ts = <<>> \/ (Python /\ \E i \in DOMAIN ts : ts[i] \notin Tools)

\* A delta is taken from the stream.
TakeText(q, d) ==
    /\ d.kind \in {"text", "reasoning", "end"}
    /\ text' = IF d.kind = "text" THEN text \cup {q} ELSE text
    /\ Goto(q, IF d.finish \in Reasons THEN "ending" ELSE "stream")
    /\ stream' = [stream EXCEPT ![q] = Tail(@)]
    /\ UNCHANGED <<called, asked, todo, refused, messages, inbox, infers>>

TakeCalls(q, d) ==
    /\ d.kind = "calls"
    /\ IF Malformed(d.tools)
       THEN /\ Leave(q, "failed")
            /\ messages' = IF Python THEN messages ELSE Append(Flushed(q), CallMessage(<<>>))
       ELSE /\ messages' = Append(Flushed(q), CallMessage(d.tools))
            /\ text' = text \ {q} /\ called' = called \cup {q}
            /\ asked' = [asked EXCEPT ![q] = d.tools]
            /\ todo' = [todo EXCEPT ![q] = d.tools]
            /\ stream' = [stream EXCEPT ![q] = Tail(@)]
            /\ Goto(q, "calling") /\ UNCHANGED refused
    /\ UNCHANGED <<inbox, infers>>

TakeFailure(q, d) ==
    /\ d.kind = "failure"
    /\ Leave(q, "failed")
    /\ UNCHANGED <<messages, inbox, infers>>

\* After the last delta: infer again if a tool was called.
Finish(q, history) ==
    /\ messages' = history
    /\ IF q \in called
       THEN Infer(q, history) /\ text' = text \ {q} /\ UNCHANGED <<asked, todo, refused>>
       ELSE Leave(q, "done") /\ UNCHANGED <<inbox, infers>>

Take(q) ==
    /\ Up /\ pc[q] = "stream" /\ stream[q] # <<>>
    /\ LET d == Head(stream[q])
       IN  \/ TakeText(q, d) \/ TakeCalls(q, d) \/ TakeFailure(q, d)
           \/ d.kind = "over" /\ Finish(q, messages)
    /\ UNCHANGED <<modelVars, waiting, valid, user, registered, serving, defined,
                   scenario, died, disturbed>>

\* The user has had the last response and asks for another one.
Ending(q) ==
    /\ Up /\ pc[q] = "ending"
    /\ Finish(q, Flushed(q))
    /\ UNCHANGED <<modelVars, waiting, valid, user, registered, serving, defined,
                   scenario, died, disturbed>>

\* The calls have been shown.
BeginTools(q) ==
    /\ Up /\ pc[q] = "calling"
    /\ Goto(q, "tools")
    /\ UNCHANGED <<modelVars, text, called, asked, todo, waiting, refused, agentVars,
                   vmVars, scenario, stream, died, disturbed>>

\* A tool throws: the query with it, in Python.  In JavaScript it is the executor
\* of a promise that throws: nothing settles the promise, and the rejection that
\* nobody handles ends the process, unless the user has seen to that.
ToolThrows(q) ==
    /\ disturbed' = TRUE
    /\ IF Python THEN Leave(q, "failed") /\ UNCHANGED died
       ELSE /\ UNCHANGED <<text, called, asked, todo, refused, stream>>
            /\ \/ died' = "tool" /\ UNCHANGED pc
               \/ UNCHANGED died /\ IF pc[q] = "tools" THEN Goto(q, "stuck") ELSE UNCHANGED pc

\* In Python one tool after the other, in JavaScript all together.
StartTool(q) ==
    /\ Up /\ pc[q] = "tools" /\ todo[q] # <<>>
    /\ Python => waiting[q] = 0
    /\ LET t == Head(todo[q])
           started == /\ todo' = [todo EXCEPT ![q] = Tail(@)]
                      /\ UNCHANGED <<pc, text, called, asked, stream, died>>
       IN  \/ /\ t \in registered \ RuntimeTools
              /\ started /\ UNCHANGED <<refused, inbox, waiting, disturbed>>
           \/ /\ t \in registered \cap RuntimeTools
              /\ Send(Item("tool", q, TRUE, FALSE))
              /\ waiting' = [waiting EXCEPT ![q] = @ + 1]
              /\ started /\ UNCHANGED <<refused, disturbed>>
           \/ /\ t \in registered
              /\ ToolThrows(q) /\ UNCHANGED <<inbox, waiting>>
           \/ /\ t \notin registered /\ disturbed' = TRUE
              /\ IF Python THEN Leave(q, "failed") /\ UNCHANGED died
                 ELSE refused' = refused \cup {q} /\ started
              /\ UNCHANGED <<inbox, waiting>>
    /\ UNCHANGED <<modelVars, agentVars, serving, defined, infers, scenario>>

\* Promise.all is rejected.
ToolsRefused(q) ==
    /\ Up /\ pc[q] = "tools" /\ todo[q] = <<>> /\ q \in refused
    /\ Leave(q, "failed")
    /\ UNCHANGED <<modelVars, waiting, agentVars, vmVars, scenario, died, disturbed>>

\* All results are there, and are appended as they are shown, one by one.
ToolsReturn(q) ==
    /\ Up /\ pc[q] = "tools" /\ todo[q] = <<>> /\ waiting[q] = 0 /\ q \notin refused
    /\ Goto(q, "results")
    /\ messages' = Append(messages, Result(Head(asked[q])))
    /\ asked' = [asked EXCEPT ![q] = Tail(@)]
    /\ UNCHANGED <<modelVars, text, called, todo, waiting, refused, valid, user,
                   registered, vmVars, scenario, stream, died, disturbed>>

\* Variant: the loop over the results ends with the first one.
OneResult(q) ==
    /\ Up /\ pc[q] = "results"
    /\ Goto(q, "stream") /\ asked' = [asked EXCEPT ![q] = <<>>]
    /\ UNCHANGED <<modelVars, messages, text, called, todo, waiting, refused, valid, user,
                   registered, vmVars, scenario, stream, died, disturbed>>

NextResult(q) ==
    /\ Up /\ pc[q] = "results"
    /\ IF asked[q] = <<>> THEN Goto(q, "stream") /\ UNCHANGED <<messages, asked>>
       ELSE /\ messages' = Append(messages, Result(Head(asked[q])))
            /\ asked' = [asked EXCEPT ![q] = Tail(@)]
            /\ UNCHANGED pc
    /\ UNCHANGED <<modelVars, text, called, todo, waiting, refused, valid, user,
                   registered, vmVars, scenario, stream, died, disturbed>>

-----------------------------------------------------------------------------
(* The VM.                                                                 *)

\* What it sends to a query that is no longer there is dropped.
Put(q, ds) ==
    stream' = IF pc[q] \in Live THEN [stream EXCEPT ![q] = @ \o ds] ELSE stream

Call1 == Head(inbox)
Serves(what) ==
    /\ Up /\ serving = NoQuery /\ inbox # <<>> /\ Call1.what = what
    /\ inbox' = Tail(inbox)
    /\ UNCHANGED <<registered, infers, scenario>>

ServeDefine ==
    /\ Serves("define")
    /\ user' = "free"
    /\ \/ /\ valid' = TRUE /\ defined' = TRUE
          /\ IF ~Remote THEN NewModel ELSE UNCHANGED modelVars
       \/ UNCHANGED <<valid, defined, modelVars>>
    /\ UNCHANGED <<queryVars, messages, serving, stream, died, disturbed>>

ServeDelete ==
    /\ Serves("delete")
    /\ user' = "free" /\ defined' = FALSE
    /\ Forget
    /\ UNCHANGED <<modelVars, queryVars, serving, stream, died, disturbed>>

ServeTool ==
    /\ Serves("tool")
    /\ LET q == Call1.by
       IN  /\ waiting' = [waiting EXCEPT ![q] = @ - 1]
           /\ \/ UNCHANGED <<pc, text, called, asked, todo, refused, stream, died, disturbed>>
              \/ ToolThrows(q)
    /\ UNCHANGED <<modelVars, valid, user, messages, serving, defined>>

\* What OpenAI answers to a history that is in order: a call is one of some tool.
OpenAIAnswers ==
    {<<[kind |-> "text", tools |-> <<>>, finish |-> f], Over>> : f \in {"stop", "length"}}
      \cup {<<ToolCalls(c), Over>> :
                c \in {x \in Calls : Json[x] # <<>> /\ infers < MaxInfers}}

\* Nothing catches what infer throws when the request fails.
InferOpenAI(q) ==
    /\ \/ Call1.sound /\ (\E ds \in OpenAIAnswers : Put(q, ds)) /\ UNCHANGED died
       \/ ~Call1.sound /\ died' = "history" /\ UNCHANGED stream
       \/ died' = "server" /\ UNCHANGED stream
    /\ UNCHANGED <<modelVars, serving>>

ServeInfer ==
    /\ Serves("infer")
    /\ LET q == Call1.by
       IN  IF ~defined THEN Put(q, <<Failure>>) /\ UNCHANGED <<modelVars, serving, died>>
           ELSE IF Remote THEN InferOpenAI(q)
           ELSE /\ Initialize(Call1.ignore)
                /\ serving' = q
                /\ UNCHANGED <<stream, died>>
    /\ UNCHANGED <<queryVars, valid, user, messages, defined, disturbed>>

\* A turn of the loops in the operator and around it.
Generate ==
    /\ Up /\ serving # NoQuery
    /\ \E c \in Marks \cup Words \cup Calls, f \in Reasons \cup {"none"} :
          /\ c \in Calls => infers < MaxInfers
          /\ Step(c, f)
          /\ LET d == Delta(c, f)
             IN  /\ Put(serving, IF Ends(d) THEN Append(d, Over) ELSE d)
                 /\ serving' = IF Ends(d) THEN NoQuery ELSE serving
    /\ UNCHANGED <<queryVars, agentVars, inbox, defined, infers, scenario,
                   died, disturbed>>

\* Variant: an error of the engine is waited out.
IgnoreError == Up /\ serving # NoQuery /\ lastError /\ UNCHANGED vars

ReportError ==
    /\ Up /\ serving # NoQuery /\ lastError
    /\ Put(serving, <<Failure>>)
    /\ serving' = NoQuery
    /\ UNCHANGED <<modelVars, queryVars, agentVars, inbox, defined, infers, scenario, died, disturbed>>

VM == ServeDefine \/ ServeDelete \/ ServeTool \/ ServeInfer \/ Generate \/ ReportError

Responds(q) ==
    \/ Take(q) \/ Ending(q) \/ BeginTools(q) \/ StartTool(q)
    \/ ToolsRefused(q) \/ ToolsReturn(q) \/ NextResult(q)

Next ==
    \/ Define \/ Delete \/ (\E t \in Tools : AddTool(t))
    \/ \E q \in Queries : Query(q) \/ Abandon(q) \/ Responds(q)
    \/ VM

\* The VM's thread runs, and users take the responses of a query one by one.
Spec == Init /\ [][Next]_vars /\ WF_vars(VM) /\ \A q \in Queries : WF_vars(Responds(q))

-----------------------------------------------------------------------------
(* Properties.                                                             *)

\* agent.py, agent.ts: the history that goes to the model has every tool call
\* answered, in order, with nothing between, as long as no query was left or
\* failed in the middle of a tool call, and queries and delete() took turns;
\* so it is never the history that makes openai.cpp throw and end the process.
HistoryIsSound ==
    ~disturbed => /\ died # "history"
                  /\ \A i \in DOMAIN inbox : inbox[i].sound

\* vm.cpp, language_model.cpp: the operator steps on with a request the engine is
\* done with, and nothing will come of it.
Spins == serving # NoQuery /\ ~running /\ ~lastError

\* query() ends, with tools and inferences in between, if its user takes what it
\* gives: unless the VM spins, or a tool has thrown in JavaScript.
QueryEnds ==
    \A q \in Queries :
        pc[q] \in Live ~> pc[q] \notin Live \/ Spins \/ ~Up

\* agent.py, agent.ts: a valid agent has its component, and delete() gives it
\* back; that of agent.ts does not.
ComponentFollowsAgent ==
    /\ valid => defined
    /\ Python /\ user = "free" /\ ~valid => ~defined

\* The documentation of the internal APIs: packets are emitted until one with
\* finish: true.
InferenceFinishes == serving # NoQuery ~> serving = NoQuery \/ ~Up

=============================================================================
