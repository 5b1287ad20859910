---------------------------- MODULE AgentProofs ----------------------------
(***************************************************************************)
(* Theorems about Agent and the language model below it, for every number  *)
(* of queries and tools and texts of every length: what the component and  *)
(* its agent agree on, that the history is in order, and that what the     *)
(* engine takes out of a text is what the text means.                      *)
(***************************************************************************)
EXTENDS Agent, SequenceTheorems, FiniteSetTheorems, TLAPS

-----------------------------------------------------------------------------
(* Types.                                                                  *)

Names == UNION {{Json[c][i] : i \in DOMAIN Json[c]} : c \in Calls}
\* What the model may generate.
Pieces0 == Marks \cup Words \cup Calls

Deltas == [kind : {"text", "reasoning", "calls", "end", "failure", "over"},
           tools : Seq(Names), finish : Reasons \cup {"none", "tool_calls"}]
Messages == [kind : {"system", "user", "text", "calls", "result"}, tools : Seq(Names)]
Items == [what : {"define", "delete", "infer", "tool"}, by : Queries \cup {NoQuery},
          sound : BOOLEAN, ignore : BOOLEAN]
Places == Live \cup {"none", "done", "failed", "abandoned", "stuck"}

\* A call that is under way is one of some tool.
Asking == \A q \in Queries : pc[q] \in {"calling", "tools"} => asked[q] # <<>>

QueryTypes ==
    /\ pc \in [Queries -> Places]
    /\ asked \in [Queries -> Seq(Names)]
    /\ stream \in [Queries -> Seq(Deltas)]
    /\ messages \in Seq(Messages)
    /\ Asking

\* What the VM has to serve, and whom.
VMTypes ==
    /\ inbox \in Seq(Items)
    /\ \A i \in DOMAIN inbox : inbox[i].what \in {"infer", "tool"} => inbox[i].by \in Queries
    /\ serving \in Queries \cup {NoQuery}

-----------------------------------------------------------------------------
(* The component.                                                          *)

UserCalls == {"define", "delete"}

\* The user waits for at most one call, and the flag says what the VM has.
UserInv ==
    /\ user \in {"free", "defining", "deleting"}
    /\ \A i \in DOMAIN inbox :
          /\ inbox[i].what = "define" => user = "defining"
          /\ inbox[i].what = "delete" => user = "deleting"
    /\ \A i, j \in DOMAIN inbox :
          inbox[i].what \in UserCalls /\ inbox[j].what \in UserCalls => i = j
    /\ user = "defining" => ~valid /\ (Python => ~defined)
    /\ user = "deleting" => Python /\ valid
    /\ valid => defined
    /\ Python /\ user = "free" /\ ~valid => ~defined

-----------------------------------------------------------------------------
(* The history.                                                            *)

Answering == {"calling", "tools", "results"}

\* The results still to come, once they have.
Results(ts) == [j \in 1 .. Len(ts) |-> Result(ts[j])]

\* No call of query q is in the VM.
Absent(q) == serving # q /\ \A i \in DOMAIN inbox : inbox[i].by # q

\* A query whose call is behind a delete.
Behind(q, i) ==
    /\ pc[q] = "stream" /\ stream[q] = <<>>
    /\ serving # q /\ \A j \in 1 .. i - 1 : inbox[j].by # q

\* A query that is not made yet has nothing in the VM.
FreshInv == \A q \in Queries : pc[q] = "none" => Absent(q)

OneLive == \A q, r \in Queries : pc[q] \in Live /\ pc[r] \in Live => q = r

\* The history is sound, or will be with the results that are still to come.
Settled ==
    /\ \A q \in Queries : pc[q] \in Answering => Sound(messages \o Results(asked[q]))
    /\ (\A q \in Queries : pc[q] \notin Answering) => Sound(messages)

\* A query that has begun during a delete() waits behind it.
BehindDelete ==
    \A i \in DOMAIN inbox : inbox[i].what = "delete" =>
        \A q \in Queries : pc[q] \in Live => Behind(q, i)

-----------------------------------------------------------------------------
(* The text.                                                               *)

\* The mode and the tokens are those of the request.
Synced == clean \/ \E i \in DOMAIN generated : generated[i] = "eotc"

\* What a mode and tokens say of the end of text t.
ModeOf(t, m, ts) ==
    LET open == Pieces(t, Len(t) + 1)
    IN  /\ m = "tool_call" <=> Inside(t, Len(t) + 1)
        /\ m = "reasoning" <=> Thought(t, Len(t) + 1)
        /\ open = {} => ts = <<>>
        /\ \A k \in open : IF open = {k} THEN ts = <<t[k]>> ELSE Len(ts) > 1

\* The engine reads on from where the text of the request is.
ModeInv == Synced => ModeOf(generated, mode, tokens)

\* The pieces shown up to i, and that they can be counted.
ShownTo(t, i, ignore) == {j \in 1 .. i : Shown(t, j, ignore)}
Counted(t, ignore) ==
    \A n \in 1 .. Cardinality(ShownTo(t, Len(t), ignore)) :
        \E i \in ShownTo(t, Len(t), ignore) : Cardinality(ShownTo(t, i, ignore)) = n

TextTypes ==
    /\ generated \in Seq(Pieces0)
    /\ tokens \in Seq(Pieces0)
    /\ mode \in {"text", "tool_call", "reasoning"}
    /\ reason \in Reasons \cup {"none"}
    /\ deltas \in Seq(Deltas)

\* AnswerIsParsed is kept by a step only if the mode and the tokens are right, and if
\* the pieces shown so far are numbered without a gap.
TextInv ==
    /\ running => reason = "none"
    /\ reason = "none" => Counted(generated, ignoring)
    /\ ModeInv
    /\ AnswerIsParsed

TypeOK == QueryTypes /\ VMTypes /\ TextTypes

-----------------------------------------------------------------------------
(* Types are kept.                                                         *)

\* What is appended comes after what there was.
LEMMA AppendAt ==
    ASSUME NEW S, NEW s \in Seq(S), NEW x \in S
    PROVE  /\ Append(s, x) \in Seq(S) /\ Len(Append(s, x)) = Len(s) + 1
           /\ DOMAIN s = 1 .. Len(s) /\ DOMAIN Append(s, x) = 1 .. Len(s) + 1
           /\ Append(s, x)[Len(s) + 1] = x
           /\ \A i \in 1 .. Len(s) : Append(s, x)[i] = s[i]
OBVIOUS

\* The tools of a call are a sequence of names.
LEMMA ListType == \A c \in Calls : Json[c] \in Seq(Names)
<1> SUFFICES ASSUME NEW c \in Calls PROVE Json[c] \in Seq(Names)
  OBVIOUS
<1> DEFINE S == {Json[c][i] : i \in DOMAIN Json[c]}
<1>1. S \subseteq Names
  BY DEF Names
<1>2. Json[c] \in Seq(S)
  BY JsonAssumption
<1>. HIDE DEF S
<1>3. QED
  BY <1>1, <1>2

\* Every delta that the VM makes is one.
LEMMA DeltaTypes ==
    /\ Text \in Deltas /\ Reasoning \in Deltas /\ Failure \in Deltas /\ Over \in Deltas
    /\ \A f \in Reasons : Final(f) \in Deltas
    /\ \A c \in Calls : ToolCalls(c) \in Deltas
    /\ \A f \in Reasons : [kind |-> "text", tools |-> <<>>, finish |-> f] \in Deltas
<1>1. <<>> \in Seq(Names)
  OBVIOUS
<1>2. QED
  BY <1>1, ListType DEF Deltas, Text, Reasoning, Failure, Over, Final, ToolCalls, Reasons

\* What the operator puts out for a piece is a sequence of them.
LEMMA DeltaType ==
    ASSUME TypeOK, NEW c, NEW f \in Reasons \cup {"none"}
    PROVE  Delta(c, f) \in Seq(Deltas)
<1>1. CASE c = "eotc" /\ Valid
  BY <1>1, DeltaTypes DEF Delta, Valid
<1>2. CASE ~(c = "eotc" /\ Valid) /\ f # "none"
  BY <1>2, DeltaTypes DEF Delta
<1>3. CASE ~(c = "eotc" /\ Valid) /\ f = "none"
  BY <1>3, DeltaTypes DEF Delta
<1>4. QED
  BY <1>1, <1>2, <1>3

\* The kinds of messages there are.
LEMMA MessageTypes ==
    /\ System \in Messages /\ UserMessage \in Messages /\ Answer \in Messages
    /\ \A ts \in Seq(Names) : CallMessage(ts) \in Messages
    /\ \A t \in Names : Result(t) \in Messages
BY DEF Messages, System, UserMessage, Answer, CallMessage, Result

\* The history with the text that was under way is one.
LEMMA FlushedType ==
    ASSUME TypeOK, NEW q
    PROVE  Flushed(q) \in Seq(Messages)
BY MessageTypes DEF TypeOK, QueryTypes, Flushed

\* Text types are the engine's: Initialize, NewModel and Step change them.
LEMMA TextTypesStep == TypeOK /\ [Next]_vars => TextTypes'
<1> SUFFICES ASSUME TypeOK, [Next]_vars PROVE TextTypes'
  OBVIOUS
<1>1. CASE UNCHANGED modelVars
  BY <1>1 DEF TypeOK, TextTypes, modelVars
<1>2. CASE NewModel
  BY <1>2 DEF NewModel, TextTypes
<1>3. ASSUME NEW ignore, Initialize(ignore) PROVE TextTypes'
  BY <1>3 DEF TypeOK, Initialize, TextTypes
<1>4. ASSUME NEW c \in Pieces0, NEW f \in Reasons \cup {"none"}, Step(c, f)
      PROVE  TextTypes'
  <2>1. Delta(c, f) \in Seq(Deltas)
    BY DeltaType
  <2>2. generated' \in Seq(Pieces0)
    BY <1>4 DEF Step, TypeOK, TextTypes
  <2>3. deltas' \in Seq(Deltas)
    BY <1>4, <2>1 DEF Step, TypeOK, TextTypes
  <2>4. mode' \in {"text", "tool_call", "reasoning"}
    BY <1>4 DEF Step, Parse, TypeOK, TextTypes
  <2>5. tokens' \in Seq(Pieces0)
    <3>1. tokens \in Seq(Pieces0) /\ Append(tokens, c) \in Seq(Pieces0) /\ <<>> \in Seq(Pieces0)
      BY DEF TypeOK, TextTypes
    <3>2. tokens' \in {tokens, <<>>, Append(tokens, c)}
      BY <1>4 DEF Step, Parse
    <3>3. QED
      BY <3>1, <3>2
  <2>6. reason' \in Reasons \cup {"none"}
    BY <1>4 DEF Step
  <2>7. QED
    BY <2>2, <2>3, <2>4, <2>5, <2>6 DEF TextTypes
<1>5. CASE ServeDefine
  BY <1>1, <1>2, <1>5 DEF ServeDefine
<1>6. CASE ServeInfer
  BY <1>1, <1>3, <1>6 DEF ServeInfer, InferOpenAI
<1>7. CASE Generate
  BY <1>4, <1>7 DEF Generate, Pieces0
<1>8. CASE ~(ServeDefine \/ ServeInfer \/ Generate)
  BY <1>1, <1>8 DEF Next, VM, vars, Define, Delete, AddTool, Query, Abandon, Responds, Take, Ending,
     BeginTools, StartTool, ToolsRefused, ToolsReturn, NextResult, ServeDelete, ServeTool, ReportError
<1>9. QED
  BY <1>5, <1>6, <1>7, <1>8

\* A new item and the first one, in types.
LEMMA ItemTypes ==
    /\ Item("define", NoQuery, TRUE, FALSE) \in Items
    /\ Item("delete", NoQuery, TRUE, FALSE) \in Items
    /\ \A q \in Queries : Item("tool", q, TRUE, FALSE) \in Items
    /\ \A h : \A q \in Queries, ignore \in BOOLEAN : Item("infer", q, Sound(h), ignore) \in Items
BY DEF Items, Item, Sound

\* The call of an inference.
LEMMA InferSends ==
    ASSUME NEW q \in Queries, NEW h, Infer(q, h)
    PROVE  \E item \in Items : /\ item.by = q /\ item.what = "infer" /\ item.sound = Sound(h)
                             /\ Send(item)
<1>1. PICK ignore \in {FALSE, "think" \in model.pieces} : Send(Item("infer", q, Sound(h), ignore))
  BY DEF Infer
<1>2. ignore \in BOOLEAN
  <2>1. ASSUME NEW b \in BOOLEAN, ignore \in {FALSE, b} PROVE ignore \in BOOLEAN
    BY <2>1
  <2>2. ("think" \in model.pieces) = TRUE \/ ("think" \in model.pieces) = FALSE
    OBVIOUS
  <2>3. QED
    BY <2>1, <2>2
<1> DEFINE item == Item("infer", q, Sound(h), ignore)
<1>3. item \in Items
  BY <1>2, ItemTypes
<1>4. item.by = q /\ item.what = "infer" /\ item.sound = Sound(h)
  BY DEF Item
<1>. HIDE DEF item
<1>5. Send(item)
  BY <1>1 DEF item
<1>6. QED
  BY <1>3, <1>4, <1>5

\* What a call or its end does to the inbox leaves its type.
LEMMA InboxType ==
    ASSUME VMTypes,
           \/ UNCHANGED inbox
           \/ \E item \in Items : Send(item) /\ (item.what \in {"infer", "tool"} => item.by \in Queries)
           \/ inbox # <<>> /\ inbox' = Tail(inbox)
    PROVE  /\ inbox' \in Seq(Items)
           /\ \A i \in DOMAIN inbox' : inbox'[i].what \in {"infer", "tool"} => inbox'[i].by \in Queries
<1>1. CASE UNCHANGED inbox
  BY <1>1 DEF VMTypes
<1>2. ASSUME NEW item \in Items, Send(item), item.what \in {"infer", "tool"} => item.by \in Queries
      PROVE  /\ inbox' \in Seq(Items)
             /\ \A i \in DOMAIN inbox' : inbox'[i].what \in {"infer", "tool"} => inbox'[i].by \in Queries
  BY <1>2 DEF VMTypes, Send
<1>3. CASE inbox # <<>> /\ inbox' = Tail(inbox)
  <2>1. inbox' \in Seq(Items)
    BY <1>3 DEF VMTypes
  <2>2. ASSUME NEW i \in DOMAIN inbox' PROVE i + 1 \in DOMAIN inbox /\ inbox'[i] = inbox[i + 1]
    BY <1>3 DEF VMTypes
  <2>3. QED
    BY <2>1, <2>2 DEF VMTypes
<1>4. QED
  BY <1>1, <1>2, <1>3

\* The first call, when the VM serves it.
LEMMA ServesType ==
    ASSUME VMTypes, NEW what, Serves(what)
    PROVE  /\ inbox # <<>> /\ inbox' = Tail(inbox) /\ Call1 = inbox[1] /\ 1 \in DOMAIN inbox
           /\ Call1 \in Items
           /\ what \in {"infer", "tool"} => Call1.by \in Queries
<1>1. inbox # <<>> /\ inbox' = Tail(inbox) /\ Call1.what = what
  BY DEF Serves
<1>2. Call1 = inbox[1] /\ 1 \in DOMAIN inbox
  BY <1>1 DEF VMTypes, Call1
<1>3. QED
  BY <1>1, <1>2 DEF VMTypes

\* What the VM serves is always one of the items, and whom one of the queries.
LEMMA VMTypesStep == TypeOK /\ [Next]_vars => VMTypes'
<1> SUFFICES ASSUME TypeOK, [Next]_vars PROVE VMTypes'
  OBVIOUS
<1>0. VMTypes
  BY DEF TypeOK
<1>1. CASE UNCHANGED <<inbox, serving>>
  BY <1>0, <1>1 DEF VMTypes
<1> DEFINE Kept ==
      \/ UNCHANGED inbox
      \/ \E item \in Items : Send(item) /\ (item.what \in {"infer", "tool"} => item.by \in Queries)
      \/ inbox # <<>> /\ inbox' = Tail(inbox)
<1>2. ASSUME Kept, serving' \in Queries \cup {NoQuery} PROVE VMTypes'
  BY <1>0, <1>2, InboxType DEF VMTypes
<1>3. serving \in Queries \cup {NoQuery}
  BY <1>0 DEF VMTypes
<1>4. ASSUME NEW q \in Queries, NEW h, Infer(q, h) PROVE Kept
  BY <1>4, InferSends
<1>5. CASE Define
  <2>1. Kept
    BY <1>5, ItemTypes DEF Define, Item
  <2>2. QED
    BY <1>2, <1>3, <1>5, <2>1 DEF Define
<1>6. CASE Delete
  <2>1. Kept
    BY <1>6, ItemTypes DEF Delete, Item
  <2>2. QED
    BY <1>2, <1>3, <1>6, <2>1 DEF Delete
<1>7. ASSUME NEW q \in Queries, Query(q) PROVE VMTypes'
  <2>1. Kept
    BY <1>4, <1>7 DEF Query
  <2>2. QED
    BY <1>2, <1>3, <1>7, <2>1 DEF Query
<1>8. ASSUME NEW q \in Queries, Take(q) \/ Ending(q) PROVE VMTypes'
  <2>1. ASSUME NEW h, Finish(q, h) PROVE Kept
    BY <1>4, <2>1 DEF Finish
  <2>2. Kept
    BY <1>8, <2>1 DEF Take, Ending, TakeText, TakeCalls, TakeFailure
  <2>3. QED
    BY <1>2, <1>3, <1>8, <2>2 DEF Take, Ending
<1>9. ASSUME NEW q \in Queries, StartTool(q) PROVE VMTypes'
  <2>1. Kept
    BY <1>9, ItemTypes DEF StartTool, Item
  <2>2. QED
    BY <1>2, <1>3, <1>9, <2>1 DEF StartTool
<1>10. ASSUME NEW what, Serves(what), serving' \in Queries \cup {NoQuery} PROVE VMTypes'
  <2>1. Kept
    BY <1>10 DEF Serves
  <2>2. QED
    BY <1>2, <1>10, <2>1
<1>11. CASE ServeDefine \/ ServeDelete \/ ServeTool
  BY <1>3, <1>10, <1>11 DEF ServeDefine, ServeDelete, ServeTool
<1>12. CASE ServeInfer
  <2>1. Serves("infer")
    BY <1>12 DEF ServeInfer
  <2>2. Call1.by \in Queries
    BY <1>0, <2>1, ServesType
  <2>3. serving' \in {serving, Call1.by}
    BY <1>12 DEF ServeInfer, InferOpenAI
  <2>4. QED
    BY <1>3, <1>10, <2>1, <2>2, <2>3
<1>13. CASE Generate \/ ReportError
  BY <1>2, <1>3, <1>13 DEF Generate, ReportError
<1>14. CASE (\E t \in Tools : AddTool(t)) \/ UNCHANGED vars
            \/ \E q \in Queries : Abandon(q) \/ BeginTools(q) \/ ToolsRefused(q) \/ ToolsReturn(q) \/ NextResult(q)
  BY <1>1, <1>14 DEF AddTool, vars, vmVars, Abandon, BeginTools, ToolsRefused, ToolsReturn, NextResult
<1>15. QED
  BY <1>5, <1>6, <1>7, <1>8, <1>9, <1>11, <1>12, <1>13, <1>14 DEF Next, VM, Responds

\* A delta joins a stream.
LEMMA PutType ==
    ASSUME TypeOK, NEW q, NEW ds \in Seq(Deltas), Put(q, ds)
    PROVE  stream' \in [Queries -> Seq(Deltas)]
<1>1. stream \in [Queries -> Seq(Deltas)]
  BY DEF TypeOK, QueryTypes
<1>2. CASE q \in Queries
  <2>1. stream[q] \in Seq(Deltas) /\ stream[q] \o ds \in Seq(Deltas)
    BY <1>1, <1>2
  <2>2. stream' \in {stream, [stream EXCEPT ![q] = stream[q] \o ds]}
    BY DEF Put
  <2>3. QED
    BY <1>1, <1>2, <2>1, <2>2
<1>3. CASE q \notin Queries
  <2>1. stream' \in {stream, [stream EXCEPT ![q] = stream[q] \o ds]}
    BY DEF Put
  <2>2. QED
    BY <1>1, <1>3, <2>1
<1>4. QED
  BY <1>2, <1>3

\* A query that is left has nothing any more.
LEMMA LeaveType ==
    ASSUME TypeOK, NEW q \in Queries, NEW how \in Places \ {"calling", "tools"}, Leave(q, how)
    PROVE  /\ pc' \in [Queries -> Places] /\ Asking'
           /\ asked' \in [Queries -> Seq(Names)]
           /\ stream' \in [Queries -> Seq(Deltas)]
<1>1. pc' = [pc EXCEPT ![q] = how] /\ asked' = [asked EXCEPT ![q] = <<>>] /\ stream' = [stream EXCEPT ![q] = <<>>]
  BY DEF Leave, Goto
<1>2. <<>> \in Seq(Names) /\ <<>> \in Seq(Deltas)
  OBVIOUS
<1>3. Asking'
  BY <1>1 DEF TypeOK, QueryTypes, Asking
<1>4. QED
  BY <1>1, <1>2, <1>3 DEF TypeOK, QueryTypes

\* So is what is left of it when the agent forgets.
LEMMA ForgetType == Forget => messages' \in Seq(Messages)
BY MessageTypes DEF Forget

\* What the next turn of query()'s loop changes.
LEMMA InferType ==
    ASSUME TypeOK, NEW q \in Queries, NEW h, Infer(q, h)
    PROVE  /\ pc' \in [Queries -> Places] /\ stream' \in [Queries -> Seq(Deltas)]
           /\ \A r \in Queries : pc'[r] \in {"calling", "tools"} => pc'[r] = pc[r]
<1>1. pc' = [pc EXCEPT ![q] = "stream"] /\ stream' = [stream EXCEPT ![q] = <<>>]
  BY DEF Infer, Goto
<1>2. <<>> \in Seq(Deltas) /\ "stream" \in Places
  BY DEF Places, Live
<1>3. QED
  BY <1>1, <1>2 DEF TypeOK, QueryTypes

\* Every step of a query, and of the VM for it, keeps the types of what it has.
LEMMA QueryTypesStep == TypeOK /\ [Next]_vars => QueryTypes'
<1> SUFFICES ASSUME TypeOK, [Next]_vars PROVE QueryTypes'
  OBVIOUS
<1>0. QueryTypes /\ VMTypes
  BY DEF TypeOK
<1>1. CASE UNCHANGED <<queryVars, messages, stream>>
  BY <1>0, <1>1 DEF QueryTypes, queryVars, Asking
<1>2. {"failed", "abandoned", "done", "stuck", "stream", "ending", "calling", "tools", "results"} \subseteq Places
  BY DEF Places, Live
<1>3. CASE Define
  <2>1. messages' \in Seq(Messages)
    BY <1>0, <1>3, MessageTypes DEF Define, QueryTypes, Asking
  <2>2. QED
    BY <1>0, <1>3, <2>1 DEF Define, QueryTypes, queryVars, Asking
<1>4. CASE Delete
  <2>1. messages' \in Seq(Messages)
    BY <1>0, <1>4, ForgetType DEF Delete, QueryTypes, Asking
  <2>2. QED
    BY <1>0, <1>4, <2>1 DEF Delete, QueryTypes, queryVars, Asking
<1>5. ASSUME NEW q \in Queries, Query(q) PROVE QueryTypes'
  <2>1. CASE valid
    <3>1. messages' \in Seq(Messages)
      <4>1. messages' = Append(messages, UserMessage)
        BY <1>5, <2>1 DEF Query
      <4>2. QED
        BY <1>0, <4>1, MessageTypes DEF QueryTypes, Asking
    <3>2. Infer(q, messages')
      BY <1>5, <2>1 DEF Query
    <3>3. /\ pc' \in [Queries -> Places] /\ stream' \in [Queries -> Seq(Deltas)]
          /\ \A r \in Queries : pc'[r] \in {"calling", "tools"} => pc'[r] = pc[r]
      BY <3>2, InferType
    <3>4. UNCHANGED asked
      BY <1>5 DEF Query
    <3>5. QED
      BY <1>0, <3>1, <3>3, <3>4 DEF QueryTypes, Asking
  <2>2. CASE ~valid
    BY <1>0, <1>2, <1>5, <2>2 DEF Query, QueryTypes, Goto, Asking
  <2>3. QED
    BY <2>1, <2>2
<1>6. ASSUME NEW q \in Queries, NEW how \in Places \ {"calling", "tools"}, Leave(q, how), UNCHANGED messages PROVE QueryTypes'
  BY <1>0, <1>6, LeaveType DEF QueryTypes, Asking
<1>7. ASSUME NEW q \in Queries, Abandon(q) PROVE QueryTypes'
  BY <1>2, <1>6, <1>7 DEF Abandon, agentVars
<1>8. ASSUME NEW q \in Queries, NEW h \in Seq(Messages), Finish(q, h) PROVE QueryTypes'
  <2>1. CASE q \in called
    <3>1. /\ pc' \in [Queries -> Places] /\ stream' \in [Queries -> Seq(Deltas)]
          /\ \A r \in Queries : pc'[r] \in {"calling", "tools"} => pc'[r] = pc[r]
      BY <1>8, <2>1, InferType DEF Finish
    <3>2. UNCHANGED asked /\ messages' = h
      BY <1>8, <2>1 DEF Finish
    <3>3. QED
      BY <1>0, <1>8, <3>1, <3>2 DEF QueryTypes, Asking
  <2>2. CASE q \notin called
    <3>1. Leave(q, "done")
      BY <1>8, <2>2 DEF Finish
    <3>2. "done" \in Places \ {"calling", "tools"} /\ messages' = h
      BY <1>2, <1>8 DEF Finish
    <3>3. QED
      BY <1>8, <3>1, <3>2, LeaveType DEF QueryTypes, Asking
  <2>3. QED
    BY <2>1, <2>2
<1>9. ASSUME NEW q \in Queries, Ending(q) PROVE QueryTypes'
  <2>1. Finish(q, Flushed(q)) /\ Flushed(q) \in Seq(Messages)
    BY <1>9, FlushedType DEF Ending
  <2>2. QED
    BY <1>8, <2>1 DEF Finish
<1>10. ASSUME NEW q \in Queries, Take(q) PROVE QueryTypes'
  <2> DEFINE d == Head(stream[q])
  <2>1. stream[q] \in Seq(Deltas) /\ stream[q] # <<>>
    BY <1>0, <1>10 DEF Take, QueryTypes, Asking
  <2>2. d \in Deltas /\ Tail(stream[q]) \in Seq(Deltas)
    BY <2>1
  <2>3. d.tools \in Seq(Names)
    BY <2>2 DEF Deltas
  <2>4. Flushed(q) \in Seq(Messages) /\ <<>> \in Seq(Names)
    BY FlushedType
  <2>5. CASE TakeText(q, d)
    BY <1>0, <1>2, <2>2, <2>5 DEF TakeText, QueryTypes, Goto, Asking
  <2>6. CASE TakeCalls(q, d)
    <3>1. CASE Malformed(d.tools)
      <4>1. messages' \in Seq(Messages)
        <5>1. messages' \in {messages, Append(Flushed(q), CallMessage(<<>>))}
          BY <2>6, <3>1 DEF TakeCalls
        <5>2. CallMessage(<<>>) \in Messages
          BY <2>4, MessageTypes
        <5>3. messages \in Seq(Messages)
          BY <1>0 DEF QueryTypes
        <5>4. QED
          BY <2>4, <5>1, <5>2, <5>3
      <4>2. Leave(q, "failed")
        BY <2>6, <3>1 DEF TakeCalls
      <4>3. "failed" \in Places \ {"calling", "tools"}
        BY <1>2
      <4>4. QED
        BY <4>1, <4>2, <4>3, LeaveType DEF QueryTypes, Asking
    <3>2. CASE ~Malformed(d.tools)
      <4>1. messages' \in Seq(Messages)
        BY <2>3, <2>4, <2>6, <3>2, MessageTypes DEF TakeCalls
      <4>2. /\ asked' = [asked EXCEPT ![q] = d.tools]
            /\ stream' = [stream EXCEPT ![q] = Tail(@)]
            /\ pc' = [pc EXCEPT ![q] = "calling"]
        BY <2>6, <3>2 DEF TakeCalls, Goto
      <4>3. Asking'
        BY <1>0, <3>2, <4>2 DEF QueryTypes, Asking, Malformed
      <4>4. QED
        BY <1>0, <1>2, <2>2, <2>3, <4>1, <4>2, <4>3 DEF QueryTypes, Asking
    <3>3. QED
      BY <3>1, <3>2
  <2>7. CASE TakeFailure(q, d)
    BY <1>2, <1>6, <2>7 DEF TakeFailure
  <2>8. CASE Finish(q, messages)
    <3>1. messages \in Seq(Messages)
      BY <1>0 DEF QueryTypes, Asking
    <3>2. QED
      BY <1>8, <2>8, <3>1 DEF Finish
  <2>9. QED
    BY <1>10, <2>5, <2>6, <2>7, <2>8 DEF Take
<1>11. ASSUME NEW q \in Queries, BeginTools(q) PROVE QueryTypes'
  BY <1>0, <1>2, <1>11 DEF BeginTools, QueryTypes, Goto, agentVars, Asking
<1>12. ASSUME NEW q \in Queries, ToolThrows(q), UNCHANGED messages PROVE QueryTypes'
  <2>1. CASE Python
    BY <1>2, <1>6, <1>12, <2>1 DEF ToolThrows
  <2>2. CASE ~Python
    BY <1>0, <1>2, <1>12, <2>2 DEF ToolThrows, QueryTypes, Goto, Asking
  <2>3. QED
    BY <2>1, <2>2
<1>13. ASSUME NEW q \in Queries, StartTool(q) PROVE QueryTypes'
  <2>1. UNCHANGED messages
    BY <1>13 DEF StartTool, agentVars
  <2>2. CASE ToolThrows(q)
    BY <1>12, <2>1, <2>2
  <2>3. CASE Leave(q, "failed")
    BY <1>2, <1>6, <2>1, <2>3
  <2>4. CASE UNCHANGED <<pc, asked, stream>>
    BY <1>0, <2>1, <2>4 DEF QueryTypes, Asking
  <2>5. QED
    BY <1>13, <2>2, <2>3, <2>4 DEF StartTool
<1>14. ASSUME NEW q \in Queries, ToolsRefused(q) PROVE QueryTypes'
  BY <1>2, <1>6, <1>14 DEF ToolsRefused, agentVars
<1>15. ASSUME NEW q \in Queries, pc[q] = "results" \/ pc' # pc, pc' \in {pc, [pc EXCEPT ![q] = "stream"], [pc EXCEPT ![q] = "results"]}, UNCHANGED stream,
               \/ UNCHANGED <<messages, asked>>
               \/ /\ asked[q] # <<>>
                  /\ messages' = Append(messages, Result(Head(asked[q])))
                  /\ asked' = [asked EXCEPT ![q] = Tail(@)]
       PROVE  QueryTypes'
  <2>1. pc' \in [Queries -> Places]
    BY <1>0, <1>2, <1>15 DEF QueryTypes, Asking
  <2>2. asked[q] \in Seq(Names)
    BY <1>0 DEF QueryTypes, Asking
  <2>3. CASE UNCHANGED <<messages, asked>>
    BY <1>0, <1>15, <2>1, <2>3 DEF QueryTypes, Asking
  <2>4. CASE /\ asked[q] # <<>>
             /\ messages' = Append(messages, Result(Head(asked[q])))
             /\ asked' = [asked EXCEPT ![q] = Tail(@)]
    <3>1. Head(asked[q]) \in Names /\ Tail(asked[q]) \in Seq(Names)
      BY <2>2, <2>4
    <3>2. messages' \in Seq(Messages)
      BY <1>0, <2>4, <3>1, MessageTypes DEF QueryTypes, Asking
    <3>3. QED
      BY <1>0, <1>15, <2>1, <2>4, <3>1, <3>2 DEF QueryTypes, Asking
  <2>5. QED
    BY <1>15, <2>3, <2>4
<1>16. ASSUME NEW q \in Queries, ToolsReturn(q) \/ NextResult(q) PROVE QueryTypes'
  <2>1. CASE ToolsReturn(q)
    <3>1. pc[q] = "tools" /\ pc' = [pc EXCEPT ![q] = "results"] /\ asked[q] # <<>>
      BY <1>0, <2>1 DEF ToolsReturn, Goto, QueryTypes, Asking
    <3>2. pc' # pc
      BY <1>0, <3>1 DEF QueryTypes, Asking
    <3>3. QED
      BY <1>15, <2>1, <3>1, <3>2 DEF ToolsReturn
  <2>2. CASE NextResult(q)
    BY <1>15, <2>2 DEF NextResult, Goto
  <2>3. QED
    BY <1>16, <2>1, <2>2
<1>17. CASE ServeDefine
  BY <1>1, <1>17 DEF ServeDefine
<1>18. CASE ServeDelete
  BY <1>0, <1>18, ForgetType DEF ServeDelete, QueryTypes, queryVars, Asking
<1>19. CASE ServeTool
  <2>1. Call1.by \in Queries
    BY <1>0, <1>19, ServesType DEF ServeTool
  <2>2. CASE ToolThrows(Call1.by)
    BY <1>12, <1>19, <2>1, <2>2 DEF ServeTool
  <2>3. CASE UNCHANGED <<pc, asked, stream>>
    BY <1>0, <1>19, <2>3 DEF QueryTypes, ServeTool, Asking
  <2>4. QED
    BY <1>19, <2>2, <2>3 DEF ServeTool
<1>20. ASSUME NEW q, NEW ds \in Seq(Deltas), Put(q, ds), UNCHANGED <<queryVars, messages>> PROVE QueryTypes'
  BY <1>0, <1>20, PutType DEF QueryTypes, queryVars, Asking
<1>21. CASE ServeInfer
  <2>1. UNCHANGED <<queryVars, messages>>
    BY <1>21 DEF ServeInfer
  <2>2. <<Failure>> \in Seq(Deltas)
    BY DeltaTypes
  <2>3. ASSUME NEW ds \in OpenAIAnswers PROVE ds \in Seq(Deltas)
    <3>1. CASE \E f \in {"stop", "length"} : ds = <<[kind |-> "text", tools |-> <<>>, finish |-> f], Over>>
      BY <3>1, DeltaTypes DEF Reasons
    <3>2. CASE \E c \in Calls : ds = <<ToolCalls(c), Over>>
      BY <3>2, DeltaTypes
    <3>3. QED
      BY <2>3, <3>1, <3>2 DEF OpenAIAnswers
  <2>4. CASE UNCHANGED stream
    BY <1>1, <2>1, <2>4
  <2>5. CASE \E ds \in Seq(Deltas) : Put(Call1.by, ds)
    BY <1>20, <2>1, <2>5
  <2>6. QED
    BY <1>21, <2>2, <2>3, <2>4, <2>5 DEF ServeInfer, InferOpenAI
<1>22. CASE Generate
  <2>1. PICK c \in Marks \cup Words \cup Calls, f \in Reasons \cup {"none"} :
             Put(serving, IF Ends(Delta(c, f)) THEN Append(Delta(c, f), Over) ELSE Delta(c, f))
    BY <1>22 DEF Generate
  <2>2. Delta(c, f) \in Seq(Deltas)
    BY DeltaType
  <2>3. Append(Delta(c, f), Over) \in Seq(Deltas)
    BY <2>2, DeltaTypes
  <2>4. QED
    BY <1>20, <1>22, <2>1, <2>2, <2>3 DEF Generate, agentVars
<1>23. CASE ReportError
  <2>1. <<Failure>> \in Seq(Deltas)
    BY DeltaTypes
  <2>2. QED
    BY <1>20, <1>23, <2>1 DEF ReportError, agentVars
<1>24. CASE (\E t \in Tools : AddTool(t)) \/ UNCHANGED vars
  BY <1>1, <1>24 DEF AddTool, vars, agentVars
<1>25. QED
  BY <1>3, <1>4, <1>5, <1>7, <1>9, <1>10, <1>11, <1>13, <1>14, <1>16, <1>17, <1>18, <1>19,
     <1>21, <1>22, <1>23, <1>24 DEF Next, VM, Responds

\* Every list, stream and queue of the agent holds what it is made for: what a
\* query takes is a delta, and the history a sequence of messages.
THEOREM AgentTypes == Spec => []TypeOK
<1>1. Init => TypeOK
  <2> SUFFICES ASSUME Init PROVE TypeOK
    OBVIOUS
  <2>1. /\ <<>> \in Seq(Names) /\ <<>> \in Seq(Deltas) /\ <<>> \in Seq(Messages) /\ <<>> \in Seq(Items)
        /\ <<>> \in Seq(Pieces0)
    OBVIOUS
  <2>2. QueryTypes
    BY <2>1 DEF Init, QueryTypes, Places, Asking
  <2>3. VMTypes
    BY <2>1 DEF Init, VMTypes
  <2>4. TextTypes
    BY <2>1 DEF Init, ModelInit, TextTypes
  <2>5. QED
    BY <2>2, <2>3, <2>4 DEF TypeOK
<1>2. TypeOK /\ [Next]_vars => TypeOK'
  BY TextTypesStep, VMTypesStep, QueryTypesStep DEF TypeOK
<1>3. QED
  BY <1>1, <1>2, PTL DEF Spec

-----------------------------------------------------------------------------
(* The component follows the agent.                                        *)

\* An item comes behind those that are there.
LEMMA InboxAppend ==
    ASSUME NEW old \in Seq(Items), NEW item \in Items, NEW i \in DOMAIN Append(old, item)
    PROVE  (i \in DOMAIN old /\ Append(old, item)[i] = old[i]) \/ (i = Len(old) + 1 /\ Append(old, item)[i] = item)
<1>1. i \in 1 .. Len(old) + 1 /\ Len(old) \in Nat /\ DOMAIN old = 1 .. Len(old)
  BY AppendAt
<1>2. CASE i \in 1 .. Len(old)
  BY <1>1, <1>2, AppendAt
<1>3. CASE i = Len(old) + 1
  BY <1>3, AppendAt
<1>4. QED
  BY <1>1, <1>2, <1>3

\* One infer or tool call more, one call less, or none: the inbox in a step that
\* is none of the user's own calls.
Quietly ==
    \/ UNCHANGED inbox
    \/ \E item \in Items : item.what \notin UserCalls /\ Send(item)
    \/ inbox # <<>> /\ inbox' = Tail(inbox)

\* The user's calls in the inbox stay as they are.
LEMMA QuietInbox ==
    ASSUME VMTypes, Quietly
    PROVE  \E d \in {0, 1} :
              \A i \in DOMAIN inbox' :
                  inbox'[i].what \in UserCalls => i + d \in DOMAIN inbox /\ inbox'[i] = inbox[i + d]
<1> DEFINE Shift(d) ==
      \A i \in DOMAIN inbox' :
          inbox'[i].what \in UserCalls => i + d \in DOMAIN inbox /\ inbox'[i] = inbox[i + d]
<1>1. CASE UNCHANGED inbox
  <2>1. Shift(0)
    BY <1>1 DEF VMTypes
  <2>2. QED
    BY <2>1
<1>2. ASSUME NEW item \in Items, item.what \notin UserCalls, Send(item) PROVE Shift(0)
  BY <1>2 DEF VMTypes, Send
<1>3. CASE inbox # <<>> /\ inbox' = Tail(inbox)
  <2>1. Shift(1)
    BY <1>3 DEF VMTypes
  <2>2. QED
    BY <2>1
<1>. HIDE DEF Shift
<1>4. Shift(0) \/ Shift(1)
  BY <1>1, <1>2, <1>3 DEF Quietly, Shift, VMTypes
<1>5. QED
  BY <1>4 DEF Shift

\* A step that sends no define or delete, and completes none, changes nothing of this.
LEMMA QuietStep ==
    ASSUME TypeOK, UserInv, Quietly, UNCHANGED <<user, valid, defined, scenario>>
    PROVE  UserInv'
<1>0. VMTypes
  BY DEF TypeOK
<1>1. PICK d \in {0, 1} :
        \A i \in DOMAIN inbox' :
            inbox'[i].what \in UserCalls => i + d \in DOMAIN inbox /\ inbox'[i] = inbox[i + d]
  BY <1>0, QuietInbox
<1>2. ASSUME NEW i \in DOMAIN inbox' PROVE i \in Int
  BY <1>0, InboxType DEF Quietly, Send, VMTypes
<1>3. \A i \in DOMAIN inbox' :
        /\ inbox'[i].what = "define" => user = "defining"
        /\ inbox'[i].what = "delete" => user = "deleting"
  BY <1>1 DEF UserInv, UserCalls
<1>4. \A i, j \in DOMAIN inbox' :
        inbox'[i].what \in UserCalls /\ inbox'[j].what \in UserCalls => i = j
  <2> SUFFICES ASSUME NEW i \in DOMAIN inbox', NEW j \in DOMAIN inbox',
                      inbox'[i].what \in UserCalls, inbox'[j].what \in UserCalls
               PROVE  i = j
    OBVIOUS
  <2>1. /\ i + d \in DOMAIN inbox /\ inbox'[i] = inbox[i + d]
        /\ j + d \in DOMAIN inbox /\ inbox'[j] = inbox[j + d]
    BY <1>1
  <2>2. i + d = j + d
    BY <2>1 DEF UserInv
  <2>3. i \in Int /\ j \in Int /\ d \in Int
    BY <1>2
  <2>4. \A x, y, z \in Int : x + z = y + z => x = y
    OBVIOUS
  <2>5. QED
    BY <2>2, <2>3, <2>4
<1>5. QED
  BY <1>3, <1>4 DEF UserInv, Python

\* When the user's call is served, none is left.
LEMMA ServedInbox ==
    ASSUME TypeOK, UserInv, NEW what \in UserCalls, Serves(what)
    PROVE  /\ \A i \in DOMAIN inbox' : inbox'[i].what \notin UserCalls
           /\ what = "define" => user = "defining"
           /\ what = "delete" => user = "deleting"
<1>1. /\ inbox # <<>> /\ inbox' = Tail(inbox) /\ inbox \in Seq(Items)
      /\ 1 \in DOMAIN inbox /\ inbox[1].what = what
  BY ServesType DEF TypeOK, VMTypes, Serves
<1>2. ASSUME NEW i \in DOMAIN inbox' PROVE i + 1 \in DOMAIN inbox /\ i + 1 # 1 /\ inbox'[i] = inbox[i + 1]
  BY <1>1
<1>3. \A i \in DOMAIN inbox' : inbox'[i].what \notin UserCalls
  BY <1>1, <1>2 DEF UserInv
<1>4. QED
  BY <1>1, <1>3 DEF UserInv, UserCalls

\* A turn of a query leaves the user's calls alone.
LEMMA InferQuietly == ASSUME NEW q \in Queries, NEW h, Infer(q, h) PROVE Quietly
BY InferSends DEF Quietly, UserCalls

\* define() and delete() send the one call the user waits for; the VM serves it.
LEMMA UserInvStep == TypeOK /\ UserInv /\ [Next]_vars => UserInv'
<1> SUFFICES ASSUME TypeOK, UserInv, [Next]_vars PROVE UserInv'
  OBVIOUS
<1>0. VMTypes
  BY DEF TypeOK
<1>1. CASE Define
  <2>1. /\ inbox \in Seq(Items) /\ Item("define", NoQuery, TRUE, FALSE) \in Items
      /\ inbox' = Append(inbox, Item("define", NoQuery, TRUE, FALSE))
    BY <1>0, <1>1, ItemTypes DEF Define, Send, VMTypes
  <2>2. \A i \in DOMAIN inbox : inbox[i].what \notin UserCalls
    BY <1>1 DEF Define, UserInv, UserCalls
  <2>3. \A i \in DOMAIN inbox' : (i \in DOMAIN inbox /\ inbox'[i] = inbox[i]) \/ i = Len(inbox) + 1
    BY <2>1, InboxAppend
  <2>4. inbox'[Len(inbox) + 1].what = "define"
    BY <2>1 DEF Item
  <2>5. /\ \A i, j \in DOMAIN inbox' : inbox'[i].what \in UserCalls /\ inbox'[j].what \in UserCalls => i = j
        /\ \A i \in DOMAIN inbox' : inbox'[i].what # "delete"
    BY <2>2, <2>3, <2>4 DEF UserCalls
  <2>6. UNCHANGED <<valid, defined, scenario>> /\ user = "free" /\ user' = "defining" /\ ~valid
    BY <1>1 DEF Define
  <2>7. QED
    BY <2>5, <2>6 DEF UserInv, Python
<1>2. CASE Delete
  <2>1. CASE Python
    <3>1. /\ inbox \in Seq(Items) /\ Item("delete", NoQuery, TRUE, FALSE) \in Items
        /\ inbox' = Append(inbox, Item("delete", NoQuery, TRUE, FALSE))
      BY <1>0, <1>2, <2>1, ItemTypes DEF Delete, Send, VMTypes
    <3>2. \A i \in DOMAIN inbox : inbox[i].what \notin UserCalls
      BY <1>2 DEF Delete, UserInv, UserCalls
    <3>3. \A i \in DOMAIN inbox' : (i \in DOMAIN inbox /\ inbox'[i] = inbox[i]) \/ i = Len(inbox) + 1
      BY <3>1, InboxAppend
    <3>4. inbox'[Len(inbox) + 1].what = "delete"
      BY <3>1 DEF Item
    <3>5. /\ \A i, j \in DOMAIN inbox' : inbox'[i].what \in UserCalls /\ inbox'[j].what \in UserCalls => i = j
          /\ \A i \in DOMAIN inbox' : inbox'[i].what # "define"
      BY <3>2, <3>3, <3>4 DEF UserCalls
    <3>6. UNCHANGED <<valid, defined, scenario>> /\ user = "free" /\ user' = "deleting" /\ valid
      BY <1>2, <2>1 DEF Delete
    <3>7. QED
      BY <2>1, <3>5, <3>6 DEF UserInv, Python
  <2>2. CASE ~Python
    BY <1>2, <2>2 DEF Delete, Forget, UserInv, Python
  <2>3. QED
    BY <2>1, <2>2
<1>3. CASE ServeDefine
  <2>1. /\ \A i \in DOMAIN inbox' : inbox'[i].what \notin UserCalls
        /\ user = "defining"
    BY <1>3, ServedInbox DEF ServeDefine, UserCalls
  <2>2. user' = "free" /\ scenario' = scenario
        /\ ((valid' /\ defined') \/ UNCHANGED <<valid, defined>>)
    BY <1>3 DEF ServeDefine, Serves
  <2>3. QED
    BY <2>1, <2>2 DEF UserInv, Python, UserCalls
<1>4. CASE ServeDelete
  <2>1. \A i \in DOMAIN inbox' : inbox'[i].what \notin UserCalls
    BY <1>4, ServedInbox DEF ServeDelete, UserCalls
  <2>2. user' = "free" /\ scenario' = scenario /\ ~valid' /\ ~defined'
    BY <1>4 DEF ServeDelete, Serves, Forget
  <2>3. QED
    BY <2>1, <2>2 DEF UserInv, Python, UserCalls
<1>5. ASSUME NEW q \in Queries, Query(q) PROVE UserInv'
  <2>1. Quietly
    BY <1>5, InferQuietly DEF Query, Quietly
  <2>2. QED
    BY <1>5, <2>1, QuietStep DEF Query
<1>6. ASSUME NEW q \in Queries, Take(q) \/ Ending(q) PROVE UserInv'
  <2>1. ASSUME NEW h, Finish(q, h) PROVE Quietly
    BY <2>1, InferQuietly DEF Finish, Quietly
  <2>2. Quietly
    BY <1>6, <2>1 DEF Take, Ending, TakeText, TakeCalls, TakeFailure, Quietly
  <2>3. QED
    BY <1>6, <2>2, QuietStep DEF Take, Ending
<1>7. ASSUME NEW q \in Queries, StartTool(q) PROVE UserInv'
  <2>1. Item("tool", q, TRUE, FALSE) \in Items /\ Item("tool", q, TRUE, FALSE).what \notin UserCalls
    BY ItemTypes DEF Item, UserCalls
  <2>2. UNCHANGED inbox \/ Send(Item("tool", q, TRUE, FALSE))
    BY <1>7 DEF StartTool
  <2>3. Quietly
    BY <2>1, <2>2 DEF Quietly
  <2>4. QED
    BY <1>7, <2>3, QuietStep DEF StartTool, agentVars
<1>8. ASSUME NEW what, Serves(what), UNCHANGED <<user, valid, defined>> PROVE UserInv'
  <2>1. Quietly /\ scenario' = scenario
    BY <1>8 DEF Serves, Quietly
  <2>2. QED
    BY <1>8, <2>1, QuietStep
<1>9. CASE ServeTool \/ ServeInfer
  BY <1>8, <1>9 DEF ServeTool, ServeInfer
<1>10. CASE \/ (\E t \in Tools : AddTool(t)) \/ UNCHANGED vars \/ Generate \/ ReportError
            \/ \E q \in Queries : Abandon(q) \/ BeginTools(q) \/ ToolsRefused(q) \/ ToolsReturn(q) \/ NextResult(q)
  <2>1. UNCHANGED <<user, valid, defined, scenario, inbox>>
    BY <1>10 DEF AddTool, vars, vmVars, agentVars, Generate, ReportError, Abandon, BeginTools, ToolsRefused,
       ToolsReturn, NextResult
  <2>2. Quietly
    BY <2>1 DEF Quietly
  <2>3. QED
    BY <2>1, <2>2, QuietStep
<1>11. QED
  BY <1>1, <1>2, <1>3, <1>4, <1>5, <1>6, <1>7, <1>9, <1>10 DEF Next, VM, Responds

\* What the agent and its component agree on at every step.
LEMMA UserInvariant == Spec => []UserInv
<1>1. Init => UserInv
  BY DEF Init, UserInv, Python
<1>2. QED
  BY <1>1, UserInvStep, AgentTypes, PTL DEF Spec

\* agent.py, agent.ts: a valid agent has its component, and delete() of agent.py
\* gives it back, for any number of queries in between.
THEOREM AgentKeepsComponent == Spec => []ComponentFollowsAgent
<1>1. UserInv => ComponentFollowsAgent
  BY DEF UserInv, ComponentFollowsAgent
<1>2. QED
  BY <1>1, UserInvariant, PTL

-----------------------------------------------------------------------------
(* Histories.                                                              *)

\* A history in which nothing has been called is sound.
LEMMA SoundStart == Sound(<<>>) /\ Sound(<<System>>)
<1>1. Sound(<<>>)
  BY DEF Sound
<1>2. DOMAIN <<System>> = {1} /\ <<System>>[1].kind = "system"
  BY DEF System
<1>3. QED
  BY <1>1, <1>2 DEF Sound

\* A message that is no part of a tool call does no harm to a sound history.
LEMMA SoundPlain ==
    ASSUME NEW h \in Seq(Messages), Sound(h), NEW m \in Messages, m.kind \notin {"calls", "result"}
    PROVE  Sound(Append(h, m))
<1> DEFINE g == Append(h, m)
<1>1. /\ DOMAIN h = 1 .. Len(h) /\ DOMAIN g = 1 .. Len(h) + 1 /\ Len(h) \in Nat
      /\ g[Len(h) + 1] = m /\ \A i \in 1 .. Len(h) : g[i] = h[i]
  BY AppendAt
<1>. HIDE DEF g
<1>2. ASSUME NEW i \in DOMAIN g, g[i].kind = "calls", NEW j \in DOMAIN g[i].tools
      PROVE  i + j \in DOMAIN g /\ g[i + j] = Result(g[i].tools[j])
  <2>1. i \in DOMAIN h /\ g[i] = h[i]
    BY <1>1, <1>2
  <2>2. i + j \in DOMAIN h /\ h[i + j] = Result(h[i].tools[j])
    BY <1>2, <2>1 DEF Sound
  <2>3. QED
    BY <1>1, <2>1, <2>2
<1>3. ASSUME NEW i \in DOMAIN g, g[i].kind = "result"
      PROVE  \E j \in 1 .. i - 1 :
               /\ g[j].kind = "calls" /\ i - j \in DOMAIN g[j].tools
               /\ g[i] = Result(g[j].tools[i - j])
  <2>1. i \in DOMAIN h /\ g[i] = h[i]
    BY <1>1, <1>3
  <2>2. PICK j \in 1 .. i - 1 :
               /\ h[j].kind = "calls" /\ i - j \in DOMAIN h[j].tools
               /\ h[i] = Result(h[j].tools[i - j])
    BY <1>3, <2>1 DEF Sound
  <2>3. g[j] = h[j]
    BY <1>1, <2>1
  <2>4. QED
    BY <2>1, <2>2, <2>3
<1>4. Sound(g)
  BY <1>2, <1>3 DEF Sound
<1>5. QED
  BY <1>4 DEF g

\* A call and all of its results make a sound history longer.
LEMMA SoundCall ==
    ASSUME NEW h \in Seq(Messages), Sound(h), NEW ts \in Seq(Names)
    PROVE  Sound(Append(h, CallMessage(ts)) \o Results(ts))
<1> DEFINE g == Append(h, CallMessage(ts)) \o Results(ts)
           n == Len(h) + 1
<1>1. /\ Append(h, CallMessage(ts)) \in Seq(Messages) /\ Len(Append(h, CallMessage(ts))) = n
      /\ Append(h, CallMessage(ts))[n] = CallMessage(ts)
      /\ \A i \in 1 .. Len(h) : Append(h, CallMessage(ts))[i] = h[i]
  BY AppendAt, MessageTypes
<1>2. /\ Results(ts) \in Seq(Messages) /\ Len(Results(ts)) = Len(ts)
      /\ \A j \in 1 .. Len(ts) : Results(ts)[j] = Result(ts[j])
  <2>1. \A j \in 1 .. Len(ts) : Result(ts[j]) \in Messages
    BY MessageTypes
  <2>2. QED
    BY <2>1 DEF Results
<1>3. /\ DOMAIN g = 1 .. n + Len(ts) /\ g[n] = CallMessage(ts)
      /\ \A i \in 1 .. Len(h) : g[i] = h[i]
  BY <1>1, <1>2
<1>4. \A j \in 1 .. Len(ts) : g[n + j] = Result(ts[j])
  BY <1>1, <1>2
<1>5. DOMAIN h = 1 .. Len(h) /\ Len(h) \in Nat /\ n \in Nat /\ n = Len(h) + 1 /\ Len(ts) \in Nat /\ DOMAIN ts = 1 .. Len(ts)
  OBVIOUS
<1>. HIDE DEF g, n
<1>6. /\ CallMessage(ts).kind = "calls" /\ CallMessage(ts).tools = ts
      /\ \A t : Result(t).kind = "result"
  BY DEF CallMessage, Result
<1>7. ASSUME NEW i \in DOMAIN g
      PROVE  \/ i \in DOMAIN h
             \/ i = n
             \/ i - n \in 1 .. Len(ts) /\ i = n + (i - n) /\ i > n
  BY <1>3, <1>5
<1>8. ASSUME NEW i \in DOMAIN g, g[i].kind = "calls", NEW j \in DOMAIN g[i].tools
      PROVE  i + j \in DOMAIN g /\ g[i + j] = Result(g[i].tools[j])
  <2>1. CASE i \in DOMAIN h
    <3>1. g[i] = h[i]
      BY <1>3, <1>5, <2>1
    <3>2. i + j \in DOMAIN h /\ h[i + j] = Result(h[i].tools[j])
      BY <1>8, <2>1, <3>1 DEF Sound
    <3>3. QED
      BY <1>3, <1>5, <3>1, <3>2
  <2>2. CASE i = n
    <3>1. j \in 1 .. Len(ts) /\ g[i].tools = ts
      BY <1>3, <1>5, <1>6, <1>8, <2>2
    <3>2. g[n + j] = Result(ts[j])
      BY <1>4, <3>1
    <3>4. n + j \in 1 .. n + Len(ts)
      <4>1. \A x, y \in Nat : \A z \in 1 .. y : x + z \in 1 .. x + y
        OBVIOUS
      <4>2. QED
        BY <1>5, <3>1, <4>1
    <3>3. QED
      BY <1>3, <2>2, <3>1, <3>2, <3>4
  <2>3. CASE i - n \in 1 .. Len(ts) /\ i = n + (i - n)
    <3>1. g[i] = Result(ts[i - n])
      BY <1>4, <2>3
    <3>2. QED
      BY <1>6, <1>8, <3>1
  <2>4. QED
    BY <1>7, <2>1, <2>2, <2>3
<1>9. ASSUME NEW i \in DOMAIN g, g[i].kind = "result"
      PROVE  \E j \in 1 .. i - 1 :
               /\ g[j].kind = "calls" /\ i - j \in DOMAIN g[j].tools
               /\ g[i] = Result(g[j].tools[i - j])
  <2>1. CASE i \in DOMAIN h
    <3>1. g[i] = h[i]
      BY <1>3, <1>5, <2>1
    <3>2. PICK j \in 1 .. i - 1 :
               /\ h[j].kind = "calls" /\ i - j \in DOMAIN h[j].tools
               /\ h[i] = Result(h[j].tools[i - j])
      BY <1>9, <2>1, <3>1 DEF Sound
    <3>3. g[j] = h[j]
      BY <1>3, <1>5, <2>1
    <3>4. QED
      BY <3>1, <3>2, <3>3
  <2>2. CASE i = n
    BY <1>3, <1>6, <1>9, <2>2
  <2>3. CASE i - n \in 1 .. Len(ts) /\ i = n + (i - n) /\ i > n
    <3>1. g[i] = Result(ts[i - n])
      BY <1>4, <2>3
    <3>2. n \in 1 .. i - 1
      BY <1>3, <1>5, <2>3
    <3>3. g[n].kind = "calls" /\ g[n].tools = ts /\ i - n \in DOMAIN ts
      BY <1>3, <1>5, <1>6, <2>3
    <3>4. QED
      BY <3>1, <3>2, <3>3
  <2>4. QED
    BY <1>7, <2>1, <2>2, <2>3
<1>10. Sound(g)
  BY <1>8, <1>9 DEF Sound
<1>11. QED
  BY <1>10 DEF g

\* A result that is there is none that is to come.
LEMMA ResultsMove ==
    ASSUME NEW h \in Seq(Messages), NEW ts \in Seq(Names), ts # <<>>
    PROVE  Append(h, Result(Head(ts))) \o Results(Tail(ts)) = h \o Results(ts)
<1> DEFINE a == Append(h, Result(Head(ts))) \o Results(Tail(ts))
           b == h \o Results(ts)
<1>1. /\ Len(ts) \in Nat \ {0} /\ Head(ts) = ts[1] /\ Tail(ts) \in Seq(Names) /\ Len(Tail(ts)) = Len(ts) - 1
      /\ \A j \in 1 .. Len(ts) - 1 : Tail(ts)[j] = ts[j + 1]
  OBVIOUS
<1>2. \A us \in Seq(Names) : /\ Results(us) \in Seq(Messages) /\ Len(Results(us)) = Len(us)
                             /\ \A j \in 1 .. Len(us) : Results(us)[j] = Result(us[j])
  <2>1. ASSUME NEW us \in Seq(Names)
        PROVE  /\ Results(us) \in Seq(Messages) /\ Len(Results(us)) = Len(us)
               /\ \A j \in 1 .. Len(us) : Results(us)[j] = Result(us[j])
    <3>1. \A j \in 1 .. Len(us) : Result(us[j]) \in Messages
      BY MessageTypes
    <3>2. QED
      BY <3>1 DEF Results
  <2>2. QED
    BY <2>1
<1>3. Head(ts) \in Names /\ Result(Head(ts)) \in Messages
  BY MessageTypes
<1>4. /\ Append(h, Result(Head(ts))) \in Seq(Messages)
      /\ Len(Append(h, Result(Head(ts)))) = Len(h) + 1
      /\ Append(h, Result(Head(ts)))[Len(h) + 1] = Result(ts[1])
      /\ \A i \in 1 .. Len(h) : Append(h, Result(Head(ts)))[i] = h[i]
  BY <1>1, <1>3, AppendAt
<1> DEFINE r == Results(Tail(ts))
<1>13. /\ r \in Seq(Messages) /\ Len(r) = Len(ts) - 1
       /\ \A j \in 1 .. Len(ts) - 1 : r[j] = Result(ts[j + 1])
  <2>1. /\ r \in Seq(Messages) /\ Len(r) = Len(Tail(ts))
        /\ \A j \in 1 .. Len(Tail(ts)) : r[j] = Result(Tail(ts)[j])
    BY <1>1, <1>2
  <2>2. QED
    BY <1>1, <2>1
<1> HIDE DEF r
<1>5. a \in Seq(Messages) /\ Len(a) = Len(h) + Len(ts)
  <2> DEFINE c == Append(h, Result(Head(ts)))
  <2>1. c \in Seq(Messages) /\ Len(c) = Len(h) + 1 /\ a = c \o r
    BY <1>4 DEF r
  <2> HIDE DEF c, a
  <2>2. a \in Seq(Messages) /\ Len(a) = Len(c) + Len(r)
    BY <1>13, <2>1, ConcatProperties
  <2>3. QED
    BY <1>1, <1>13, <2>1, <2>2
<1>6. b \in Seq(Messages) /\ Len(b) = Len(h) + Len(ts)
  BY <1>2
<1>7. \A i \in 1 .. Len(h) : a[i] = h[i] /\ b[i] = h[i]
  BY <1>1, <1>2, <1>4
<1>8. a[Len(h) + 1] = Result(ts[1]) /\ b[Len(h) + 1] = Result(ts[1])
  BY <1>1, <1>2, <1>4
<1>9. ASSUME NEW j \in 1 .. Len(ts) - 1
      PROVE  a[Len(h) + 1 + j] = Result(ts[j + 1]) /\ b[Len(h) + 1 + j] = Result(ts[j + 1])
  <2>1. a[Len(h) + 1 + j] = r[j]
    BY <1>1, <1>4, <1>13 DEF r
  <2>2. b[Len(h) + 1 + j] = Results(ts)[j + 1]
    BY <1>1, <1>2
  <2>3. Results(ts)[j + 1] = Result(ts[j + 1])
    BY <1>1, <1>2
  <2>4. QED
    BY <1>13, <2>1, <2>2, <2>3
<1>10. ASSUME NEW i \in 1 .. Len(h) + Len(ts)
       PROVE  a[i] = b[i]
  <2>1. CASE i \in 1 .. Len(h)
    BY <1>7, <2>1
  <2>2. CASE i = Len(h) + 1
    BY <1>8, <2>2
  <2>3. CASE i > Len(h) + 1
    <3>1. i - Len(h) - 1 \in 1 .. Len(ts) - 1 /\ i = Len(h) + 1 + (i - Len(h) - 1)
      BY <1>1, <2>3
    <3>2. QED
      BY <1>9, <3>1
  <2>4. i \in Int /\ Len(h) \in Nat /\ i >= 1
    OBVIOUS
  <2>5. i \in 1 .. Len(h) \/ i = Len(h) + 1 \/ i > Len(h) + 1
    BY <2>4
  <2>6. QED
    BY <2>1, <2>2, <2>3, <2>5
<1>. HIDE DEF a, b
<1>11. a = b
  BY <1>5, <1>6, <1>10, SeqEqual
<1>12. QED
  BY <1>11 DEF a, b

\* When all results are there, none is to come.
LEMMA NoResults == ASSUME NEW h \in Seq(Messages) PROVE h \o Results(<<>>) = h
<1>1. Results(<<>>) = <<>>
  BY DEF Results
<1>2. QED
  BY <1>1

\* A result is owed only where a call has been made.
LEMMA OwedByACall ==
    ASSUME NEW ts \in Seq(Names), ts # <<>>
    PROVE  ~Sound(<<>> \o Results(ts))
<1> DEFINE g == <<>> \o Results(ts)
<1>1. \A j \in 1 .. Len(ts) : Result(ts[j]) \in Messages
  BY MessageTypes
<1>2. Results(ts) \in Seq(Messages) /\ Len(Results(ts)) = Len(ts) /\ 1 \in 1 .. Len(ts)
  BY <1>1 DEF Results
<1>3. g = Results(ts)
  BY <1>2
<1>4. 1 \in DOMAIN g /\ g[1].kind = "result"
  BY <1>2, <1>3 DEF Results, Result
<1>. HIDE DEF g
<1>5. ~Sound(g)
  BY <1>4 DEF Sound
<1>6. QED
  BY <1>5 DEF g

-----------------------------------------------------------------------------
(* What a step does to the inbox and to the other queries.                 *)

\* The first call goes.
Goes == inbox # <<>> /\ inbox' = Tail(inbox)

\* An item of the inbox was there before, one place further if one has gone, or is new.
LEMMA InboxPoint ==
    ASSUME VMTypes, NEW i \in DOMAIN inbox'
    PROVE  /\ UNCHANGED inbox => i \in DOMAIN inbox /\ inbox'[i] = inbox[i]
           /\ \A item \in Items : Send(item) =>
                 \/ i \in DOMAIN inbox /\ inbox'[i] = inbox[i]
                 \/ i = Len(inbox) + 1 /\ inbox'[i] = item
           /\ Goes => i + 1 \in DOMAIN inbox /\ i + 1 > 1 /\ inbox'[i] = inbox[i + 1]
<1>0. inbox \in Seq(Items)
  BY DEF VMTypes
<1>1. UNCHANGED inbox => i \in DOMAIN inbox /\ inbox'[i] = inbox[i]
  OBVIOUS
<1>2. ASSUME NEW item \in Items, Send(item)
      PROVE  \/ i \in DOMAIN inbox /\ inbox'[i] = inbox[i]
             \/ i = Len(inbox) + 1 /\ inbox'[i] = item
  BY <1>0, <1>2, InboxAppend DEF Send
<1>3. ASSUME Goes PROVE i + 1 \in DOMAIN inbox /\ i + 1 > 1 /\ inbox'[i] = inbox[i + 1]
  BY <1>0, <1>3 DEF Goes
<1>4. QED
  BY <1>1, <1>2, <1>3

\* No step but a query's own makes it, and what it sends is its own.
Ordered ==
    /\ \A q \in Queries : pc'[q] = "none" => pc[q] = "none"
    /\ serving' \in {serving, NoQuery} \/ (Goes /\ serving' = Call1.by)
    /\ \/ UNCHANGED inbox
       \/ \E item \in Items : Send(item) /\ (item.by \in Queries => pc'[item.by] # "none")
       \/ Goes

\* A query that is not made yet has sent nothing, whatever the others do.
LEMMA FreshStep == TypeOK /\ FreshInv /\ Ordered => FreshInv'
<1> SUFFICES ASSUME TypeOK, FreshInv, Ordered, NEW q \in Queries, pc'[q] = "none"
             PROVE  Absent(q)'
  BY DEF FreshInv
<1>0. VMTypes /\ pc[q] = "none"
  BY DEF TypeOK, Ordered
<1>1. serving # q /\ \A i \in DOMAIN inbox : inbox[i].by # q
  BY <1>0 DEF FreshInv, Absent
<1>2. serving' # q
  <2>1. NoQuery # q
    BY AgentAssumption DEF Queries
  <2>2. Goes => 1 \in DOMAIN inbox /\ Call1 = inbox[1]
    BY <1>0 DEF Goes, VMTypes, Call1
  <2>3. QED
    BY <1>1, <2>1, <2>2 DEF Ordered
<1>3. ASSUME NEW i \in DOMAIN inbox' PROVE inbox'[i].by # q
  <2>1. CASE UNCHANGED inbox
    BY <1>1, <2>1
  <2>2. ASSUME NEW item \in Items, Send(item), item.by \in Queries => pc'[item.by] # "none"
        PROVE  inbox'[i].by # q
    BY <1>0, <1>1, <2>2, InboxPoint
  <2>3. CASE Goes
    BY <1>0, <1>1, <2>3, InboxPoint
  <2>4. QED
    BY <2>1, <2>2, <2>3 DEF Ordered
<1>4. QED
  BY <1>2, <1>3 DEF Absent

\* A query that waits behind a delete goes on waiting, and a new one begins to.
Patient(q) ==
    \/ pc[q] = "none" /\ pc'[q] = "stream" /\ stream'[q] = <<>>
    \/ /\ pc[q] \in Live
       /\ pc[q] = "stream" /\ stream[q] = <<>> /\ serving # q /\ (Goes => Call1.by # q) =>
             pc'[q] = "stream" /\ stream'[q] = <<>>

\* The user deletes nothing.
NoDelete ==
    UNCHANGED inbox \/ (\E item \in Items : item.what # "delete" /\ Send(item)) \/ Goes

\* Whoever waits behind a delete keeps waiting until it is served.
LEMMA BehindStep ==
    ASSUME TypeOK, FreshInv, BehindDelete, Ordered,
           NoDelete,
           \A q \in Queries : pc'[q] \in Live => Patient(q)
    PROVE  BehindDelete'
<1> SUFFICES ASSUME NEW i \in DOMAIN inbox', inbox'[i].what = "delete",
                    NEW q \in Queries, pc'[q] \in Live
             PROVE  Behind(q, i)'
  BY DEF BehindDelete
<1>0. VMTypes /\ inbox \in Seq(Items) /\ DOMAIN inbox = 1 .. Len(inbox)
  BY DEF TypeOK, VMTypes
<1>1. NoQuery # q
  BY AgentAssumption DEF Queries
<1>2. Goes => 1 \in DOMAIN inbox /\ Call1 = inbox[1]
  BY <1>0 DEF Goes, Call1
<1>3. Patient(q)
  OBVIOUS
<1>4. CASE Goes
  <2>1. i + 1 \in DOMAIN inbox /\ i + 1 > 1 /\ inbox[i + 1].what = "delete" /\ i \in Int
    BY <1>0, <1>4, InboxPoint, InboxType DEF VMTypes
  <2>2. ASSUME NEW j \in 1 .. i - 1
        PROVE  j + 1 \in DOMAIN inbox /\ inbox'[j] = inbox[j + 1] /\ j + 1 \in 1 .. (i + 1) - 1
    BY <1>0, <1>4, <2>1 DEF Goes
  <2>3. CASE pc[q] = "none"
    <3>1. Absent(q)
      BY <2>3 DEF FreshInv
    <3>2. serving' # q
      BY <1>1, <1>2, <1>4, <3>1 DEF Ordered, Absent
    <3>3. \A j \in 1 .. i - 1 : inbox'[j].by # q
      BY <2>2, <3>1 DEF Absent
    <3>4. QED
      BY <1>3, <2>3, <3>2, <3>3 DEF Behind, Patient, Live
  <2>4. CASE pc[q] \in Live
    <3>1. Behind(q, i + 1)
      BY <2>1, <2>4 DEF BehindDelete
    <3>2. \A j \in 1 .. i - 1 : inbox'[j].by # q
      BY <2>2, <3>1 DEF Behind
    <3>3. Call1.by # q
      <4>1. 1 \in 1 .. (i + 1) - 1
        BY <2>1
      <4>2. QED
        BY <1>2, <1>4, <3>1, <4>1 DEF Behind
    <3>4. serving' # q
      BY <1>1, <3>1, <3>3 DEF Ordered, Behind
    <3>5. pc'[q] = "stream" /\ stream'[q] = <<>>
      BY <1>3, <2>4, <3>1, <3>3 DEF Patient, Behind, Live
    <3>6. QED
      BY <3>2, <3>4, <3>5 DEF Behind
  <2>5. QED
    BY <1>3, <2>3, <2>4 DEF Patient
<1>5. CASE ~Goes
  <2>1. i \in DOMAIN inbox /\ inbox[i].what = "delete" /\ i \in Int
    <3>1. ASSUME NEW item \in Items, item.what # "delete", Send(item)
          PROVE  i \in DOMAIN inbox /\ inbox[i].what = "delete"
      BY <1>0, <3>1, InboxPoint
    <3>2. i \in DOMAIN inbox /\ inbox[i].what = "delete"
      BY <1>0, <1>5, <3>1, InboxPoint DEF NoDelete
    <3>3. QED
      BY <1>0, <3>2
  <2>2. ASSUME NEW j \in 1 .. i - 1
        PROVE  j \in DOMAIN inbox /\ inbox'[j] = inbox[j]
    <3>1. j \in 1 .. Len(inbox)
      BY <1>0, <2>1
    <3>2. ASSUME NEW item \in Items, Send(item) PROVE inbox'[j] = inbox[j]
      BY <1>0, <3>1, <3>2, AppendAt DEF Send
    <3>3. QED
      BY <1>0, <1>5, <3>1, <3>2 DEF Ordered
  <2>3. CASE pc[q] = "none"
    <3>1. Absent(q)
      BY <2>3 DEF FreshInv
    <3>2. serving' # q
      BY <1>1, <1>5, <3>1 DEF Ordered, Absent
    <3>3. \A j \in 1 .. i - 1 : inbox'[j].by # q
      BY <2>2, <3>1 DEF Absent
    <3>4. QED
      BY <1>3, <2>3, <3>2, <3>3 DEF Behind, Patient, Live
  <2>4. CASE pc[q] \in Live
    <3>1. Behind(q, i)
      BY <2>1, <2>4 DEF BehindDelete
    <3>2. \A j \in 1 .. i - 1 : inbox'[j].by # q
      BY <2>2, <3>1 DEF Behind
    <3>3. serving' # q
      BY <1>1, <1>5, <3>1 DEF Ordered, Behind
    <3>4. pc'[q] = "stream" /\ stream'[q] = <<>>
      BY <1>3, <1>5, <2>4, <3>1 DEF Patient, Behind, Live
    <3>5. QED
      BY <3>2, <3>3, <3>4 DEF Behind
  <2>5. QED
    BY <1>3, <2>3, <2>4 DEF Patient
<1>6. QED
  BY <1>4, <1>5

\* A query changes nothing of another one, and sends its own calls only.
Alone(q) ==
    /\ UNCHANGED <<serving, scenario>>
    /\ \A r \in Queries \ {q} : pc'[r] = pc[r] /\ stream'[r] = stream[r] /\ asked'[r] = asked[r]
    /\ pc'[q] # "none"
    /\ \/ UNCHANGED inbox
       \/ \E item \in Items :
            item.by = q /\ item.what \in {"infer", "tool"} /\ Send(item)

\* An inference sends one call, of the query itself.
LEMMA InferAlone ==
    ASSUME TypeOK, NEW q \in Queries, NEW h, Infer(q, h)
    PROVE  /\ pc' = [pc EXCEPT ![q] = "stream"] /\ stream' = [stream EXCEPT ![q] = <<>>]
           /\ pc'[q] = "stream" /\ stream'[q] = <<>>
           /\ \A r \in Queries \ {q} : pc'[r] = pc[r] /\ stream'[r] = stream[r]
           /\ \E item \in Items : /\ item.by = q /\ item.what = "infer" /\ item.sound = Sound(h)
                                 /\ Send(item)
<1>1. pc' = [pc EXCEPT ![q] = "stream"] /\ stream' = [stream EXCEPT ![q] = <<>>]
  BY DEF Infer, Goto
<1>2. /\ pc'[q] = "stream" /\ stream'[q] = <<>>
      /\ \A r \in Queries \ {q} : pc'[r] = pc[r] /\ stream'[r] = stream[r]
  BY <1>1 DEF TypeOK, QueryTypes
<1>3. QED
  BY <1>1, <1>2, InferSends

\* A query that is left leaves the others as they are.
LEMMA LeaveAlone ==
    ASSUME TypeOK, NEW q \in Queries, NEW how, Leave(q, how)
    PROVE  /\ pc'[q] = how /\ refused' = refused \ {q}
           /\ \A r \in Queries \ {q} : pc'[r] = pc[r] /\ stream'[r] = stream[r] /\ asked'[r] = asked[r]
BY DEF Leave, Goto, TypeOK, QueryTypes

\* So does one that goes on.
LEMMA GotoAlone ==
    ASSUME TypeOK, NEW q \in Queries, NEW l, Goto(q, l)
    PROVE  pc'[q] = l /\ \A r \in Queries \ {q} : pc'[r] = pc[r]
BY DEF Goto, TypeOK, QueryTypes

\* The first response asked for is of one query alone.
LEMMA QueryAlone == ASSUME TypeOK, NEW q \in Queries, Query(q) PROVE Alone(q)
<1>1. CASE valid
  <2>1. Infer(q, messages') /\ UNCHANGED <<asked, serving, scenario>>
    BY <1>1 DEF Query
  <2>2. QED
    BY <2>1, InferAlone DEF Alone
<1>2. CASE ~valid
  BY <1>2, GotoAlone DEF Query, Alone
<1>3. QED
  BY <1>1, <1>2

\* What follows the last delta is the query's own.
LEMMA FinishAlone ==
    ASSUME TypeOK, NEW q \in Queries, NEW h, Finish(q, h), UNCHANGED <<serving, scenario>>
    PROVE  Alone(q)
<1>1. CASE q \in called
  <2>1. Infer(q, h) /\ UNCHANGED asked
    BY <1>1 DEF Finish
  <2>2. QED
    BY <2>1, InferAlone DEF Alone
<1>2. CASE q \notin called
  <2>1. Leave(q, "done") /\ UNCHANGED inbox
    BY <1>2 DEF Finish
  <2>2. QED
    BY <2>1, LeaveAlone DEF Alone
<1>3. QED
  BY <1>1, <1>2

\* A tool that throws disturbs its query, and only that one.
LEMMA ThrowsAlone ==
    ASSUME TypeOK, NEW q \in Queries, ToolThrows(q), pc[q] # "none"
    PROVE  /\ pc'[q] # "none" /\ disturbed'
           /\ \A r \in Queries \ {q} : pc'[r] = pc[r] /\ stream'[r] = stream[r] /\ asked'[r] = asked[r]
<1>1. CASE Python
  BY <1>1, LeaveAlone DEF ToolThrows
<1>2. CASE ~Python
  BY <1>2, GotoAlone DEF ToolThrows
<1>3. QED
  BY <1>1, <1>2

\* Every step of a query touches that query alone.
LEMMA TurnAlone ==
    ASSUME TypeOK, NEW q \in Queries, Query(q) \/ Abandon(q) \/ Responds(q)
    PROVE  Alone(q)
<1>1. CASE Query(q)
  BY <1>1, QueryAlone
<1>2. CASE Abandon(q)
  BY <1>2, LeaveAlone DEF Abandon, vmVars, Alone
<1>3. CASE Take(q)
  <2> DEFINE d == Head(stream[q])
  <2>1. UNCHANGED <<serving, scenario>>
    BY <1>3 DEF Take
  <2>2. CASE TakeText(q, d)
    <3>1. /\ UNCHANGED <<asked, inbox>> /\ stream' = [stream EXCEPT ![q] = Tail(@)]
          /\ Goto(q, IF d.finish \in Reasons THEN "ending" ELSE "stream")
      BY <2>2 DEF TakeText
    <3>2. \A r \in Queries \ {q} : stream'[r] = stream[r]
      BY <3>1 DEF TypeOK, QueryTypes
    <3>3. QED
      BY <2>1, <3>1, <3>2, GotoAlone DEF Alone
  <2>3. CASE TakeCalls(q, d) /\ Malformed(d.tools)
    BY <2>1, <2>3, LeaveAlone DEF TakeCalls, Alone
  <2>4. CASE TakeCalls(q, d) /\ ~Malformed(d.tools)
    <3>1. /\ UNCHANGED inbox /\ stream' = [stream EXCEPT ![q] = Tail(@)]
          /\ asked' = [asked EXCEPT ![q] = d.tools] /\ Goto(q, "calling")
      BY <2>4 DEF TakeCalls
    <3>2. \A r \in Queries \ {q} : stream'[r] = stream[r] /\ asked'[r] = asked[r]
      BY <3>1 DEF TypeOK, QueryTypes
    <3>3. QED
      BY <2>1, <3>1, <3>2, GotoAlone DEF Alone
  <2>5. CASE TakeFailure(q, d)
    BY <2>1, <2>5, LeaveAlone DEF TakeFailure, Alone
  <2>6. CASE Finish(q, messages)
    BY <2>1, <2>6, FinishAlone
  <2>7. QED
    BY <1>3, <2>2, <2>3, <2>4, <2>5, <2>6 DEF Take
<1>4. CASE Ending(q)
  BY <1>4, FinishAlone DEF Ending
<1>5. CASE BeginTools(q)
  BY <1>5, GotoAlone DEF BeginTools, vmVars, Alone
<1>6. CASE StartTool(q)
  <2>1. UNCHANGED <<serving, scenario>> /\ pc[q] = "tools"
    BY <1>6 DEF StartTool
  <2>2. UNCHANGED inbox \/ Send(Item("tool", q, TRUE, FALSE))
    BY <1>6 DEF StartTool
  <2>3. /\ Item("tool", q, TRUE, FALSE) \in Items /\ Item("tool", q, TRUE, FALSE).by = q
        /\ Item("tool", q, TRUE, FALSE).what = "tool"
    BY ItemTypes DEF Item
  <2>4. /\ \A r \in Queries \ {q} : pc'[r] = pc[r] /\ stream'[r] = stream[r] /\ asked'[r] = asked[r]
        /\ pc'[q] # "none"
    <3>1. CASE ToolThrows(q)
      BY <2>1, <3>1, ThrowsAlone
    <3>2. CASE Leave(q, "failed")
      BY <3>2, LeaveAlone
    <3>3. CASE UNCHANGED <<pc, asked, stream>>
      BY <2>1, <3>3
    <3>4. QED
      BY <1>6, <3>1, <3>2, <3>3 DEF StartTool
  <2>5. QED
    BY <2>1, <2>2, <2>3, <2>4 DEF Alone
<1>7. CASE ToolsRefused(q)
  BY <1>7, LeaveAlone DEF ToolsRefused, vmVars, Alone
<1>8. CASE ToolsReturn(q) \/ NextResult(q)
  <2>1. UNCHANGED <<inbox, serving, scenario, stream>>
    BY <1>8 DEF ToolsReturn, NextResult, vmVars
  <2>2. asked' \in {asked, [asked EXCEPT ![q] = Tail(@)]}
    BY <1>8 DEF ToolsReturn, NextResult
  <2>3. \A r \in Queries \ {q} : asked'[r] = asked[r]
    BY <2>2 DEF TypeOK, QueryTypes
  <2>4. pc'[q] # "none" /\ \A r \in Queries \ {q} : pc'[r] = pc[r]
    BY <1>8, GotoAlone DEF ToolsReturn, NextResult
  <2>5. QED
    BY <2>1, <2>3, <2>4 DEF Alone
<1>9. QED
  BY <1>1, <1>2, <1>3, <1>4, <1>5, <1>6, <1>7, <1>8 DEF Responds

\* Of the one call that a query has sent last, its place is known.
LEMMA OrderedStep == TypeOK /\ FreshInv /\ [Next]_vars => Ordered
<1> SUFFICES ASSUME TypeOK, FreshInv, [Next]_vars PROVE Ordered
  OBVIOUS
<1>0. VMTypes
  BY DEF TypeOK
<1>1. ASSUME NEW q \in Queries, Query(q) \/ Abandon(q) \/ Responds(q) PROVE Ordered
  <2>1. Alone(q)
    BY <1>1, TurnAlone
  <2>2. \A r \in Queries : pc'[r] = "none" => pc[r] = "none"
    BY <2>1 DEF Alone
  <2>3. QED
    BY <2>1, <2>2 DEF Alone, Ordered
<1>2. NoQuery \notin Queries
  BY AgentAssumption DEF Queries
<1>3. CASE Define \/ Delete
  <2>1. UNCHANGED <<pc, serving>>
    BY <1>3 DEF Define, Delete, queryVars
  <2>2. \/ UNCHANGED inbox \/ Send(Item("define", NoQuery, TRUE, FALSE)) \/ Send(Item("delete", NoQuery, TRUE, FALSE))
    BY <1>3 DEF Define, Delete
  <2>3. Item("define", NoQuery, TRUE, FALSE).by \notin Queries /\ Item("delete", NoQuery, TRUE, FALSE).by \notin Queries
    BY <1>2 DEF Item
  <2>4. QED
    BY <2>1, <2>2, <2>3, ItemTypes DEF Ordered
<1>4. ASSUME NEW what, Serves(what) PROVE Goes
  BY <1>4 DEF Serves, Goes
<1>5. CASE ServeDefine \/ ServeDelete
  <2>1. UNCHANGED <<pc, serving>>
    BY <1>5 DEF ServeDefine, ServeDelete, queryVars
  <2>2. QED
    BY <1>4, <1>5, <2>1 DEF Ordered, ServeDefine, ServeDelete
<1>6. CASE ServeTool
  <2> DEFINE q == Call1.by
  <2>1. Goes /\ q \in Queries /\ Call1 = inbox[1] /\ 1 \in DOMAIN inbox
    BY <1>0, <1>4, <1>6, ServesType DEF ServeTool
  <2>2. pc[q] # "none"
    BY <2>1 DEF FreshInv, Absent
  <2>3. UNCHANGED pc \/ ToolThrows(q)
    BY <1>6 DEF ServeTool
  <2>4. \A r \in Queries : pc'[r] = "none" => pc[r] = "none"
    BY <2>1, <2>2, <2>3, ThrowsAlone
  <2>5. QED
    BY <1>6, <2>1, <2>4 DEF Ordered, ServeTool
<1>7. CASE ServeInfer
  <2>1. Goes /\ UNCHANGED pc /\ (serving' = serving \/ serving' = Call1.by)
    BY <1>4, <1>7 DEF ServeInfer, InferOpenAI, queryVars
  <2>2. QED
    BY <2>1 DEF Ordered
<1>8. CASE Generate \/ ReportError
  BY <1>8 DEF Generate, ReportError, queryVars, Ordered
<1>9. CASE (\E t \in Tools : AddTool(t)) \/ UNCHANGED vars
  BY <1>9 DEF AddTool, vars, queryVars, vmVars, Ordered
<1>10. QED
  BY <1>1, <1>3, <1>5, <1>6, <1>7, <1>8, <1>9 DEF Next, VM

-----------------------------------------------------------------------------
(* The history is sound.                                                   *)

\* As long as the same queries answer calls, and the history is the same.
LEMMA SettledSame ==
    ASSUME Settled, UNCHANGED messages,
           \A q \in Queries : pc'[q] \in Answering <=> pc[q] \in Answering,
           \A q \in Queries : pc[q] \in Answering => asked'[q] = asked[q]
    PROVE  Settled'
BY DEF Settled

\* While one query lives outside of a tool call, the history is sound as it is.
LEMMA SettledOne ==
    ASSUME OneLive, Settled, NEW q \in Queries, pc[q] \in Live \ Answering
    PROVE  Sound(messages) /\ \A r \in Queries : pc[r] \notin Answering
<1>1. \A r \in Queries : pc[r] \notin Answering
  BY DEF OneLive, Answering, Live
<1>2. QED
  BY <1>1 DEF Settled

\* A text of the assistant after a sound history does no harm.
LEMMA FlushedSound ==
    ASSUME TypeOK, Sound(messages), NEW q
    PROVE  Sound(Flushed(q))
<1>1. messages \in Seq(Messages) /\ Answer \in Messages /\ Answer.kind = "text"
  BY MessageTypes DEF TypeOK, QueryTypes, Answer
<1>2. QED
  BY <1>1, SoundPlain DEF Flushed

\* After a turn of q alone, q is the one query that lives, if any does.
LEMMA OneLiveAlone ==
    ASSUME OneLive, NEW q \in Queries, Alone(q),
           pc[q] \in Live \/ (\A r \in Queries : pc[r] \notin Live) \/ pc'[q] \notin Live
    PROVE  OneLive'
<1>1. \A r \in Queries \ {q} : pc'[r] = pc[r]
  BY DEF Alone
<1>2. QED
  BY <1>1 DEF OneLive

\* The queries that wait behind a delete do so after a turn of q, which is none of them.
LEMMA BehindAlone ==
    ASSUME TypeOK, FreshInv, BehindDelete, [Next]_vars, NEW q \in Queries, Alone(q),
           \/ pc[q] = "none"
           \/ pc[q] \in Live /\ (pc[q] = "stream" => stream[q] # <<>>)
           \/ pc'[q] \notin Live,
           pc[q] = "none" => pc'[q] \notin Live \/ (pc'[q] = "stream" /\ stream'[q] = <<>>)
    PROVE  BehindDelete'
<1>1. Ordered
  BY OrderedStep
<1>2. NoDelete
  BY DEF Alone, NoDelete
<1>3. \A r \in Queries : pc'[r] \in Live => Patient(r)
  BY DEF Alone, Patient
<1>4. QED
  BY <1>1, <1>2, <1>3, BehindStep

\* What is to be shown of a step that does not disturb the history.
InOrder ==
    /\ OneLive /\ refused = {} /\ Settled /\ BehindDelete
    /\ died # "history"
    /\ \A i \in DOMAIN inbox : inbox[i].sound

\* A disturbed history stays one.
LEMMA DisturbedStays == [Next]_vars /\ disturbed => disturbed'
BY DEF Next, VM, vars, Define, Delete, AddTool, Query, Abandon, Responds, Take, Ending, BeginTools, StartTool,
   ToolThrows, ToolsRefused, ToolsReturn, NextResult, ServeDefine, ServeDelete, ServeTool, ServeInfer,
   Generate, ReportError

\* Every call has been sent with a sound history, if the new one is.
LEMMA InboxSound ==
    ASSUME TypeOK, \A i \in DOMAIN inbox : inbox[i].sound,
           UNCHANGED inbox \/ (\E item \in Items : item.sound /\ Send(item)) \/ Goes
    PROVE  \A i \in DOMAIN inbox' : inbox'[i].sound
<1>0. VMTypes
  BY DEF TypeOK
<1>1. CASE UNCHANGED inbox
  BY <1>1
<1>2. ASSUME NEW item \in Items, item.sound, Send(item), NEW i \in DOMAIN inbox' PROVE inbox'[i].sound
  BY <1>0, <1>2, InboxPoint
<1>3. ASSUME Goes, NEW i \in DOMAIN inbox' PROVE inbox'[i].sound
  BY <1>0, <1>3, InboxPoint
<1>4. QED
  BY <1>1, <1>2, <1>3

\* A step after which nobody answers a call keeps a sound history settled.
LEMMA SettledPlain ==
    ASSUME Sound(messages'), \A q \in Queries : pc'[q] \notin Answering
    PROVE  Settled'
BY DEF Settled

\* define() and delete() find nobody in the middle of a call, or change nothing.
LEMMA DefineKeeps == ASSUME TypeOK, FreshInv, InOrder, [Next]_vars, Define PROVE InOrder'
<1>1. UNCHANGED <<pc, asked, stream, refused, died, serving>> /\ Send(Item("define", NoQuery, TRUE, FALSE))
  BY DEF Define, queryVars
<1>2. LET item == Item("define", NoQuery, TRUE, FALSE)
      IN  item \in Items /\ item.what = "define" /\ item.sound
  BY ItemTypes DEF Item
<1>3. Settled'
  <2>1. CASE messages' = messages
    BY <1>1, <2>1, SettledSame DEF InOrder
  <2>2. CASE messages = <<>> /\ messages' = <<System>>
    <3>1. Sound(<<System>>) /\ <<System>> \in Seq(Messages)
      BY SoundStart, MessageTypes
    <3>2. ASSUME NEW q \in Queries, pc[q] \in Answering PROVE Sound(<<System>> \o Results(asked[q]))
      <4>1. Sound(<<>> \o Results(asked[q])) /\ asked[q] \in Seq(Names)
        BY <2>2, <3>2 DEF InOrder, Settled, TypeOK, QueryTypes
      <4>2. asked[q] = <<>>
        BY <4>1, OwedByACall
      <4>3. QED
        BY <3>1, <4>2, NoResults
    <3>3. QED
      BY <1>1, <2>2, <3>1, <3>2 DEF Settled
  <2>3. QED
    BY <2>1, <2>2 DEF Define
<1>4. BehindDelete'
  <2>1. Ordered
    BY OrderedStep
  <2>2. \A q \in Queries : pc'[q] \in Live => Patient(q)
    BY <1>1 DEF Patient
  <2>3. NoDelete
    BY <1>1, <1>2 DEF NoDelete
  <2>4. QED
    BY <2>1, <2>2, <2>3, BehindStep DEF InOrder
<1>5. \A i \in DOMAIN inbox' : inbox'[i].sound
  BY <1>1, <1>2, InboxSound DEF InOrder
<1>6. QED
  BY <1>1, <1>3, <1>4, <1>5 DEF InOrder, OneLive

\* delete() with no query under way keeps the history in order, and waits for its turn.
LEMMA DeleteKeeps == ASSUME TypeOK, InOrder, Delete, ~disturbed' PROVE InOrder'
<1>1. UNCHANGED <<pc, asked, stream, refused, died>> /\ \A q \in Queries : pc[q] \notin Live
  BY DEF Delete, queryVars
<1>2. Sound(messages)
  BY <1>1 DEF InOrder, Settled, Live, Answering
<1>3. Sound(messages')
  BY <1>2, SoundStart DEF Delete, Forget
<1>4. \A i \in DOMAIN inbox' : inbox'[i].sound
  <2>1. LET item == Item("delete", NoQuery, TRUE, FALSE) IN item \in Items /\ item.sound
    BY ItemTypes DEF Item
  <2>2. UNCHANGED inbox \/ Send(Item("delete", NoQuery, TRUE, FALSE))
    BY DEF Delete
  <2>3. QED
    BY <2>1, <2>2, InboxSound DEF InOrder
<1>5. QED
  BY <1>1, <1>3, <1>4 DEF InOrder, OneLive, Settled, BehindDelete, Live, Answering

\* query() adds its message to a history nobody else is at work on.
LEMMA QueryKeeps ==
    ASSUME TypeOK, FreshInv, InOrder, [Next]_vars, NEW q \in Queries, Query(q), ~disturbed'
    PROVE  InOrder'
<1>1. Alone(q) /\ pc[q] = "none" /\ UNCHANGED <<refused, died, asked>>
  BY TurnAlone DEF Query
<1>2. CASE valid
  <2>1. \A r \in Queries : pc[r] \notin Live
    BY <1>1, <1>2 DEF Query, Others, Live
  <2>2. Sound(messages) /\ messages \in Seq(Messages) /\ messages' = Append(messages, UserMessage)
    BY <1>2, <2>1 DEF InOrder, Settled, Live, Answering, TypeOK, QueryTypes, Query
  <2>3. Sound(messages')
    BY <2>2, SoundPlain, MessageTypes DEF UserMessage
  <2>4. Infer(q, messages')
    BY <1>2 DEF Query
  <2>5. /\ pc'[q] = "stream" /\ stream'[q] = <<>>
        /\ \E item \in Items : item.sound /\ Send(item)
    BY <2>3, <2>4, InferAlone
  <2>6. OneLive'
    BY <1>1, <2>1, OneLiveAlone DEF InOrder
  <2>7. Settled'
    BY <1>1, <2>1, <2>3, <2>5, SettledPlain DEF Alone, Live, Answering
  <2>8. BehindDelete'
    BY <1>1, <2>5, BehindAlone DEF InOrder
  <2>9. \A i \in DOMAIN inbox' : inbox'[i].sound
    BY <2>5, InboxSound DEF InOrder
  <2>10. QED
    BY <1>1, <2>6, <2>7, <2>8, <2>9 DEF InOrder
<1>3. CASE ~valid
  <2>1. UNCHANGED <<messages, inbox>> /\ pc'[q] = "failed"
    BY <1>3, GotoAlone DEF Query
  <2>2. OneLive'
    BY <1>1, <2>1, OneLiveAlone DEF InOrder, Live
  <2>3. Settled'
    BY <1>1, <2>1, SettledSame DEF InOrder, Alone, Answering
  <2>4. BehindDelete'
    BY <1>1, <2>1, BehindAlone DEF InOrder, Live
  <2>5. QED
    BY <1>1, <2>1, <2>2, <2>3, <2>4 DEF InOrder
<1>4. QED
  BY <1>2, <1>3

\* A turn of a query that is not answering calls, before it or after it.
LEMMA PlainTurnKeeps ==
    ASSUME TypeOK, FreshInv, InOrder, [Next]_vars, NEW q \in Queries, Alone(q),
           pc[q] \in Live \ Answering, pc'[q] \notin Answering,
           pc[q] = "stream" => stream[q] # <<>> \/ pc'[q] \notin Live,
           refused' \subseteq refused, UNCHANGED died, Sound(messages'),
           UNCHANGED inbox \/ \E item \in Items : item.sound /\ Send(item)
    PROVE  InOrder'
<1>1. OneLive'
  BY OneLiveAlone DEF InOrder
<1>2. \A r \in Queries : pc'[r] \notin Answering
  BY SettledOne DEF InOrder, Alone
<1>3. Settled'
  BY <1>2, SettledPlain
<1>4. BehindDelete'
  BY BehindAlone DEF InOrder, Live
<1>5. \A i \in DOMAIN inbox' : inbox'[i].sound
  BY InboxSound DEF InOrder
<1>6. QED
  BY <1>1, <1>3, <1>4, <1>5 DEF InOrder

\* The next inference gets the history as it is, which is sound.
LEMMA FinishKeeps ==
    ASSUME TypeOK, FreshInv, InOrder, [Next]_vars, NEW q \in Queries, NEW h, Finish(q, h), Sound(h),
           pc[q] \in {"stream", "ending"}, pc[q] = "stream" => stream[q] # <<>>,
           UNCHANGED <<serving, scenario, died>>
    PROVE  InOrder'
<1>1. Alone(q) /\ Sound(messages')
  BY FinishAlone DEF Finish
<1>2. CASE q \in called
  <2>1. Infer(q, h) /\ UNCHANGED refused
    BY <1>2 DEF Finish
  <2>2. pc'[q] = "stream" /\ \E item \in Items : item.sound /\ Send(item)
    BY <2>1, InferAlone
  <2>3. QED
    BY <1>1, <2>1, <2>2, PlainTurnKeeps DEF Live, Answering
<1>3. CASE q \notin called
  <2>1. Leave(q, "done") /\ UNCHANGED inbox
    BY <1>3 DEF Finish
  <2>2. pc'[q] = "done" /\ refused' \subseteq refused
    BY <2>1, LeaveAlone
  <2>3. QED
    BY <1>1, <2>1, <2>2, PlainTurnKeeps DEF Live, Answering
<1>4. QED
  BY <1>2, <1>3

\* A delta is taken: with a call the history owes its results.
LEMMA TakeKeeps ==
    ASSUME TypeOK, FreshInv, InOrder, [Next]_vars, NEW q \in Queries, Take(q)
    PROVE  InOrder'
<1> DEFINE d == Head(stream[q])
<1>1. /\ Alone(q) /\ pc[q] = "stream" /\ stream[q] # <<>> /\ UNCHANGED <<serving, scenario, died>>
      /\ pc[q] \in Live \ Answering
  BY TurnAlone DEF Take, Responds, Live, Answering
<1>2. Sound(messages) /\ Sound(Flushed(q)) /\ Flushed(q) \in Seq(Messages)
  BY <1>1, SettledOne, FlushedSound, FlushedType DEF InOrder
<1>3. stream[q] \in Seq(Deltas) /\ d \in Deltas
  BY <1>1 DEF TypeOK, QueryTypes
<1>4. d.tools \in Seq(Names)
  BY <1>3 DEF Deltas
<1>. HIDE DEF d
<1>5. CASE TakeText(q, d)
  <2>1. pc'[q] \in {"ending", "stream"} /\ UNCHANGED <<messages, inbox, refused>>
    BY <1>5, GotoAlone DEF TakeText
  <2>2. QED
    BY <1>1, <1>2, <2>1, PlainTurnKeeps DEF Answering
<1>6. CASE TakeCalls(q, d) /\ Malformed(d.tools)
  <2>1. /\ Leave(q, "failed") /\ UNCHANGED inbox
        /\ messages' \in {messages, Append(Flushed(q), CallMessage(<<>>))}
    BY <1>6 DEF TakeCalls
  <2>2. pc'[q] = "failed" /\ refused' \subseteq refused
    BY <2>1, LeaveAlone
  <2>3. <<>> \in Seq(Names)
    OBVIOUS
  <2>4. Sound(Append(Flushed(q), CallMessage(<<>>)))
    <3>1. Append(Flushed(q), CallMessage(<<>>)) \in Seq(Messages)
      <4>1. CallMessage(<<>>) \in Messages
        BY <2>3, MessageTypes
      <4>2. QED
        BY <1>2, <4>1
    <3>2. QED
      BY <1>2, <2>3, <3>1, SoundCall, NoResults
  <2>5. QED
    BY <1>1, <1>2, <2>1, <2>2, <2>4, PlainTurnKeeps DEF Answering
<1>7. CASE TakeCalls(q, d) /\ ~Malformed(d.tools)
  <2>1. /\ messages' = Append(Flushed(q), CallMessage(d.tools)) /\ UNCHANGED <<inbox, refused>>
        /\ asked' = [asked EXCEPT ![q] = d.tools] /\ Goto(q, "calling")
    BY <1>7 DEF TakeCalls
  <2>2. pc'[q] = "calling" /\ asked'[q] = d.tools
    BY <2>1, GotoAlone DEF TypeOK, QueryTypes
  <2>3. Sound(messages' \o Results(asked'[q]))
    BY <1>2, <1>4, <2>1, <2>2, SoundCall
  <2>4. \A r \in Queries \ {q} : pc'[r] \notin Answering
    BY <1>1, SettledOne DEF InOrder, Alone
  <2>5. Settled'
    BY <2>2, <2>3, <2>4 DEF Settled, Answering
  <2>6. OneLive'
    BY <1>1, OneLiveAlone DEF InOrder
  <2>7. BehindDelete'
    BY <1>1, BehindAlone DEF InOrder, Live
  <2>8. QED
    BY <1>1, <2>1, <2>5, <2>6, <2>7 DEF InOrder
<1>8. CASE TakeFailure(q, d)
  <2>1. Leave(q, "failed") /\ UNCHANGED <<messages, inbox>>
    BY <1>8 DEF TakeFailure
  <2>2. pc'[q] = "failed" /\ refused' \subseteq refused
    BY <2>1, LeaveAlone
  <2>3. QED
    BY <1>1, <1>2, <2>1, <2>2, PlainTurnKeeps DEF Answering
<1>9. CASE Finish(q, messages)
  BY <1>1, <1>2, <1>9, FinishKeeps
<1>10. QED
  BY <1>5, <1>6, <1>7, <1>8, <1>9 DEF Take, d

\* A turn that leaves the history and the queries' places alone.
LEMMA QuietTurnKeeps ==
    ASSUME TypeOK, FreshInv, InOrder, [Next]_vars, NEW q \in Queries, Alone(q),
           pc[q] \in Live, pc[q] = "stream" => stream[q] # <<>> \/ pc'[q] \notin Live,
           pc'[q] \in Answering <=> pc[q] \in Answering, asked'[q] = asked[q],
           refused' \subseteq refused, UNCHANGED <<died, messages>>,
           UNCHANGED inbox \/ \E item \in Items : item.sound /\ Send(item)
    PROVE  InOrder'
<1>1. OneLive'
  BY OneLiveAlone DEF InOrder
<1>2. Settled'
  BY SettledSame DEF InOrder, Alone
<1>3. BehindDelete'
  BY BehindAlone DEF InOrder, Live
<1>4. \A i \in DOMAIN inbox' : inbox'[i].sound
  BY InboxSound DEF InOrder
<1>5. QED
  BY <1>1, <1>2, <1>3, <1>4 DEF InOrder

\* Results are appended one by one, until the history owes none.
LEMMA ResultsKeep ==
    ASSUME TypeOK, FreshInv, InOrder, [Next]_vars, NEW q \in Queries, ToolsReturn(q) \/ NextResult(q)
    PROVE  InOrder'
<1>1. /\ Alone(q) /\ pc[q] \in Answering /\ pc[q] \in Live
      /\ UNCHANGED <<refused, died, inbox>>
  BY TurnAlone DEF ToolsReturn, NextResult, Responds, vmVars, Live, Answering
<1>2. messages \in Seq(Messages) /\ asked[q] \in Seq(Names) /\ Sound(messages \o Results(asked[q]))
  BY <1>1 DEF InOrder, Settled, TypeOK, QueryTypes
<1>3. \A r \in Queries \ {q} : pc'[r] \notin Answering
  BY <1>1 DEF InOrder, OneLive, Alone, Answering, Live
<1>4. Settled'
  <2>1. CASE asked[q] = <<>>
    <3>1. UNCHANGED messages /\ Goto(q, "stream")
      BY <2>1 DEF ToolsReturn, NextResult, TypeOK, QueryTypes, Asking
    <3>2. pc'[q] = "stream"
      BY <3>1, GotoAlone
    <3>3. Sound(messages')
      BY <1>2, <2>1, <3>1, NoResults
    <3>4. QED
      BY <1>3, <3>2, <3>3, SettledPlain DEF Answering
  <2>2. CASE asked[q] # <<>>
    <3>1. /\ messages' = Append(messages, Result(Head(asked[q])))
          /\ asked' = [asked EXCEPT ![q] = Tail(@)]
      BY <2>2 DEF ToolsReturn, NextResult
    <3>2. asked'[q] = Tail(asked[q])
      BY <3>1 DEF TypeOK, QueryTypes
    <3>3. pc'[q] = "results"
      BY <2>2, GotoAlone DEF ToolsReturn, NextResult
    <3>4. Sound(messages' \o Results(asked'[q]))
      BY <1>2, <2>2, <3>1, <3>2, ResultsMove
    <3>5. QED
      BY <1>3, <3>3, <3>4 DEF Settled, Answering
  <2>3. QED
    BY <2>1, <2>2
<1>5. OneLive'
  BY <1>1, OneLiveAlone DEF InOrder
<1>6. BehindDelete'
  BY <1>1, BehindAlone DEF InOrder, Answering
<1>7. QED
  BY <1>1, <1>4, <1>5, <1>6 DEF InOrder

\* The other turns of a query.
LEMMA TurnKeeps ==
    ASSUME TypeOK, FreshInv, InOrder, [Next]_vars, ~disturbed', NEW q \in Queries,
           Abandon(q) \/ Responds(q)
    PROVE  InOrder'
<1>0. Alone(q)
  BY TurnAlone
<1>1. CASE Abandon(q)
  <2>1. pc[q] \in Live \ Answering /\ UNCHANGED <<messages, inbox, died>> /\ Leave(q, "abandoned")
    BY <1>1 DEF Abandon, Answering, Live, agentVars, vmVars
  <2>2. pc'[q] = "abandoned" /\ refused' \subseteq refused
    BY <2>1, LeaveAlone
  <2>3. Sound(messages')
    BY <2>1, SettledOne DEF InOrder
  <2>4. QED
    BY <1>0, <2>1, <2>2, <2>3, PlainTurnKeeps DEF Live, Answering
<1>2. CASE Take(q)
  BY <1>2, TakeKeeps
<1>3. CASE Ending(q)
  <2>1. pc[q] = "ending" /\ Finish(q, Flushed(q)) /\ UNCHANGED <<serving, scenario, died>>
    BY <1>3 DEF Ending
  <2>2. Sound(Flushed(q))
    BY <2>1, SettledOne, FlushedSound DEF InOrder, Live, Answering
  <2>3. QED
    BY <2>1, <2>2, FinishKeeps
<1>4. CASE BeginTools(q)
  <2>1. pc[q] = "calling" /\ Goto(q, "tools") /\ UNCHANGED <<asked, refused, died, messages, inbox>>
    BY <1>4 DEF BeginTools, agentVars, vmVars
  <2>2. pc'[q] = "tools"
    BY <2>1, GotoAlone
  <2>3. QED
    BY <1>0, <2>1, <2>2, QuietTurnKeeps DEF Live, Answering
<1>5. CASE StartTool(q)
  <2>1. pc[q] = "tools" /\ UNCHANGED <<messages, pc, asked, died, refused>>
    BY <1>5 DEF StartTool, agentVars, ToolThrows
  <2>2. UNCHANGED inbox \/ Send(Item("tool", q, TRUE, FALSE))
    BY <1>5 DEF StartTool
  <2>3. Item("tool", q, TRUE, FALSE) \in Items /\ Item("tool", q, TRUE, FALSE).sound
    BY ItemTypes DEF Item
  <2>4. QED
    BY <1>0, <2>1, <2>2, <2>3, QuietTurnKeeps DEF Live, Answering
<1>6. CASE ToolsRefused(q)
  BY <1>6 DEF ToolsRefused, InOrder
<1>7. CASE ToolsReturn(q) \/ NextResult(q)
  BY <1>7, ResultsKeep
<1>8. QED
  BY <1>1, <1>2, <1>3, <1>4, <1>5, <1>6, <1>7 DEF Responds

\* What the VM puts into the stream of the query it serves, nobody waiting behind a
\* delete sees.
LEMMA PutPatient ==
    ASSUME TypeOK, NEW q, NEW ds, Put(q, ds), UNCHANGED pc, q = serving \/ (Goes /\ q = Call1.by),
           NEW r \in Queries, pc[r] \in Live
    PROVE  Patient(r)
<1>1. CASE r = q
  BY <1>1 DEF Patient
<1>2. CASE r # q
  <2>1. stream'[r] = stream[r]
    BY <1>2 DEF Put, TypeOK, QueryTypes
  <2>2. QED
    BY <2>1 DEF Patient
<1>3. QED
  BY <1>1, <1>2

\* A step of the VM that leaves the history and the queries' places alone.
LEMMA VMKeeps ==
    ASSUME TypeOK, FreshInv, InOrder, [Next]_vars,
           UNCHANGED <<pc, asked, refused, messages>>, died' # "history",
           UNCHANGED inbox \/ Goes,
           UNCHANGED stream \/ \E q, ds : Put(q, ds) /\ (q = serving \/ (Goes /\ q = Call1.by))
    PROVE  InOrder'
<1>1. OneLive' /\ Settled' /\ refused' = {}
  BY SettledSame DEF InOrder, OneLive
<1>2. \A r \in Queries : pc'[r] \in Live => Patient(r)
  <2>1. CASE UNCHANGED stream
    BY <2>1 DEF Patient
  <2>2. CASE \E q, ds : Put(q, ds) /\ (q = serving \/ (Goes /\ q = Call1.by))
    BY <2>2, PutPatient
  <2>3. QED
    BY <2>1, <2>2
<1>3. BehindDelete'
  BY <1>2, OrderedStep, BehindStep DEF InOrder, NoDelete
<1>4. \A i \in DOMAIN inbox' : inbox'[i].sound
  BY InboxSound DEF InOrder
<1>5. QED
  BY <1>1, <1>3, <1>4 DEF InOrder

\* delete() of agent.py makes the history short while a query waits behind it.
LEMMA ServeDeleteKeeps ==
    ASSUME TypeOK, FreshInv, InOrder, [Next]_vars, ServeDelete
    PROVE  InOrder'
<1>0. VMTypes
  BY DEF TypeOK
<1>1. UNCHANGED <<pc, asked, refused, stream, serving, died>> /\ Goes
  BY DEF ServeDelete, queryVars, Serves, Goes
<1>2. 1 \in DOMAIN inbox /\ inbox[1].what = "delete"
  BY <1>0, ServesType DEF ServeDelete, Serves
<1>3. \A q \in Queries : pc[q] \in Live => pc[q] = "stream"
  BY <1>2 DEF InOrder, BehindDelete, Behind
<1>4. Sound(messages')
  BY SoundStart DEF ServeDelete, Forget
<1>5. Settled'
  BY <1>1, <1>3, <1>4, SettledPlain DEF Live, Answering
<1>6. BehindDelete'
  BY <1>1, OrderedStep, BehindStep DEF InOrder, NoDelete, Patient
<1>7. \A i \in DOMAIN inbox' : inbox'[i].sound
  BY <1>1, InboxSound DEF InOrder
<1>8. QED
  BY <1>1, <1>5, <1>6, <1>7 DEF InOrder, OneLive

\* What the VM serves, and generates, leaves the history as it is.
LEMMA ServeKeeps ==
    ASSUME TypeOK, FreshInv, InOrder, [Next]_vars, ~disturbed',
           ServeDefine \/ ServeTool \/ ServeInfer \/ Generate \/ ReportError
    PROVE  InOrder'
<1>0. VMTypes
  BY DEF TypeOK
<1>1. CASE ServeDefine
  BY <1>1, VMKeeps DEF ServeDefine, Serves, Goes, queryVars, InOrder
<1>2. CASE ServeTool
  <2>1. UNCHANGED <<pc, asked, refused, messages, died, stream>> /\ Goes
    BY <1>2 DEF ServeTool, ToolThrows, Serves, Goes
  <2>2. QED
    BY <2>1, VMKeeps DEF InOrder
<1>3. CASE ServeInfer
  <2>1. Goes /\ UNCHANGED <<pc, asked, refused, messages>> /\ Call1.sound
    BY <1>0, <1>3, ServesType DEF ServeInfer, Serves, Goes, queryVars, InOrder
  <2>2. died' # "history" /\ (UNCHANGED stream \/ \E ds : Put(Call1.by, ds))
    BY <1>3, <2>1 DEF ServeInfer, InferOpenAI, InOrder
  <2>3. QED
    BY <2>1, <2>2, VMKeeps
<1>4. CASE Generate
  <2>1. UNCHANGED <<pc, asked, refused, messages, died, inbox>> /\ \E ds : Put(serving, ds)
    BY <1>4 DEF Generate, queryVars, agentVars
  <2>2. QED
    BY <2>1, VMKeeps DEF InOrder
<1>5. CASE ReportError
  <2>1. UNCHANGED <<pc, asked, refused, messages, died, inbox>> /\ \E ds : Put(serving, ds)
    BY <1>5 DEF ReportError, queryVars, agentVars
  <2>2. QED
    BY <2>1, VMKeeps DEF InOrder
<1>6. QED
  BY <1>1, <1>2, <1>3, <1>4, <1>5

\* The history stays in order at every step, until it is disturbed.
LEMMA HistoryStep == TypeOK /\ FreshInv /\ (~disturbed => InOrder) /\ [Next]_vars => (~disturbed => InOrder)'
<1> SUFFICES ASSUME TypeOK, FreshInv, ~disturbed => InOrder, [Next]_vars, ~disturbed'
             PROVE  InOrder'
  OBVIOUS
<1>1. InOrder
  BY DisturbedStays
<1>2. CASE (\E t \in Tools : AddTool(t)) \/ UNCHANGED vars
  <2>1. UNCHANGED <<pc, asked, refused, messages, died, inbox, stream>>
    BY <1>2 DEF AddTool, vars, queryVars, agentVars, vmVars
  <2>2. QED
    BY <1>1, <2>1, VMKeeps DEF InOrder
<1>3. QED
  BY <1>1, <1>2, DefineKeeps, DeleteKeeps, QueryKeeps, TurnKeeps, ServeDeleteKeeps, ServeKeeps DEF Next, VM

\* So it is in order at every step.
LEMMA HistoryInvariant == Spec => [](FreshInv /\ (~disturbed => InOrder))
<1>1. Init => FreshInv /\ (~disturbed => InOrder)
  <2> SUFFICES ASSUME Init PROVE FreshInv /\ InOrder
    OBVIOUS
  <2>1. FreshInv
    BY AgentAssumption DEF Init, FreshInv, Absent, Queries
  <2>2. OneLive /\ Settled
    BY SoundStart DEF Init, OneLive, Settled, Live, Answering
  <2>3. QED
    BY <2>1, <2>2 DEF Init, InOrder, BehindDelete
<1>2. TypeOK /\ FreshInv /\ (~disturbed => InOrder) /\ [Next]_vars => (FreshInv /\ (~disturbed => InOrder))'
  BY OrderedStep, FreshStep, HistoryStep
<1>3. QED
  BY <1>1, <1>2, AgentTypes, PTL DEF Spec

\* agent.py, agent.ts: the history that goes to the model has every tool call answered
\* in order, with nothing between, whatever the model asks for, as long as no query is
\* left in the middle of a call and queries and delete() take turns; so it is never
\* the history that ends the process.
THEOREM AgentHistoryIsSound == Spec => []HistoryIsSound
<1>1. FreshInv /\ (~disturbed => InOrder) => HistoryIsSound
  BY DEF InOrder, HistoryIsSound
<1>2. QED
  BY <1>1, HistoryInvariant, PTL

-----------------------------------------------------------------------------
(* Texts: what one piece more changes.                                     *)

\* A text does not know what comes after it.
LEMMA Longer ==
    ASSUME NEW t \in Seq(Pieces0), NEW c \in Pieces0, NEW u, u = Append(t, c)
    PROVE  /\ u \in Seq(Pieces0) /\ Len(t) \in Nat /\ Len(u) = Len(t) + 1
           /\ u[Len(t) + 1] = c /\ \A i \in 1 .. Len(t) : u[i] = t[i]
BY AppendAt

\* Where a text is inside a call or in a thought depends on what comes before.
LEMMA InsideBefore ==
    ASSUME NEW t, NEW u, NEW n \in Nat, \A i \in 1 .. n : u[i] = t[i], NEW i \in 1 .. n + 1
    PROVE  Inside(u, i) <=> Inside(t, i)
BY DEF Inside

\* The same of a thought.
LEMMA ThoughtBefore ==
    ASSUME NEW t, NEW u, NEW n \in Nat, \A i \in 1 .. n : u[i] = t[i], NEW i \in 1 .. n + 1
    PROVE  Thought(u, i) <=> Thought(t, i)
<1>1. \A j \in 1 .. i - 1 : Inside(u, j) <=> Inside(t, j)
  BY InsideBefore
<1>2. QED
  BY <1>1 DEF Thought

\* The same of the pieces of an open call.
LEMMA PiecesBefore ==
    ASSUME NEW t, NEW u, NEW n \in Nat, \A i \in 1 .. n : u[i] = t[i], NEW i \in 1 .. n + 1
    PROVE  Pieces(u, i) = Pieces(t, i)
<1>1. \A j \in 1 .. i - 1 : u[j] = t[j] /\ (Inside(u, j) <=> Inside(t, j))
  BY InsideBefore
<1>2. QED
  BY <1>1 DEF Pieces

\* A call begins and ends with its marks.
LEMMA InsideAfter ==
    ASSUME NEW t \in Seq(Pieces0), NEW c \in Pieces0, NEW u, u = Append(t, c)
    PROVE  Inside(u, Len(u) + 1) <=> (c = "botc" \/ (Inside(t, Len(t) + 1) /\ c # "eotc"))
<1> DEFINE n == Len(t)
<1>1. n \in Nat /\ Len(u) + 1 = n + 2 /\ u[n + 1] = c /\ \A i \in 1 .. n : u[i] = t[i]
  BY Longer
<1>. HIDE DEF n
<1>2. ASSUME c = "botc" PROVE Inside(u, n + 2)
  <2>1. n + 1 \in 1 .. (n + 2) - 1 /\ u[n + 1] = "botc" /\ \A k \in n + 1 .. (n + 2) - 1 : u[k] # "eotc"
    BY <1>1, <1>2
  <2>2. QED
    BY <2>1 DEF Inside
<1>3. ASSUME Inside(t, n + 1), c # "eotc" PROVE Inside(u, n + 2)
  <2>1. PICK j \in 1 .. (n + 1) - 1 : t[j] = "botc" /\ \A k \in j .. (n + 1) - 1 : t[k] # "eotc"
    BY <1>3 DEF Inside
  <2>2. j \in 1 .. (n + 2) - 1 /\ u[j] = "botc" /\ \A k \in j .. (n + 2) - 1 : u[k] # "eotc"
    BY <1>1, <1>3, <2>1
  <2>3. QED
    BY <2>2 DEF Inside
<1>4. ASSUME Inside(u, n + 2), c # "botc" PROVE Inside(t, n + 1) /\ c # "eotc"
  <2>1. PICK j \in 1 .. (n + 2) - 1 : u[j] = "botc" /\ \A k \in j .. (n + 2) - 1 : u[k] # "eotc"
    BY <1>4 DEF Inside
  <2>2. j \in 1 .. (n + 1) - 1 /\ n + 1 \in j .. (n + 2) - 1
    BY <1>1, <1>4, <2>1
  <2>3. t[j] = "botc" /\ \A k \in j .. (n + 1) - 1 : t[k] # "eotc"
    BY <1>1, <2>1, <2>2
  <2>4. QED
    BY <1>1, <2>1, <2>2, <2>3 DEF Inside
<1>5. QED
  BY <1>1, <1>2, <1>3, <1>4 DEF n

\* So does a thought, outside of a call.
LEMMA ThoughtAfter ==
    ASSUME NEW t \in Seq(Pieces0), NEW c \in Pieces0, NEW u, u = Append(t, c)
    PROVE  Thought(u, Len(u) + 1) <=>
              \/ c = "think" /\ ~Inside(t, Len(t) + 1)
              \/ Thought(t, Len(t) + 1) /\ c \notin {"unthink", "botc", "eotc"}
<1> DEFINE n == Len(t)
           Ends0 == {"unthink", "botc", "eotc"}
<1>1. n \in Nat /\ Len(u) + 1 = n + 2 /\ u[n + 1] = c /\ \A i \in 1 .. n : u[i] = t[i]
  BY Longer
<1>. HIDE DEF n
<1>2. \A i \in 1 .. n + 1 : Inside(u, i) <=> Inside(t, i)
  BY <1>1, InsideBefore
<1>3. ASSUME c = "think", ~Inside(t, n + 1) PROVE Thought(u, n + 2)
  <2>1. /\ n + 1 \in 1 .. (n + 2) - 1 /\ u[n + 1] = "think" /\ ~Inside(u, n + 1)
        /\ \A k \in n + 1 .. (n + 2) - 1 : u[k] \notin Ends0
    BY <1>1, <1>2, <1>3
  <2>2. QED
    BY <2>1 DEF Thought
<1>4. ASSUME Thought(t, n + 1), c \notin Ends0 PROVE Thought(u, n + 2)
  <2>1. PICK j \in 1 .. (n + 1) - 1 :
          /\ t[j] = "think" /\ ~Inside(t, j)
          /\ \A k \in j .. (n + 1) - 1 : t[k] \notin Ends0
    BY <1>4 DEF Thought
  <2>2. /\ j \in 1 .. (n + 2) - 1 /\ u[j] = "think" /\ ~Inside(u, j)
        /\ \A k \in j .. (n + 2) - 1 : u[k] \notin Ends0
    BY <1>1, <1>2, <1>4, <2>1
  <2>3. QED
    BY <2>2 DEF Thought
<1>5. ASSUME Thought(u, n + 2), ~(c = "think" /\ ~Inside(t, n + 1))
      PROVE  Thought(t, n + 1) /\ c \notin Ends0
  <2>1. PICK j \in 1 .. (n + 2) - 1 :
          /\ u[j] = "think" /\ ~Inside(u, j)
          /\ \A k \in j .. (n + 2) - 1 : u[k] \notin Ends0
    BY <1>5 DEF Thought
  <2>2. j # n + 1
    BY <1>1, <1>2, <1>5, <2>1
  <2>3. j \in 1 .. (n + 1) - 1 /\ n + 1 \in j .. (n + 2) - 1
    BY <1>1, <2>1, <2>2
  <2>4. t[j] = "think" /\ ~Inside(t, j) /\ \A k \in j .. (n + 1) - 1 : t[k] \notin Ends0
    BY <1>1, <1>2, <2>1, <2>3
  <2>5. QED
    BY <1>1, <2>1, <2>3, <2>4 DEF Thought
<1>6. QED
  BY <1>1, <1>3, <1>4, <1>5 DEF n

\* The pieces of the open call are one more, or none after its end.
LEMMA PiecesAfter ==
    ASSUME NEW t \in Seq(Pieces0), NEW c \in Pieces0, NEW u, u = Append(t, c)
    PROVE  /\ c = "eotc" => Pieces(u, Len(u) + 1) = {}
           /\ c # "eotc" /\ Inside(t, Len(t) + 1) /\ c \notin {"botc", "empty"} =>
                Pieces(u, Len(u) + 1) = Pieces(t, Len(t) + 1) \cup {Len(t) + 1}
           /\ c # "eotc" /\ ~(Inside(t, Len(t) + 1) /\ c \notin {"botc", "empty"}) =>
                Pieces(u, Len(u) + 1) = Pieces(t, Len(t) + 1)
<1> DEFINE n == Len(t)
<1>1. n \in Nat /\ Len(u) + 1 = n + 2 /\ u[n + 1] = c /\ \A i \in 1 .. n : u[i] = t[i]
  BY Longer
<1>. HIDE DEF n
<1>2. \A i \in 1 .. n + 1 : Inside(u, i) <=> Inside(t, i)
  BY <1>1, InsideBefore
<1>3. ASSUME c = "eotc" PROVE Pieces(u, n + 2) = {}
  <2>1. \A k \in 1 .. (n + 2) - 1 : n + 1 \in k .. (n + 2) - 1
    BY <1>1
  <2>2. QED
    BY <1>1, <1>3, <2>1 DEF Pieces
<1>4. ASSUME c # "eotc", NEW k \in 1 .. n
      PROVE  k \in Pieces(u, n + 2) <=> k \in Pieces(t, n + 1)
  <2>1. k \in 1 .. (n + 2) - 1 /\ k \in 1 .. (n + 1) - 1 /\ u[k] = t[k] /\ (Inside(u, k) <=> Inside(t, k))
    BY <1>1, <1>2
  <2>2. (\A l \in k .. (n + 2) - 1 : u[l] # "eotc") <=> (\A l \in k .. (n + 1) - 1 : t[l] # "eotc")
    <3>1. \A l \in k .. (n + 2) - 1 : l \in k .. (n + 1) - 1 \/ l = n + 1
      BY <1>1
    <3>2. \A l \in k .. (n + 1) - 1 : u[l] = t[l] /\ l \in k .. (n + 2) - 1
      BY <1>1
    <3>3. QED
      BY <1>1, <1>4, <3>1, <3>2
  <2>3. QED
    BY <2>1, <2>2 DEF Pieces
<1>5. ASSUME c # "eotc"
      PROVE  n + 1 \in Pieces(u, n + 2) <=> Inside(t, n + 1) /\ c \notin {"botc", "empty"}
  <2>1. n + 1 \in 1 .. (n + 2) - 1 /\ \A l \in n + 1 .. (n + 2) - 1 : l = n + 1
    BY <1>1
  <2>2. Inside(u, n + 1) <=> Inside(t, n + 1)
    BY <1>1, <1>2
  <2>3. QED
    BY <1>1, <1>5, <2>1, <2>2 DEF Pieces
<1>6. Pieces(u, n + 2) \subseteq 1 .. n + 1 /\ Pieces(t, n + 1) \subseteq 1 .. n
  BY <1>1 DEF Pieces
<1>7. \A k \in 1 .. n + 1 : k \in 1 .. n \/ k = n + 1
  BY <1>1
<1>8. n + 1 \notin 1 .. n
  BY <1>1
<1>9. QED
  BY <1>1, <1>3, <1>4, <1>5, <1>6, <1>7, <1>8 DEF n

\* There are pieces of an open call only inside of it.
LEMMA PiecesInside ==
    ASSUME NEW t, NEW n \in Nat, Pieces(t, n + 1) # {}
    PROVE  Inside(t, n + 1)
<1>1. PICK k \in 1 .. (n + 1) - 1 : Inside(t, k) /\ \A l \in k .. (n + 1) - 1 : t[l] # "eotc"
  BY DEF Pieces
<1>2. PICK j \in 1 .. k - 1 : t[j] = "botc" /\ \A l \in j .. k - 1 : t[l] # "eotc"
  BY <1>1 DEF Inside
<1>3. j \in 1 .. (n + 1) - 1 /\ \A l \in j .. (n + 1) - 1 : l \in j .. k - 1 \/ l \in k .. (n + 1) - 1
  BY <1>1, <1>2
<1>4. QED
  BY <1>1, <1>2, <1>3 DEF Inside

\* In an empty text there is nothing.
LEMMA EmptyText ==
    /\ ~Inside(<<>>, 1) /\ ~Thought(<<>>, 1) /\ Pieces(<<>>, 1) = {}
BY DEF Inside, Thought, Pieces

\* The piece c leaves the mode and the tokens what they say of the text with it;
\* the end of a call makes them so.
LEMMA ModeAfter ==
    ASSUME NEW t \in Seq(Pieces0), NEW c \in Pieces0, NEW u, u = Append(t, c),
           mode \in {"text", "tool_call", "reasoning"}, tokens \in Seq(Pieces0),
           Parse(c), c # "eotc" => ModeOf(t, mode, tokens)
    PROVE  ModeOf(u, mode', tokens')
<1> DEFINE n == Len(t)
           P == Pieces(t, n + 1)
           Q == Pieces(u, Len(u) + 1)
<1>1. n \in Nat /\ Len(u) = n + 1 /\ u[n + 1] = c /\ \A i \in 1 .. n : u[i] = t[i]
  BY Longer
<1>2. Inside(u, Len(u) + 1) <=> (c = "botc" \/ (Inside(t, n + 1) /\ c # "eotc"))
  BY InsideAfter
<1>3. Thought(u, Len(u) + 1) <=>
         \/ c = "think" /\ ~Inside(t, n + 1)
         \/ Thought(t, n + 1) /\ c \notin {"unthink", "botc", "eotc"}
  BY ThoughtAfter
<1>4. /\ c = "eotc" => Q = {}
      /\ c # "eotc" /\ Inside(t, n + 1) /\ c \notin {"botc", "empty"} => Q = P \cup {n + 1}
      /\ c # "eotc" /\ ~(Inside(t, n + 1) /\ c \notin {"botc", "empty"}) => Q = P
  BY PiecesAfter
<1>5. P \subseteq 1 .. n
  BY <1>1 DEF Pieces
<1>6. c # "eotc" => /\ mode = "tool_call" <=> Inside(t, n + 1)
                    /\ mode = "reasoning" <=> Thought(t, n + 1)
                    /\ P = {} => tokens = <<>>
                    /\ \A k \in P : IF P = {k} THEN tokens = <<t[k]>> ELSE Len(tokens) > 1
  BY DEF ModeOf
<1>. HIDE DEF n, P, Q
<1>7. mode' = "tool_call" <=> Inside(u, Len(u) + 1)
  BY <1>2, <1>6 DEF Parse
<1>8. mode' = "reasoning" <=> Thought(u, Len(u) + 1)
  BY <1>3, <1>6 DEF Parse
<1>9. (Q = {} => tokens' = <<>>) /\ \A k \in Q : IF Q = {k} THEN tokens' = <<u[k]>> ELSE Len(tokens') > 1
  <2>1. CASE c = "eotc"
    BY <1>4, <2>1 DEF Parse
  <2>2. CASE c # "eotc" /\ Inside(t, n + 1) /\ c \notin {"botc", "empty"}
    <3>1. Q = P \cup {n + 1}
      BY <1>4, <2>2
    <3>2. tokens' = Append(tokens, c)
      BY <1>6, <2>2 DEF Parse
    <3>3. CASE P = {}
      <4>1. Q = {n + 1} /\ tokens' = <<c>>
        BY <1>6, <2>2, <3>1, <3>2, <3>3
      <4>2. QED
        BY <1>1, <4>1
    <3>4. ASSUME NEW k \in P PROVE Len(tokens') > 1 /\ \A l \in Q : Q # {l}
      <4>1. Len(tokens) >= 1
        <5>1. CASE P = {k}
          <6>1. tokens = <<t[k]>>
            BY <1>6, <2>2, <3>4, <5>1
          <6>2. QED
            BY <6>1
        <5>2. CASE P # {k}
          BY <1>6, <2>2, <3>4, <5>2
        <5>3. QED
          BY <5>1, <5>2
      <4>2. Len(tokens') = Len(tokens) + 1 /\ Len(tokens) \in Nat
        BY <3>2
      <4>3. k \in Q /\ n + 1 \in Q /\ k # n + 1
        BY <1>1, <1>5, <3>1, <3>4
      <4>4. QED
        BY <4>1, <4>2, <4>3
    <3>5. QED
      BY <3>1, <3>3, <3>4
  <2>3. CASE c # "eotc" /\ ~(Inside(t, n + 1) /\ c \notin {"botc", "empty"})
    <3>1. Q = P
      BY <1>4, <2>3
    <3>2. tokens' = tokens
      BY <1>6, <2>3 DEF Parse
    <3>3. \A k \in P : u[k] = t[k]
      BY <1>1, <1>5
    <3>4. QED
      BY <1>6, <2>3, <3>1, <3>2, <3>3
  <2>4. QED
    BY <2>1, <2>2, <2>3
<1>10. QED
  BY <1>7, <1>8, <1>9 DEF ModeOf, Q

\* A generation that has ended as it should leaves the mode and the tokens of an
\* empty text.
LEMMA ModeOfNothing ==
    ASSUME NEW t \in Seq(Pieces0), NEW m \in {"text", "tool_call", "reasoning"}, NEW ts,
           ModeOf(t, m, ts), ~BrokenOff(t)
    PROVE  ModeOf(<<>>, m, ts)
<1>1. ~Inside(t, Len(t) + 1) /\ ~Thought(t, Len(t) + 1)
  BY DEF BrokenOff
<1>2. Pieces(t, Len(t) + 1) = {}
  <2>1. Len(t) \in Nat
    OBVIOUS
  <2>2. QED
    BY <1>1, <2>1, PiecesInside
<1>3. m = "text" /\ ts = <<>>
  BY <1>1, <1>2 DEF ModeOf
<1>4. Len(<<>>) + 1 = 1
  OBVIOUS
<1>5. QED
  BY <1>3, <1>4, EmptyText DEF ModeOf

-----------------------------------------------------------------------------
(* Readings: what one piece more adds.                                     *)

\* Whether a piece is shown, and as what, depends on what comes before.
LEMMA CallBefore ==
    ASSUME NEW t, NEW u, NEW n \in Nat, \A i \in 1 .. n : u[i] = t[i], NEW i \in 1 .. n, NEW c
    PROVE  IsCall(u, i, c) <=> IsCall(t, i, c)
<1>1. Pieces(u, i) = Pieces(t, i)
  BY PiecesBefore
<1>2. \A k \in 1 .. i - 1 : u[k] = t[k]
  OBVIOUS
<1>3. QED
  BY <1>1, <1>2 DEF IsCall

\* The same of what is shown of a piece.
LEMMA ShownBefore ==
    ASSUME NEW t, NEW u, NEW n \in Nat, \A i \in 1 .. n : u[i] = t[i], NEW i \in 1 .. n, NEW ignore
    PROVE  (Shown(u, i, ignore) <=> Shown(t, i, ignore)) /\ Meaning(u, i) = Meaning(t, i)
<1>1. \A c : IsCall(u, i, c) <=> IsCall(t, i, c)
  BY CallBefore
<1>2. (Thought(u, i) <=> Thought(t, i)) /\ (Inside(u, i) <=> Inside(t, i)) /\ u[i] = t[i]
  BY InsideBefore, ThoughtBefore
<1>3. (CHOOSE c \in Calls : IsCall(u, i, c)) = (CHOOSE c \in Calls : IsCall(t, i, c))
  BY <1>1
<1>4. QED
  BY <1>1, <1>2, <1>3 DEF Shown, Meaning

\* u is t and one piece more.
Joined(t, c, u) == u = Append(t, c)

\* The pieces shown before the last one, and with it.
LEMMA ShownToAfter ==
    ASSUME NEW t \in Seq(Pieces0), NEW c \in Pieces0, NEW u, Joined(t, c, u), NEW ignore
    PROVE  /\ \A i \in 0 .. Len(t) : ShownTo(u, i, ignore) = ShownTo(t, i, ignore)
           /\ ShownTo(u, Len(u), ignore) =
                 IF Shown(u, Len(u), ignore)
                 THEN ShownTo(t, Len(t), ignore) \cup {Len(u)} ELSE ShownTo(t, Len(t), ignore)
<1> DEFINE n == Len(t)
<1>1. n \in Nat /\ Len(u) = n + 1 /\ \A i \in 1 .. n : u[i] = t[i]
  BY Longer DEF Joined
<1>. HIDE DEF n
<1>2. \A i \in 1 .. n : Shown(u, i, ignore) <=> Shown(t, i, ignore)
  BY <1>1, ShownBefore
<1>3. ASSUME NEW i \in 0 .. n PROVE ShownTo(u, i, ignore) = ShownTo(t, i, ignore)
  <2>1. \A j \in 1 .. i : j \in 1 .. n
    BY <1>1
  <2>2. QED
    BY <1>2, <2>1 DEF ShownTo
<1>4. \A j \in 1 .. n + 1 : j \in 1 .. n \/ j = n + 1
  BY <1>1
<1>5. \A j \in 1 .. n : j \in 1 .. n + 1
  BY <1>1
<1>6. n + 1 \in 1 .. n + 1
  BY <1>1
<1>7. ShownTo(u, n + 1, ignore) =
         IF Shown(u, n + 1, ignore) THEN ShownTo(t, n, ignore) \cup {n + 1} ELSE ShownTo(t, n, ignore)
  BY <1>2, <1>4, <1>5, <1>6 DEF ShownTo
<1>8. QED
  BY <1>1, <1>3, <1>7 DEF n

\* They are finitely many, and each is one more.
LEMMA ShownToFinite ==
    ASSUME NEW t, NEW ignore, NEW i \in Nat
    PROVE  /\ IsFiniteSet(ShownTo(t, i, ignore)) /\ Cardinality(ShownTo(t, i, ignore)) \in Nat
           /\ ShownTo(t, i, ignore) \subseteq 1 .. i
<1>1. ShownTo(t, i, ignore) \subseteq 1 .. i
  BY DEF ShownTo
<1>2. IsFiniteSet(1 .. i)
  BY FS_Interval
<1>3. QED
  BY <1>1, <1>2, FS_Subset, FS_CardinalityType

\* A piece that is shown counts one more than any before it.
LEMMA ShownToGrows ==
    ASSUME NEW t, NEW ignore, NEW n \in Nat, NEW i \in 0 .. n, NEW j \in ShownTo(t, n, ignore), i < j
    PROVE  Cardinality(ShownTo(t, i, ignore)) < Cardinality(ShownTo(t, j, ignore))
<1> DEFINE S == ShownTo(t, i, ignore)
           T == ShownTo(t, j, ignore)
<1>1. j \in 1 .. n /\ Shown(t, j, ignore) /\ i \in Nat /\ j \in Nat
  BY DEF ShownTo
<1>2. IsFiniteSet(S) /\ Cardinality(S) \in Nat /\ S \subseteq 1 .. i
  BY <1>1, ShownToFinite
<1>3. IsFiniteSet(T) /\ Cardinality(T) \in Nat
  BY <1>1, ShownToFinite
<1>4. S \cup {j} \subseteq T
  <2>1. \A k \in 1 .. i : k \in 1 .. j
    BY <1>1
  <2>2. j \in 1 .. j
    BY <1>1
  <2>3. QED
    BY <1>1, <2>1, <2>2 DEF ShownTo
<1>5. j \notin S
  BY <1>1, <1>2
<1>. HIDE DEF S, T
<1>6. Cardinality(S \cup {j}) = Cardinality(S) + 1
  BY <1>2, <1>5, FS_AddElement
<1>7. Cardinality(S \cup {j}) <= Cardinality(T)
  BY <1>3, <1>4, FS_Subset
<1>8. Cardinality(S) < Cardinality(T)
  BY <1>2, <1>3, <1>6, <1>7
<1>9. QED
  BY <1>8 DEF S, T

\* The piece with m shown up to it.
At(t, ignore, m) ==
    CHOOSE i \in ShownTo(t, Len(t), ignore) : Cardinality(ShownTo(t, i, ignore)) = m

\* No other piece has as many shown up to it.
LEMMA AtIs ==
    ASSUME NEW t, Len(t) \in Nat, NEW ignore, NEW i \in ShownTo(t, Len(t), ignore)
    PROVE  At(t, ignore, Cardinality(ShownTo(t, i, ignore))) = i
<1> DEFINE S == ShownTo(t, Len(t), ignore)
           K(j) == Cardinality(ShownTo(t, j, ignore))
<1>1. S \subseteq 1 .. Len(t)
  BY ShownToFinite
<1>2. ASSUME NEW j \in S, K(j) = K(i) PROVE j = i
  <2>1. i \in 0 .. Len(t) /\ j \in 0 .. Len(t) /\ i \in Nat /\ j \in Nat
    BY <1>1, <1>2
  <2>2. K(i) \in Nat /\ K(j) \in Nat
    BY <2>1, ShownToFinite
  <2>3. i < j => K(i) < K(j)
    BY <1>2, <2>1, ShownToGrows
  <2>4. j < i => K(j) < K(i)
    BY <1>2, <2>1, ShownToGrows
  <2>. HIDE DEF K, S
  <2>5. QED
    BY <1>2, <2>1, <2>2, <2>3, <2>4
<1>. HIDE DEF K
<1>3. (CHOOSE j \in S : K(j) = K(i)) = i
  BY <1>2
<1>4. QED
  BY <1>3 DEF At, K

\* The meaning of a piece is a delta, and a reading a sequence of them.
LEMMA MeaningType == ASSUME NEW t, NEW i PROVE Meaning(t, i) \in Deltas
<1>1. CASE \E c \in Calls : IsCall(t, i, c)
  <2>1. (CHOOSE c \in Calls : IsCall(t, i, c)) \in Calls
    BY <1>1
  <2>2. QED
    BY <1>1, <2>1, DeltaTypes DEF Meaning
<1>2. CASE ~\E c \in Calls : IsCall(t, i, c)
  BY <1>2, DeltaTypes DEF Meaning
<1>3. QED
  BY <1>1, <1>2

\* A reading is a sequence of deltas, one for each piece that is shown.
LEMMA ReadingType ==
    ASSUME NEW t \in Seq(Pieces0), NEW ignore
    PROVE  /\ Reading(t, ignore) \in Seq(Deltas)
           /\ Len(Reading(t, ignore)) = Cardinality(ShownTo(t, Len(t), ignore))
           /\ \A m \in 1 .. Cardinality(ShownTo(t, Len(t), ignore)) :
                 Reading(t, ignore)[m] = Meaning(t, At(t, ignore, m))
<1> DEFINE N == Cardinality(ShownTo(t, Len(t), ignore))
           M(m) == Meaning(t, At(t, ignore, m))
<1>1. Reading(t, ignore) = [m \in 1 .. N |-> M(m)]
  BY DEF Reading, ShownTo, At
<1>2. N \in Nat
  BY ShownToFinite
<1>3. \A m : M(m) \in Deltas
  BY MeaningType
<1>. HIDE DEF N, M
<1>4. [m \in 1 .. N |-> M(m)] \in Seq(Deltas) /\ Len([m \in 1 .. N |-> M(m)]) = N
  BY <1>2, <1>3
<1>5. \A m \in 1 .. N : [l \in 1 .. N |-> M(l)][m] = M(m)
  OBVIOUS
<1>6. QED
  BY <1>1, <1>4, <1>5 DEF N, M

\* One piece more adds its meaning if it is shown.
LEMMA ReadingAfter ==
    ASSUME NEW t \in Seq(Pieces0), NEW c \in Pieces0, NEW u, Joined(t, c, u), NEW ignore,
           Counted(t, ignore)
    PROVE  /\ Counted(u, ignore)
           /\ Reading(u, ignore) = IF Shown(u, Len(u), ignore)
                                   THEN Append(Reading(t, ignore), Meaning(u, Len(u)))
                                   ELSE Reading(t, ignore)
<1> DEFINE n == Len(t)
           k == Len(u)
           S(i) == ShownTo(t, i, ignore)
           T(i) == ShownTo(u, i, ignore)
           N == Cardinality(S(n))
<1>1. /\ u \in Seq(Pieces0) /\ n \in Nat /\ k = n + 1 /\ \A i \in 1 .. n : u[i] = t[i]
  BY Longer DEF Joined
<1>2. /\ \A i \in 0 .. n : T(i) = S(i)
      /\ T(k) = IF Shown(u, k, ignore) THEN S(n) \cup {k} ELSE S(n)
  BY ShownToAfter
<1>3. IsFiniteSet(S(n)) /\ N \in Nat /\ S(n) \subseteq 1 .. n
  BY <1>1, ShownToFinite
<1>4. Cardinality(T(k)) = IF Shown(u, k, ignore) THEN N + 1 ELSE N
  <2>1. k \notin S(n)
    BY <1>1, <1>3
  <2>2. Cardinality(S(n) \cup {k}) = N + 1
    BY <1>3, <2>1, FS_AddElement
  <2>3. QED
    BY <1>2, <2>2
<1>5. ASSUME NEW m \in 1 .. N
      PROVE  \E i \in S(n) : /\ i \in T(k) /\ Cardinality(T(i)) = m
                             /\ At(t, ignore, m) = i /\ At(u, ignore, m) = i /\ Meaning(u, i) = Meaning(t, i)
  <2>1. PICK i \in S(n) : Cardinality(S(i)) = m
    BY DEF Counted
  <2>2. i \in 1 .. n /\ i \in 0 .. n
    BY <1>1, <1>3, <2>1
  <2>3. i \in T(k) /\ T(i) = S(i)
    BY <1>2, <2>1, <2>2
  <2>4. At(t, ignore, m) = i
    BY <1>1, <2>1, AtIs
  <2>5. At(u, ignore, Cardinality(T(i))) = i
    BY <1>1, <2>3, AtIs
  <2>6. Meaning(u, i) = Meaning(t, i)
    BY <1>1, <2>2, ShownBefore
  <2>7. QED
    BY <2>1, <2>3, <2>4, <2>5, <2>6
<1>6. ASSUME Shown(u, k, ignore)
      PROVE  /\ k \in T(k) /\ Cardinality(T(k)) = N + 1 /\ At(u, ignore, N + 1) = k
  <2>1. k \in T(k) /\ Cardinality(T(k)) = N + 1
    BY <1>2, <1>4, <1>6
  <2>2. At(u, ignore, Cardinality(T(k))) = k
    BY <1>1, <2>1, AtIs
  <2>3. QED
    BY <2>1, <2>2
<1>7. Counted(u, ignore)
  <2>1. SUFFICES ASSUME NEW m \in 1 .. Cardinality(T(k))
                 PROVE  \E i \in T(k) : Cardinality(T(i)) = m
    BY <1>1 DEF Counted
  <2>2. CASE m \in 1 .. N
    BY <1>5, <2>2
  <2>3. CASE m \notin 1 .. N
    <3>1. Shown(u, k, ignore) /\ m = N + 1
      <4>. HIDE DEF N, S, T, n, k
      <4>1. QED
        BY <1>3, <1>4, <2>3
    <3>2. QED
      BY <1>6, <3>1
  <2>4. QED
    BY <2>2, <2>3
<1> DEFINE R == Reading(t, ignore)
           Q == Reading(u, ignore)
<1>8. /\ R \in Seq(Deltas) /\ Len(R) = N /\ \A m \in 1 .. N : R[m] = Meaning(t, At(t, ignore, m))
  BY ReadingType
<1>9. /\ Q \in Seq(Deltas) /\ Len(Q) = Cardinality(T(k))
      /\ \A m \in 1 .. Cardinality(T(k)) : Q[m] = Meaning(u, At(u, ignore, m))
  BY <1>1, ReadingType
<1>10. \A m \in 1 .. N : m \in 1 .. Cardinality(T(k))
  <2>. HIDE DEF N, S, T, n, k
  <2>1. QED
    BY <1>3, <1>4
<1>11. \A m \in 1 .. N : Q[m] = R[m]
  BY <1>5, <1>8, <1>9, <1>10
<1>12. CASE Shown(u, k, ignore)
  <2>1. N + 1 \in 1 .. Cardinality(T(k))
    <3>. HIDE DEF N, S, T, n, k
    <3>1. QED
      BY <1>3, <1>6, <1>12
  <2>2. Q[N + 1] = Meaning(u, k) /\ Len(Q) = N + 1
    BY <1>6, <1>9, <1>12, <2>1
  <2>3. Meaning(u, k) \in Deltas
    BY MeaningType
  <2>. HIDE DEF Q, R, N, S, T
  <2>4. Q = Append(R, Meaning(u, k))
    <3>1. /\ Append(R, Meaning(u, k)) \in Seq(Deltas) /\ Len(Append(R, Meaning(u, k))) = N + 1
          /\ Append(R, Meaning(u, k))[N + 1] = Meaning(u, k)
          /\ \A m \in 1 .. N : Append(R, Meaning(u, k))[m] = R[m]
      BY <1>8, <2>3, AppendAt
    <3>2. \A m \in 1 .. N + 1 : Q[m] = Append(R, Meaning(u, k))[m]
      <4>1. \A m \in 1 .. N + 1 : m \in 1 .. N \/ m = N + 1
        BY <1>3
      <4>2. QED
        BY <1>11, <2>2, <3>1, <4>1
    <3>3. QED
      BY <1>9, <2>2, <3>1, <3>2, SeqEqual
  <2>5. QED
    BY <1>7, <1>12, <2>4 DEF Q, R
<1>13. CASE ~Shown(u, k, ignore)
  <2>1. Len(Q) = N
    BY <1>4, <1>9, <1>13
  <2>. HIDE DEF Q, R, N, S, T
  <2>2. Q = R
    BY <1>8, <1>9, <1>11, <2>1, SeqEqual
  <2>3. QED
    BY <1>7, <1>13, <2>2 DEF Q, R
<1>14. QED
  BY <1>12, <1>13

\* What the operator puts out for a piece is what the piece means where it is.
LEMMA DeltaOfPiece ==
    ASSUME NEW t \in Seq(Pieces0), NEW c \in Pieces0, NEW u, Joined(t, c, u),
           tokens \in Seq(Pieces0), ModeOf(t, mode, tokens)
    PROVE  /\ (\E x \in Calls : IsCall(u, Len(u), x)) <=> (c = "eotc" /\ Valid)
           /\ c = "eotc" /\ Valid => Meaning(u, Len(u)) = ToolCalls(tokens[1])
           /\ c = "eotc" => (Shown(u, Len(u), ignoring) <=> Valid)
           /\ Delta(c, "none") = IF Shown(u, Len(u), ignoring) THEN <<Meaning(u, Len(u))>> ELSE <<>>
<1> DEFINE n == Len(t)
           k == Len(u)
           P == Pieces(t, k)
<1>1. /\ n \in Nat /\ k = n + 1 /\ u[k] = c /\ \A i \in 1 .. n : u[i] = t[i]
  BY Longer DEF Joined
<1>2. (Inside(u, k) <=> Inside(t, k)) /\ (Thought(u, k) <=> Thought(t, k)) /\ Pieces(u, k) = P
  <2>1. k \in 1 .. n + 1
    BY <1>1
  <2>. HIDE DEF n, k
  <2>2. Inside(u, k) <=> Inside(t, k)
    BY <1>1, <2>1, InsideBefore
  <2>3. Thought(u, k) <=> Thought(t, k)
    BY <1>1, <2>1, ThoughtBefore
  <2>4. Pieces(u, k) = Pieces(t, k)
    BY <1>1, <2>1, PiecesBefore
  <2>5. QED
    BY <2>2, <2>3, <2>4
<1>3. /\ mode = "tool_call" <=> Inside(t, k)
      /\ mode = "reasoning" <=> Thought(t, k)
      /\ P = {} => tokens = <<>>
      /\ \A i \in P : IF P = {i} THEN tokens = <<t[i]>> ELSE Len(tokens) > 1
  BY <1>1 DEF ModeOf
<1>4. P \subseteq 1 .. k - 1 /\ \A i \in P : u[i] = t[i]
  BY <1>1 DEF Pieces
<1>5. \A x : IsCall(u, k, x) <=> c = "eotc" /\ x \in Calls /\ \E i \in P : P = {i} /\ t[i] = x
  BY <1>1, <1>2, <1>4 DEF IsCall
<1>. HIDE DEF n, k, P
<1>6. ASSUME NEW x, IsCall(u, k, x) PROVE c = "eotc" /\ Valid /\ tokens[1] = x
  <2>1. PICK i \in P : P = {i} /\ t[i] = x
    BY <1>5, <1>6
  <2>2. tokens = <<x>> /\ x \in Calls /\ c = "eotc"
    BY <1>3, <1>5, <1>6, <2>1
  <2>3. QED
    BY <2>2 DEF Valid
<1>7. ASSUME c = "eotc", Valid PROVE IsCall(u, k, tokens[1])
  <2>1. Len(tokens) = 1 /\ tokens[1] \in Calls
    BY <1>7 DEF Valid
  <2>2. tokens # <<>>
    <3>1. tokens = <<>> => Len(tokens) = 0
      OBVIOUS
    <3>2. QED
      BY <2>1, <3>1
  <2>3. PICK i \in P : TRUE
    BY <1>3, <2>2
  <2>4. P = {i}
    BY <1>3, <2>1, <2>3
  <2>5. tokens = <<t[i]>>
    BY <1>3, <2>3, <2>4
  <2>6. tokens[1] = t[i]
    BY <2>5
  <2>7. QED
    BY <1>5, <1>7, <2>1, <2>3, <2>4, <2>6
<1>8. (\E x \in Calls : IsCall(u, k, x)) <=> (c = "eotc" /\ Valid)
  <2>1. Valid => tokens[1] \in Calls
    BY DEF Valid
  <2>2. QED
    BY <1>6, <1>7, <2>1
<1>9. c = "eotc" /\ Valid => Meaning(u, k) = ToolCalls(tokens[1])
  <2>1. SUFFICES ASSUME c = "eotc", Valid PROVE Meaning(u, k) = ToolCalls(tokens[1])
    OBVIOUS
  <2>2. tokens[1] \in Calls
    BY <2>1 DEF Valid
  <2>3. (CHOOSE x \in Calls : IsCall(u, k, x)) = tokens[1]
    BY <1>6, <1>7, <2>1, <2>2
  <2>4. QED
    BY <1>8, <2>1, <2>3 DEF Meaning
<1>10. c = "eotc" => (Shown(u, k, ignoring) <=> Valid)
  BY <1>1, <1>8 DEF Shown
<1>11. Delta(c, "none") = IF Shown(u, k, ignoring) THEN <<Meaning(u, k)>> ELSE <<>>
  <2>1. CASE c = "eotc" /\ Valid
    BY <1>9, <1>10, <2>1 DEF Delta
  <2>2. CASE c = "eotc" /\ ~Valid
    BY <1>10, <2>2 DEF Delta
  <2>3. CASE c # "eotc"
    <3>1. /\ Shown(u, k, ignoring) <=> c = "word" /\ mode # "tool_call" /\ ~(ignoring /\ mode = "reasoning")
          /\ Meaning(u, k) = IF mode = "reasoning" THEN Reasoning ELSE Text
      BY <1>1, <1>2, <1>3, <1>8, <2>3 DEF Shown, Meaning
    <3>2. QED
      BY <2>3, <3>1 DEF Delta
  <2>4. QED
    BY <2>1, <2>2, <2>3
<1>12. QED
  BY <1>8, <1>9, <1>10, <1>11 DEF k

-----------------------------------------------------------------------------
(* The deltas of a request are those its text means.                       *)

\* AnswerIsParsed, of any text and deltas.
Parsed(t, r, ds, ignore) ==
    LET last == Len(t)
        seen == IF r = "none" \/ t[last] = "eotc" THEN t ELSE SubSeq(t, 1, last - 1)
    IN  ds = Reading(seen, ignore) \o
            (IF r = "none" \/ \E c \in Calls : IsCall(t, last, c) THEN <<>> ELSE <<Final(r)>>)

\* While a request is under way nothing follows the reading.
LEMMA ParsedGoing ==
    ASSUME NEW t \in Seq(Pieces0), NEW ds, NEW ignore
    PROVE  Parsed(t, "none", ds, ignore) <=> ds = Reading(t, ignore)
<1>1. Reading(t, ignore) \in Seq(Deltas)
  BY ReadingType
<1>2. Reading(t, ignore) \o <<>> = Reading(t, ignore)
  BY <1>1, ConcatEmptySeq
<1>3. QED
  BY <1>2 DEF Parsed

\* What a step puts out for piece c keeps them so, whether or not it is the last.
LEMMA ParsedAfter ==
    ASSUME NEW t \in Seq(Pieces0), NEW c \in Pieces0, NEW u, Joined(t, c, u),
           tokens \in Seq(Pieces0), ModeOf(t, mode, tokens), Counted(t, ignoring),
           NEW f \in Reasons \cup {"none"}
    PROVE  Parsed(u, f, Reading(t, ignoring) \o Delta(c, f), ignoring)
<1> DEFINE k == Len(u)
           R == Reading(t, ignoring)
           M == Meaning(u, k)
<1>1. /\ u \in Seq(Pieces0) /\ Len(t) \in Nat /\ k = Len(t) + 1 /\ u[k] = c
      /\ \A i \in 1 .. Len(t) : u[i] = t[i]
  BY Longer DEF Joined
<1>2. Reading(u, ignoring) = IF Shown(u, k, ignoring) THEN Append(R, M) ELSE R
  BY ReadingAfter
<1>3. R \in Seq(Deltas) /\ M \in Deltas
  BY ReadingType, MeaningType
<1>4. R \o <<>> = R /\ Append(R, M) = R \o <<M>>
  BY <1>3, ConcatEmptySeq, AppendIsConcat
<1>5. /\ (\E x \in Calls : IsCall(u, k, x)) <=> (c = "eotc" /\ Valid)
      /\ c = "eotc" /\ Valid => M = ToolCalls(tokens[1])
      /\ c = "eotc" => (Shown(u, k, ignoring) <=> Valid)
      /\ Delta(c, "none") = IF Shown(u, k, ignoring) THEN <<M>> ELSE <<>>
  BY DeltaOfPiece
<1>6. Reading(u, ignoring) \o <<>> = Reading(u, ignoring)
  BY <1>1, ReadingType, ConcatEmptySeq
<1>. HIDE DEF k, R, M
<1>7. CASE f = "none"
  <2>1. R \o Delta(c, f) = Reading(u, ignoring)
    BY <1>2, <1>4, <1>5, <1>7
  <2>2. QED
    BY <1>1, <1>7, <2>1, ParsedGoing DEF R
<1>8. CASE f # "none" /\ c = "eotc" /\ Valid
  <2>1. Delta(c, f) = <<M>>
    BY <1>5, <1>8 DEF Delta
  <2>2. R \o Delta(c, f) = Reading(u, ignoring) \o <<>>
    BY <1>2, <1>4, <1>5, <1>6, <1>8, <2>1
  <2>3. QED
    BY <1>1, <1>5, <1>8, <2>2 DEF Parsed, k, R
<1>9. CASE f # "none" /\ c = "eotc" /\ ~Valid
  <2>1. Delta(c, f) = <<Final(f)>>
    BY <1>9 DEF Delta
  <2>2. Reading(u, ignoring) = R
    BY <1>2, <1>5, <1>9
  <2>3. QED
    BY <1>1, <1>5, <1>9, <2>1, <2>2 DEF Parsed, k, R
<1>10. CASE f # "none" /\ c # "eotc"
  <2>1. Delta(c, f) = <<Final(f)>>
    BY <1>10 DEF Delta
  <2>2. SubSeq(u, 1, k - 1) = t
    <3>1. k - 1 = Len(t)
      BY <1>1
    <3>2. /\ SubSeq(u, 1, Len(t)) \in Seq(Pieces0) /\ Len(SubSeq(u, 1, Len(t))) = Len(t)
          /\ \A i \in 1 .. Len(t) : SubSeq(u, 1, Len(t))[i] = u[i]
      BY <1>1 DEF k
    <3>3. SubSeq(u, 1, Len(t)) = t
      BY <1>1, <3>2, SeqEqual
    <3>4. QED
      BY <3>1, <3>3
  <2>3. QED
    BY <1>1, <1>5, <1>10, <2>1, <2>2 DEF Parsed, k, R
<1>11. QED
  BY <1>7, <1>8, <1>9, <1>10

\* An empty text means nothing.
LEMMA ParsedEmpty ==
    \A ignore : Counted(<<>>, ignore) /\ Parsed(<<>>, "none", <<>>, ignore)
<1> SUFFICES ASSUME NEW ignore PROVE Counted(<<>>, ignore) /\ Parsed(<<>>, "none", <<>>, ignore)
  OBVIOUS
<1>1. <<>> \in Seq(Pieces0) /\ Len(<<>>) = 0
  OBVIOUS
<1>2. ShownTo(<<>>, 0, ignore) = {}
  BY DEF ShownTo
<1>3. Cardinality(ShownTo(<<>>, Len(<<>>), ignore)) = 0
  BY <1>1, <1>2, FS_EmptySet
<1>4. Counted(<<>>, ignore)
  BY <1>3 DEF Counted
<1>5. Reading(<<>>, ignore) \in Seq(Deltas) /\ Len(Reading(<<>>, ignore)) = 0
  BY <1>1, <1>3, ReadingType
<1>6. Reading(<<>>, ignore) = <<>>
  BY <1>5
<1>7. QED
  BY <1>1, <1>4, <1>6, ParsedGoing

\* TextInv in terms of the text, before a step.
LEMMA TextAgain ==
    TextInv <=> /\ running => reason = "none"
                /\ reason = "none" => Counted(generated, ignoring)
                /\ Synced => ModeOf(generated, mode, tokens)
                /\ clean => Parsed(generated, reason, deltas, ignoring)
BY DEF TextInv, ModeInv, AnswerIsParsed, Parsed

\* TextInv in terms of the text, after a step.
LEMMA TextAgainPrime ==
    TextInv' <=> /\ running' => reason' = "none"
                 /\ reason' = "none" => Counted(generated', ignoring')
                 /\ Synced' => ModeOf(generated', mode', tokens')
                 /\ clean' => Parsed(generated', reason', deltas', ignoring')
BY DEF TextInv, ModeInv, AnswerIsParsed, Parsed, Counted, ModeOf

\* A piece is generated for a request under way: TextInv is kept, by the lemmas above.
LEMMA StepText ==
    ASSUME TextTypes, TextInv, NEW c \in Pieces0, NEW f \in Reasons \cup {"none"}, Step(c, f)
    PROVE  TextInv'
<1>1. PICK t \in Seq(Pieces0), ds \in {deltas}, ignore \in {ignoring} : t = generated /\ ds = deltas /\ ignore = ignoring
  BY DEF TextTypes
<1>2. PICK u : Joined(t, c, u)
  BY DEF Joined
<1>3. /\ Parse(c) /\ generated' = u /\ reason' = f /\ running' = (f = "none")
      /\ deltas' = deltas \o Delta(c, f) /\ clean' = clean /\ ignoring' = ignore
  BY <1>1, <1>2 DEF Step, Joined
<1>4. reason = "none"
  BY DEF Step, Generates, TextInv
<1>5. Counted(t, ignoring)
  BY <1>1, <1>4 DEF TextInv
<1>6. tokens \in Seq(Pieces0) /\ mode \in {"text", "tool_call", "reasoning"}
  BY DEF TextTypes
<1>7. Synced => ModeOf(t, mode, tokens)
  BY <1>1 DEF TextInv, ModeInv
<1>8. Synced' => Synced \/ c = "eotc"
  <2>1. /\ Len(t) \in Nat /\ u \in Seq(Pieces0) /\ Len(u) = Len(t) + 1 /\ u[Len(t) + 1] = c
        /\ \A i \in 1 .. Len(t) : u[i] = t[i]
    BY <1>2, Longer DEF Joined
  <2>2. \A i \in DOMAIN u : i \in DOMAIN t \/ i = Len(t) + 1
    BY <2>1
  <2>3. \A i \in DOMAIN t : u[i] = t[i]
    BY <2>1
  <2>4. QED
    BY <1>1, <1>3, <2>1, <2>2, <2>3 DEF Synced
<1>9. Synced' => ModeOf(u, mode', tokens')
  BY <1>2, <1>3, <1>6, <1>7, <1>8, ModeAfter DEF Joined
<1>10. Counted(u, ignoring)
  BY <1>2, <1>5, ReadingAfter
<1>11. clean => Parsed(u, f, deltas \o Delta(c, f), ignoring)
  <2>1. SUFFICES ASSUME clean PROVE Parsed(u, f, deltas \o Delta(c, f), ignoring)
    OBVIOUS
  <2>2. ModeOf(t, mode, tokens)
    BY <1>7, <2>1 DEF Synced
  <2>3. deltas = Reading(t, ignoring)
    BY <1>1, <1>4, <2>1, TextAgain, ParsedGoing
  <2>4. QED
    BY <1>2, <1>5, <1>6, <2>2, <2>3, ParsedAfter
<1>12. QED
  BY <1>1, <1>3, <1>9, <1>10, <1>11, TextAgainPrime

\* A request begins, after one that has ended as it should if it is clean.
LEMMA InitializeText ==
    ASSUME TextTypes, TextInv, NEW ignore, Initialize(ignore)
    PROVE  TextInv'
<1>1. PICK t \in Seq(Pieces0) : t = generated
  BY DEF TextTypes
<1>2. /\ clean' => ~BrokenOff(t) /\ Synced
      /\ generated' = <<>> /\ reason' = "none" /\ deltas' = <<>> /\ ignoring' = ignore
      /\ mode' = mode /\ tokens' = tokens
  BY <1>1 DEF Initialize, Synced
<1>3. Synced' => clean'
  BY <1>2 DEF Synced
<1>4. Synced' => ModeOf(<<>>, mode, tokens)
  BY <1>1, <1>2, <1>3, ModeOfNothing DEF TextInv, ModeInv, TextTypes
<1>5. Counted(<<>>, ignore) /\ Parsed(<<>>, "none", <<>>, ignore)
  BY ParsedEmpty
<1>6. QED
  BY <1>2, <1>4, <1>5, TextAgainPrime

\* A new engine.
LEMMA NewText == ModeOf(<<>>, "text", <<>>)
<1>1. Len(<<>>) + 1 = 1
  OBVIOUS
<1>2. QED
  BY <1>1, EmptyText DEF ModeOf

\* Every step of the engine keeps what it has put out in step with the text.
LEMMA TextInvStep == TypeOK /\ TextInv /\ [Next]_vars => TextInv'
<1> SUFFICES ASSUME TypeOK, TextInv, [Next]_vars PROVE TextInv'
  OBVIOUS
<1>0. TextTypes
  BY DEF TypeOK
<1>1. CASE UNCHANGED modelVars
  BY <1>1, TextAgain, TextAgainPrime DEF modelVars, Synced
<1>2. CASE NewModel
  <2>1. /\ running' = FALSE /\ reason' = "none" /\ generated' = <<>> /\ deltas' = <<>>
        /\ mode' = "text" /\ tokens' = <<>>
    BY <1>2 DEF NewModel
  <2>2. QED
    BY <2>1, NewText, ParsedEmpty, TextAgainPrime
<1>3. ASSUME NEW ignore, Initialize(ignore) PROVE TextInv'
  BY <1>0, <1>3, InitializeText
<1>4. ASSUME NEW c \in Pieces0, NEW f \in Reasons \cup {"none"}, Step(c, f) PROVE TextInv'
  BY <1>0, <1>4, StepText
<1>5. CASE ServeDefine
  BY <1>1, <1>2, <1>5 DEF ServeDefine
<1>6. CASE ServeInfer
  BY <1>1, <1>3, <1>6 DEF ServeInfer, InferOpenAI
<1>7. CASE Generate
  BY <1>4, <1>7 DEF Generate, Pieces0
<1>8. CASE ~(ServeDefine \/ ServeInfer \/ Generate)
  BY <1>1, <1>8 DEF Next, VM, vars, Define, Delete, AddTool, Query, Abandon, Responds, Take, Ending,
     BeginTools, StartTool, ToolsRefused, ToolsReturn, NextResult, ServeDelete, ServeTool, ReportError
<1>9. QED
  BY <1>5, <1>6, <1>7, <1>8

\* language_model.cpp, mlc_llm_engine.cpp: as long as no generation has broken off
\* in a call or a thought, the deltas of a request are the reading of its text: a
\* call is shown once and complete, no piece of it is, and the reason comes last.
THEOREM AgentAnswerIsParsed == Spec => []AnswerIsParsed
<1>1. Init => TextInv
  <2> SUFFICES ASSUME Init PROVE TextInv
    OBVIOUS
  <2>1. /\ running = FALSE /\ reason = "none" /\ generated = <<>> /\ deltas = <<>>
        /\ mode = "text" /\ tokens = <<>>
    BY DEF Init, ModelInit
  <2>2. QED
    BY <2>1, NewText, ParsedEmpty, TextAgain
<1>2. TypeOK /\ TextInv /\ [Next]_vars => TextInv'
  BY TextInvStep
<1>3. TextInv => AnswerIsParsed
  BY DEF TextInv
<1>4. QED
  BY <1>1, <1>2, <1>3, AgentTypes, PTL DEF Spec

=============================================================================
