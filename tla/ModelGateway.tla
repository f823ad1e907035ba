---------------------------- MODULE ModelGateway ----------------------------
(***************************************************************************)
(* One completion through the model gateway (model_adapter.c) and what     *)
(* belya_agent_step does with its answer: attempts at the primary and then *)
(* the fallback endpoint, the waits between them, the assembly of a        *)
(* streamed answer line by line, and the scavenging of tool calls from the *)
(* text of an answer that makes none.                                      *)
(***************************************************************************)
EXTENDS Integers, Sequences, SequencesExt, FiniteSets, FiniteSetsExt

CONSTANTS Lines,        \* the server-sent lines a provider may send
          MaxLines,     \* bound: lines of one answer
          max_retries,  \* attempts per endpoint (at least one is made)
          Retry_After,  \* values of the header, 0 when it is absent
          RetryCap      \* BELYA_RETRY_AFTER_CAP, 30 by default

ASSUME GatewayAssumption == /\ MaxLines \in Nat /\ max_retries \in Nat
                            /\ Retry_After \subseteq Nat /\ RetryCap \in Nat

VARIABLES config,     \* what does not change: streaming, fallback, the model
          pc,         \* "send", "recv", "sleep", "done", "ran"
          endpoint,   \* "primary" or "fallback"
          attempt, sleep_sec,
          waited,     \* seconds slept at this endpoint
          ctx,        \* StreamContext of the current attempt
          sent,       \* the lines of this attempt (for the properties)
          resp,       \* ModelGatewayResponse
          executed,   \* the tool calls belya_agent_step goes on with
          answers     \* how the answers received began (for the properties)

vars == <<config, pc, endpoint, attempt, sleep_sec, waited, ctx, sent, resp, executed, answers>>

max_attempts == IF max_retries > 0 THEN max_retries ELSE 1
NoIndex == -1
NoId    == "NULL"

EmptyCtx == [content |-> <<>>, reasoning |-> <<>>, calls |-> <<>>, inside |-> FALSE]
NoResp   == [kind |-> "none", content |-> <<>>, reasoning |-> <<>>, calls |-> <<>>, copied |-> FALSE]

(* The text of an error is the content of the response.                    *)
Error(text) == [NoResp EXCEPT !.kind = "error", !.content = <<text>>]

(* is_r1: tools are described in the prompt.  local: the primary is on     *)
(* this host.  fallback: one is configured and differs from the primary.   *)
Init == /\ config \in [streaming : BOOLEAN, fallback : BOOLEAN, local : BOOLEAN, is_r1 : BOOLEAN]
        /\ pc = "send" /\ endpoint = "primary"
        /\ attempt = 0 /\ sleep_sec = 1 /\ waited = 0
        /\ ctx = EmptyCtx /\ sent = <<>>
        /\ resp = NoResp /\ executed = <<>> /\ answers = {}

------------------------------------------------------------------------------
(* stream_process_line *)

(* Text between <think> and </think> is reasoning, across lines too. *)
AddWord(c, w) ==
    CASE ~c.inside /\ w = "<think>"  -> [c EXCEPT !.inside = TRUE]
      [] c.inside /\ w = "</think>"  -> [c EXCEPT !.inside = FALSE]
      [] c.inside /\ w # "</think>"  -> [c EXCEPT !.reasoning = Append(@, w)]
      [] OTHER                       -> [c EXCEPT !.content = Append(@, w)]

(* A fragment belongs to the call of its index, or is a new call when it   *)
(* has none; calls skipped over stay blank.                                *)
Blank == [id |-> NoId, args |-> <<>>]
AddFragment(c, f) ==
    LET idx   == (IF f.index = NoIndex THEN Len(c.calls) ELSE f.index) + 1
        grown == [k \in 1 .. Max({idx, Len(c.calls)}) |->
                     IF k <= Len(c.calls) THEN c.calls[k] ELSE Blank]
        id    == CASE f.id # NoId -> f.id
                   [] f.id = NoId /\ grown[idx].id = NoId -> "call_default"
                   [] OTHER -> grown[idx].id
    IN  [c EXCEPT !.calls = [grown EXCEPT ![idx] = [id |-> id, args |-> Append(@.args, f.args)]]]

process_line(c, l) ==
    CASE l.kind = "content"   -> FoldLeft(AddWord, c, l.words)
      [] l.kind = "reasoning" -> [c EXCEPT !.reasoning = @ \o l.words]
      [] l.kind = "fragment"  -> AddFragment(c, l)
      [] OTHER                -> c

(* Without streaming the whole message arrives at once and its content is  *)
(* taken as it stands.                                                     *)
whole_message(c, l) == IF l.kind = "content" THEN [c EXCEPT !.content = @ \o l.words]
                                             ELSE process_line(c, l)

------------------------------------------------------------------------------
(* openai_chat_complete_inner *)

(* Fault: the context outlives the attempt. *)
FreshCtx_Kept == ctx

FreshCtx == EmptyCtx

Send ==
    /\ pc = "send"
    /\ ctx' = FreshCtx /\ sent' = <<>>
    /\ pc' = "recv"
    /\ UNCHANGED <<config, endpoint, attempt, sleep_sec, waited, resp, executed, answers>>

Receive(l) ==
    /\ pc = "recv" /\ Len(sent) < MaxLines
    /\ ctx' = IF config.streaming THEN process_line(ctx, l) ELSE whole_message(ctx, l)
    /\ sent' = Append(sent, l)
    /\ UNCHANGED <<config, pc, endpoint, attempt, sleep_sec, waited, resp, executed, answers>>

LastAttempt == attempt = max_attempts - 1

(* An answer that made no call and said nothing gets its reasoning as its  *)
(* content, or an error text.                                              *)
Answer(body) ==
    LET said == [kind |-> "answer", content |-> ctx.content, reasoning |-> ctx.reasoning,
                 calls |-> ctx.calls, copied |-> FALSE]
    IN  CASE ctx.content # <<>> \/ ctx.calls # <<>> -> said
          [] ctx.content = <<>> /\ ctx.calls = <<>> /\ ctx.reasoning # <<>>
               -> [said EXCEPT !.content = ctx.reasoning, !.copied = TRUE]
          [] OTHER -> Error(CASE body = "error" -> "API Error"
                              [] body = "garbage" /\ ~config.streaming -> "Error: Failed to parse"
                              [] OTHER -> "Empty response")

(* A failure is told by the first words of the content, so that an answer  *)
(* of a model that begins with them is taken for one.                      *)
FailureWords == {"Network Error", "API Error", "Connection Error", "Error: Maximum retry"}

(* Fault: an answer that only makes calls counts as failed. *)
Failed_NoText(r) == r.content = <<>> \/ r.content[1] \in FailureWords

Failed(r) == r.calls = <<>> /\ (r.content = <<>> \/ r.content[1] \in FailureWords)

(* Fault: a failed fallback is tried again. *)
FailsOver_Again(r) == Failed(r) /\ config.fallback

(* openai_chat_complete: a failed primary is followed by the fallback. *)
FailsOver(r) == Failed(r) /\ endpoint = "primary" /\ config.fallback

(* What the properties keep of an answer.                                  *)
Gist(r) == [calls |-> r.calls # <<>>, word |-> IF r.content = <<>> THEN "" ELSE r.content[1]]

Finish(r) ==
    /\ answers' = IF r.kind = "answer" THEN answers \cup {Gist(r)} ELSE answers
    /\ IF FailsOver(r)
         THEN /\ endpoint' = "fallback" /\ pc' = "send" /\ resp' = NoResp
              /\ attempt' = 0 /\ sleep_sec' = 1 /\ waited' = 0
         ELSE /\ pc' = "done" /\ resp' = r
              /\ UNCHANGED <<endpoint, attempt, sleep_sec, waited>>
    /\ UNCHANGED <<config, ctx, sent, executed>>

Again(already, s) ==
    /\ waited' = waited + already + s /\ sleep_sec' = 2 * s
    /\ attempt' = attempt + 1
    /\ pc' = "send"
    /\ UNCHANGED <<config, endpoint, ctx, sent, resp, executed, answers>>

(* curl_easy_perform fails, in the middle of the answer perhaps. *)
TransportFails(code) ==
    /\ pc = "recv"
    /\ CASE code = "refused" /\ config.local -> Finish(Error("Connection Error"))
         [] ~(code = "refused" /\ config.local) /\ code # "other" /\ ~LastAttempt -> Again(0, sleep_sec)
         [] OTHER -> Finish(Error("Network Error"))

(* Fault: the header is believed whatever it says. *)
Capped_Not(ra) == ra

Capped(ra) == IF ra > RetryCap THEN RetryCap ELSE ra

(* 429: wait as told, up to the cap, or at least four seconds; then, as    *)
(* for a server error, sleep once more and try again.                      *)
Rejected(http, ra) ==
    /\ pc = "recv" /\ sent = <<>> /\ http \in {"429", "5xx"} /\ ~LastAttempt
    /\ IF http = "429" /\ ra > 0 THEN Again(Capped(ra), 1)
       ELSE Again(0, IF http = "429" /\ sleep_sec < 4 THEN 4 ELSE sleep_sec)

(* The body of an answer that is not a stream is an error object or not. *)
Complete(http, body) ==
    /\ pc = "recv" /\ (http \in {"429", "5xx"} => LastAttempt)
    /\ sent # <<>> => http = "200" /\ body = "lines"
    /\ Finish(Answer(body))

------------------------------------------------------------------------------
(* model_gateway_scavenge_tool_calls, called by belya_agent_step *)

Marked(text)  == SelectSeq(text, LAMBDA w : w = "dsml") \o SelectSeq(text, LAMBDA w : w = "tag")
(* The scan for raw objects also sees the object inside a tag. *)
RawJson(text) == SelectSeq(text, LAMBDA w : w \in {"json", "tag"})
Blocks(text)  == SelectSeq(text, LAMBDA w : w = "block")

(* Fault: raw objects are scanned for in any case. *)
Scavenge_AlsoRaw(text) == Marked(text) \o RawJson(text)

(* DSML and tagged calls first; raw JSON objects only when there are none, *)
(* shell code blocks only when there is still nothing.                     *)
Scavenge(text) == CASE Marked(text) # <<>> -> Marked(text)
                    [] Marked(text) = <<>> /\ RawJson(text) # <<>> -> RawJson(text)
                    [] OTHER -> Blocks(text)

ScansReasoning(r) == config.is_r1 \/ r.content = <<>>

Step ==
    /\ pc = "done"
    /\ executed' = IF resp.calls # <<>> THEN resp.calls
                   ELSE (IF ScansReasoning(resp) THEN Scavenge(resp.reasoning) ELSE <<>>)
                        \o Scavenge(resp.content)
    /\ pc' = "ran"
    /\ UNCHANGED <<config, endpoint, attempt, sleep_sec, waited, ctx, sent, resp, answers>>

Next == \/ Send \/ Step
        \/ \E l \in Lines : Receive(l)
        \/ \E code \in {"timeout", "refused", "other"} : TransportFails(code)
        \/ \E http \in {"429", "5xx"}, ra \in Retry_After : Rejected(http, ra)
        \/ \E http \in {"200", "4xx", "429", "5xx"}, body \in {"lines", "error", "garbage"} :
               Complete(http, body)

(* A transfer ends, at the latest by CURLOPT_TIMEOUT, and the code goes on. *)
Spec == Init /\ [][Next]_vars /\ WF_vars(Next)

------------------------------------------------------------------------------
TypeOK ==
    /\ pc \in {"send", "recv", "done", "ran"} /\ endpoint \in {"primary", "fallback"}
    /\ attempt \in 0 .. max_attempts - 1
    /\ sleep_sec \in Nat \ {0} /\ waited \in Nat
    /\ sent \in Seq(Lines) /\ Len(sent) <= MaxLines
    /\ resp.kind \in {"none", "answer", "error"}

(* The streamed text, one word after the other, each with its channel. *)
Streamed  == FlattenSeq([i \in 1 .. Len(sent) |->
                IF sent[i].kind \in {"content", "reasoning"}
                THEN [j \in 1 .. Len(sent[i].words) |-> <<sent[i].kind, sent[i].words[j]>>]
                ELSE <<>>])
Open  == <<"content", "<think>">>
Close == <<"content", "</think>">>
Outside(i) == \A j \in 1 .. i - 1 : Streamed[j] = Open
                 => \E k \in j + 1 .. i - 1 : Streamed[k] = Close
WordsAt(S) == LET order == SetToSortSeq(S, <) IN [k \in 1 .. Len(order) |-> Streamed[order[k]][2]]
Numbered   == \A i \in 1 .. Len(sent) : sent[i].kind = "fragment" => sent[i].index # NoIndex
ArgsOf(k)  == LET mine == SelectSeq(sent, LAMBDA l : l.kind = "fragment" /\ l.index = k - 1)
              IN  [i \in 1 .. Len(mine) |-> mine[i].args]

(* Wherever the provider cuts the answer into lines, and whatever earlier  *)
(* attempts left behind, the assembled answer is that of this attempt: the *)
(* content is the text outside the think tags, the reasoning the text      *)
(* inside them and the reasoning deltas, in order, and each call has all   *)
(* the fragments of its index and no others.                               *)
AssembledAsSent ==
    (config.streaming /\ pc \in {"recv", "done"}) =>
        /\ ctx.content = WordsAt({i \in DOMAIN Streamed :
               Streamed[i][1] = "content" /\ Outside(i) /\ Streamed[i] # Open})
        /\ ctx.reasoning = WordsAt({i \in DOMAIN Streamed :
               \/ Streamed[i][1] = "reasoning"
               \/ Streamed[i][1] = "content" /\ ~Outside(i) /\ Streamed[i] # Close})
        /\ Numbered => \A k \in DOMAIN ctx.calls : ctx.calls[k].args = ArgsOf(k)

(* However an endpoint rejects its attempts, the retries of one endpoint   *)
(* sleep no longer than the cap and one second for each of them: a         *)
(* Retry-After header cannot stall a turn.  This is for the default of     *)
(* three attempts: the doubling of sleep_sec itself has no cap.            *)
WaitIsBounded == waited <= (max_attempts - 1) * (RetryCap + 1)

(* Once an attempt has brought an answer, with text or only with calls, no *)
(* other request is sent: neither a retry nor the failover repeats it.     *)
(* The exception is what the code cannot tell from a failure: an answer    *)
(* without calls whose own text begins with the words of an error.         *)
LooksFailed(a) == ~a.calls /\ a.word \in FailureWords
AnsweredOnce   == \A a \in answers :
                      LooksFailed(a) \/ (pc \in {"done", "ran"} /\ resp.kind = "answer")

(* A call the model wrote into its text once is executed once, as long as  *)
(* the gateway did not have to use the reasoning as the content.           *)
Written(kind) == Cardinality({i \in DOMAIN Streamed : Streamed[i][2] = kind})
ScavengedOnce ==
    pc = "ran" /\ ~resp.copied /\ resp.calls = <<>> /\ resp.kind = "answer" =>
        \A kind \in {"dsml", "tag", "json", "block"} :
            Cardinality({i \in DOMAIN executed : executed[i] = kind}) <= Written(kind)

(* Every completion comes back, with an answer or with an error text.      *)
EveryCompletionReturns == <>(pc = "ran")

==============================================================================
