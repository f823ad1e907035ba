------------------------------ MODULE AgentHistory ------------------------------
(***************************************************************************)
(* The conversation of belya_agent.c: the message array a model request is *)
(* built from, the saved sessions, the archive and the checkpoints kept in *)
(* SQLite, and the turns of the two front ends that drive it (the terminal *)
(* in belya_harness.c and the Telegram loop in telegram_adapter.c).        *)
(*                                                                         *)
(* A message is its kind, a number that tells messages apart, and n: the   *)
(* number of tool calls of an assistant message, the position of the call  *)
(* a tool result answers.  A tool result carries the number of the         *)
(* assistant message that made the call (tool_call_id in the code).        *)
(* Positions are one higher than in the code, whose arrays start at zero.  *)
(***************************************************************************)
EXTENDS Integers, Sequences, FiniteSets, SequencesExt

CONSTANTS
    MaxContext,   \* max_context_messages
    CompactKeep,  \* compaction_keep
    TurnLimit, TurnMsgs, TurnKeep,  \* 100, 20 and 15: the "attractor guard"
    SaveMsgs,     \* 10: least history the token auto-save looks at
    SaveInterval, \* auto_save_interval
    Steps,        \* max_steps of a turn of each front end
    Keeps,        \* what the user may pass to /compact
    Commands,     \* the slash commands the user issues
    MaxCalls,     \* bound of the model: tool calls in one answer
    MaxTurns,     \* bound of the model: user turns
    MaxMistaken,  \* bound of the model: answers with calls taken for failures
    MaxManual     \* bound of the model: checkpoints made by hand

FrontEnd == {"repl", "telegram"}

ASSUME HistoryAssumption ==
    /\ {MaxContext, CompactKeep, SaveInterval, MaxCalls} \subseteq Nat \ {0}
    /\ {TurnLimit, TurnMsgs, TurnKeep, SaveMsgs, MaxTurns, MaxManual, MaxMistaken}
          \subseteq Nat
    /\ TurnKeep \in 1 .. TurnMsgs
    /\ Steps \in [FrontEnd -> Nat \ {0, 1}]
    /\ Keeps \subseteq Nat \ {0}

VARIABLES
    messages,     \* agent->messages
    turn_count, turns_since_save,
    sessions,     \* session_messages, by session id; empty when absent
    archive,      \* session_messages_archived
    checkpoints,  \* agent_checkpoints
    front,        \* the front end this process runs
    pc,           \* where the turn is
    steps,        \* max_steps left
    resp,         \* the answer whose calls are carried out: number and calls
    answered,     \* calls of the current answer that have their result
    tokens,       \* the token estimate of the current step
    guard,        \* the verification guard: "due" once files were modified and
                  \* nothing verified, "off" once it verified or was tripped
    turns, fresh, \* the model's counters of turns and of messages
    unrecorded    \* and its note of the answers that called tools and were
                  \* taken for transport failures

dbVars   == <<sessions, archive, checkpoints>>
respVars == <<resp, unrecorded>>
vars == <<messages, turn_count, turns_since_save, sessions, archive,
          checkpoints, front, pc, steps, resp, answered, tokens, guard,
          turns, fresh, unrecorded>>

Msg(kind, u, n) == [kind |-> kind, uid |-> u, n |-> n]
System  == Msg("system", 0, 0)
NoCalls == [uid |-> 0, n |-> 0]
Summary == Msg("summary", 0, 0)

SessionId == {"auto_current", "telegram_active", "named"}

(* The token estimate: below the compaction threshold (96k of the default  *)
(* 128k), above it, or above the 80% at which the history is also saved.   *)
TokenLevel == {"low", "high", "full"}

Init == /\ messages = <<System>>
        /\ turn_count = 0 /\ turns_since_save = 0
        /\ sessions = [s \in SessionId |-> <<>>]
        /\ archive = {} /\ checkpoints = <<>>
        /\ front \in FrontEnd
        /\ pc = "idle" /\ steps = 0 /\ tokens = "low" /\ guard = "clean"
        /\ resp = NoCalls /\ answered = 0
        /\ turns = 0 /\ fresh = 1 /\ unrecorded = {}

-----------------------------------------------------------------------------
(* Compaction.                                                             *)

(* Fault: the window may begin with results whose calls were dropped. *)
WindowStart_AnyRole(h, i) == i

(* The first message from i on that is not a tool result. *)
WindowStart(h, i) ==
    CHOOSE j \in i .. Len(h) + 1 :
        /\ \A x \in i .. j - 1 : h[x].kind = "tool"
        /\ j > Len(h) \/ h[j].kind # "tool"

compact_history(h, keep) ==
    IF Len(h) <= 1 + keep THEN h
    ELSE <<h[1]>> \o SubSeq(h, WindowStart(h, Len(h) - keep + 1), Len(h))

(* Fault: the window ends one message early. *)
middle_out_WindowShort(h, keep) ==
    IF Len(h) <= 2 + keep THEN h
    ELSE <<h[1], h[2], Summary>>
            \o SubSeq(h, WindowStart(h, Len(h) - keep + 1), Len(h) - 1)

(* belya_agent_compact_history_middle_out: system and root objective stay, *)
(* the middle becomes one summary, the recent window follows.              *)
middle_out(h, keep) ==
    IF Len(h) <= 2 + keep THEN h
    ELSE <<h[1], h[2], Summary>>
            \o SubSeq(h, WindowStart(h, Len(h) - keep + 1), Len(h))

(* Fault: the loop over the rows starts behind the first of them. *)
archived_SkipsFirst(h, keep) ==
    IF Len(h) <= 2 + keep THEN {} ELSE {h[i] : i \in 4 .. Len(h) - keep}

(* The rows middle_out inserts into session_messages_archived. *)
archived(h, keep) ==
    IF Len(h) <= 2 + keep THEN {} ELSE {h[i] : i \in 3 .. Len(h) - keep}

-----------------------------------------------------------------------------
(* One step: belya_agent_step saves, compacts, asks and appends.           *)

save_session(s, h) == sessions' = [sessions EXCEPT ![s] = h]

AutoSave ==
    /\ pc = "save"
    /\ \E t \in TokenLevel :
        /\ tokens' = t
        /\ IF \/ Len(messages) > 1 /\ Len(messages) > MaxContext
              \/ Len(messages) > 1 /\ t = "full" /\ Len(messages) > SaveMsgs
              \/ turns_since_save >= SaveInterval
           THEN save_session("auto_current", messages) /\ turns_since_save' = 0
           ELSE UNCHANGED <<sessions, turns_since_save>>
    /\ pc' = "compact"
    /\ UNCHANGED respVars
    /\ UNCHANGED <<messages, turn_count, archive, checkpoints, front,
                   steps, answered, guard, turns, fresh>>

OverTokens == tokens # "low" /\ Len(messages) > CompactKeep
OverTurns  == turn_count >= TurnLimit /\ Len(messages) > TurnMsgs
OverCount  == Len(messages) > MaxContext
CountKeep  == IF MaxContext > 20 THEN 20 ELSE MaxContext \div 2

AutoKeep == CASE OverTokens -> CompactKeep
              [] ~OverTokens /\ OverTurns -> TurnKeep
              [] OTHER -> CountKeep

(* The number of recent messages compact_5tier keeps. *)
AutoWindow == IF AutoKeep > 0 THEN AutoKeep ELSE 8

(* Tiers 1 and 2 shorten contents; tier 3 is middle_out. *)
AutoCompact ==
    /\ pc = "compact"
    /\ IF Len(messages) > 1 /\ (OverTokens \/ OverTurns \/ OverCount)
       THEN /\ messages' = middle_out(messages, AutoWindow)
            /\ archive' = archive \cup archived(messages, AutoWindow)
       ELSE UNCHANGED <<messages, archive>>
    /\ pc' = "asked" /\ tokens' = "low"
    /\ UNCHANGED respVars
    /\ UNCHANGED <<turn_count, turns_since_save, sessions, checkpoints,
                   front, steps, answered, guard, turns, fresh>>

(* What appending an assistant message does besides. *)
Counted == /\ turn_count' = turn_count + 1
           /\ turns_since_save' = turns_since_save + 1

(* Fault: the session is saved before the last answer is in it. *)
EndTurn_SavesEarly ==
    /\ pc' = "idle"
    /\ steps' = 0
    /\ IF front = "telegram" THEN save_session("telegram_active", messages)
                             ELSE UNCHANGED sessions

(* The turn is over; the Telegram loop then saves the active session. *)
EndTurn == /\ pc' = "idle"
           /\ steps' = 0
           /\ IF front = "telegram" THEN save_session("telegram_active", messages')
                                    ELSE UNCHANGED sessions

(* The turn goes on: another step, forced text when Telegram's budget is   *)
(* nearly used up, or, in the terminal, the end of the budget.             *)
GoOn == \/ /\ front = "telegram" /\ steps <= 1
           /\ pc' = "force" /\ UNCHANGED <<steps, sessions>>
        \/ /\ front = "repl" /\ steps = 0
           /\ EndTurn
        \/ /\ steps > (IF front = "telegram" THEN 1 ELSE 0)
           /\ pc' = "save" /\ steps' = steps - 1 /\ UNCHANGED sessions

(* Fault: a failed request is made again without counting a step. *)
TextAnswer_Retries(kind) ==
    /\ pc = "asked"
    /\ IF kind = "failed"
       THEN /\ pc' = "save"
            /\ UNCHANGED <<messages, turn_count, turns_since_save, fresh, steps,
                           sessions>>
       ELSE /\ messages' = Append(messages, Msg(kind, fresh, 0))
            /\ fresh' = fresh + 1 /\ Counted /\ EndTurn
    /\ UNCHANGED respVars
    /\ UNCHANGED <<archive, checkpoints, front, answered, tokens, guard,
                   turns>>

(* An answer without tool calls.  A transport failure whose text begins    *)
(* "Network Error:" or "API Error:" is not recorded; any other error text  *)
(* is.  When the guard is due the turn is continued with a user message.   *)
TextAnswer(kind) ==
    LET failed == kind = "failed"
        heard  == IF failed THEN messages
                  ELSE Append(messages, Msg(kind, fresh, 0))
        nudge  == guard = "due" /\ (front = "telegram" => steps > 1)
    IN  /\ pc = "asked"
        /\ IF failed THEN UNCHANGED <<turn_count, turns_since_save>> ELSE Counted
        /\ IF nudge
           THEN /\ messages' = Append(heard, Msg("user", fresh + 1, 0))
                /\ guard' = "off"
                /\ GoOn
           ELSE /\ messages' = heard
                /\ UNCHANGED guard
                /\ EndTurn
        /\ fresh' = fresh + 2
        /\ UNCHANGED respVars
        /\ UNCHANGED <<archive, checkpoints, front, answered, tokens, turns>>

(* An answer that calls n tools.  When its text begins with the words by   *)
(* which failures are told, it is returned without being recorded, as if   *)
(* it were one; both callers carry out its calls all the same.             *)
CallTools(n, recorded) ==
    /\ pc = "asked"
    /\ resp' = [uid |-> fresh, n |-> n]
    /\ IF recorded
       THEN /\ messages' = Append(messages, Msg("assistant", fresh, n))
            /\ Counted
            /\ UNCHANGED unrecorded
       ELSE /\ Cardinality(unrecorded) < MaxMistaken
            /\ unrecorded' = unrecorded \cup {fresh}
            /\ UNCHANGED <<messages, turn_count, turns_since_save>>
    /\ fresh' = fresh + 1
    /\ pc' = "tools"
    /\ UNCHANGED <<sessions, archive, checkpoints, front, steps, answered,
                   tokens, guard, turns>>

(* Fault: the loop over the calls stops one short. *)
LastCall_OneShort == answered + 1 >= resp.n - 1

LastCall == answered + 1 = resp.n

(* Each call, refused or run, leaves exactly one result.  It may have      *)
(* written files or verified them; the guard never becomes due again.      *)
ToolResult(did) ==
    /\ pc = "tools"
    /\ messages' = Append(messages, Msg("tool", resp.uid, answered + 1))
    /\ guard' = CASE did = "writes" /\ guard = "clean" -> "due"
                  [] did = "verifies" -> "off"
                  [] OTHER -> guard
    /\ IF LastCall
       THEN answered' = 0 /\ resp' = NoCalls /\ GoOn
       ELSE answered' = answered + 1 /\ UNCHANGED <<resp, pc, steps, sessions>>
    /\ UNCHANGED <<turn_count, turns_since_save, archive, checkpoints, front,
                   tokens, turns, fresh, unrecorded>>

(* belya_agent_step_forced_text: the instruction, then the answer, which   *)
(* is recorded whatever it says.                                           *)
ForceText ==
    /\ pc = "force"
    /\ messages' = Append(messages, Msg("user", fresh, 0))
    /\ fresh' = fresh + 1
    /\ pc' = "forced"
    /\ UNCHANGED respVars
    /\ UNCHANGED <<turn_count, turns_since_save, sessions, archive, checkpoints,
                   front, steps, answered, tokens, guard, turns>>

ForcedAnswer(kind) ==
    /\ pc = "forced"
    /\ messages' = Append(messages, Msg(kind, fresh, 0))
    /\ fresh' = fresh + 1
    /\ Counted
    /\ EndTurn
    /\ UNCHANGED respVars
    /\ UNCHANGED <<archive, checkpoints, front, answered, tokens, guard,
                   turns>>

-----------------------------------------------------------------------------
(* What the user does between turns.                                       *)

(* A checkpoint is the number of messages; its git half is left out, as    *)
(* the working tree is.                                                    *)
Checkpoint == Len(messages)

idleVars == <<turn_count, turns_since_save, front, pc, steps, resp, answered,
              tokens, guard, turns, fresh, unrecorded>>

(* belya_harness_execute_turn, or the Telegram loop's user turn. *)
UserTurn ==
    /\ pc = "idle" /\ turns < MaxTurns
    /\ checkpoints' = IF front = "repl" THEN Append(checkpoints, Checkpoint)
                                        ELSE checkpoints
    /\ messages' = Append(messages, Msg("user", fresh, 0))
    /\ fresh' = fresh + 1
    /\ turns' = turns + 1
    /\ guard' = "clean"
    /\ steps' = Steps[front] - 1
    /\ pc' = "save"
    /\ UNCHANGED respVars
    /\ UNCHANGED <<turn_count, turns_since_save, sessions, archive, front,
                   answered, tokens>>

Command(c) == pc = "idle" /\ c \in Commands

clear_history ==
    /\ Command("clear")
    /\ messages' = <<messages[1]>>
    /\ IF front = "telegram" THEN save_session("telegram_active", messages')
                             ELSE UNCHANGED sessions
    /\ UNCHANGED idleVars /\ UNCHANGED <<archive, checkpoints>>

(* The terminal takes the number to keep, Telegram always keeps ten. *)
compact(keep) ==
    /\ Command("compact")
    /\ messages' = compact_history(messages, keep)
    /\ UNCHANGED idleVars /\ UNCHANGED <<sessions, archive, checkpoints>>

save ==
    /\ Command("save")
    /\ save_session("named", messages)
    /\ UNCHANGED idleVars /\ UNCHANGED <<messages, archive, checkpoints>>

resume(s) ==
    /\ Command("resume")
    /\ sessions[s] # <<>>
    /\ messages' = sessions[s]
    /\ UNCHANGED idleVars /\ UNCHANGED <<sessions, archive, checkpoints>>

create_checkpoint ==
    /\ Command("checkpoint")
    /\ Len(checkpoints) < turns + MaxManual
    /\ checkpoints' = Append(checkpoints, Checkpoint)
    /\ UNCHANGED idleVars /\ UNCHANGED <<messages, sessions, archive>>

(* Only the number of messages was recorded: what is longer is cut. *)
rollback(c) ==
    /\ Command("rollback")
    /\ messages' = IF checkpoints[c] < Len(messages)
                   THEN SubSeq(messages, 1, checkpoints[c]) ELSE messages
    /\ UNCHANGED idleVars /\ UNCHANGED <<sessions, archive, checkpoints>>

(* The process dies at any moment, and is started again: with a session to *)
(* resume, or as the Telegram bot, which resumes its own.                  *)
Restart(f, s) ==
    LET wanted == IF s = "none" /\ f = "telegram" THEN "telegram_active" ELSE s
    IN  /\ front' = f
        /\ messages' = IF wanted # "none" /\ sessions[wanted] # <<>>
                       THEN sessions[wanted] ELSE <<System>>
        /\ turn_count' = 0 /\ turns_since_save' = 0
        /\ pc' = "idle" /\ steps' = 0 /\ tokens' = "low" /\ guard' = "clean"
        /\ resp' = NoCalls /\ answered' = 0
        /\ UNCHANGED dbVars /\ UNCHANGED <<turns, fresh, unrecorded>>

Turn == \/ AutoSave \/ AutoCompact
        \/ \E k \in {"assistant", "error", "failed"} : TextAnswer(k)
        \/ \E n \in 1 .. MaxCalls, recorded \in BOOLEAN : CallTools(n, recorded)
        \/ \E did \in {"reads", "writes", "verifies"} : ToolResult(did)
        \/ ForceText
        \/ \E k \in {"assistant", "error"} : ForcedAnswer(k)

Next == \/ Turn
        \/ UserTurn
        \/ clear_history
        \/ \E keep \in Keeps : compact(keep)
        \/ save
        \/ \E s \in SessionId : resume(s)
        \/ create_checkpoint
        \/ \E c \in DOMAIN checkpoints : rollback(c)
        \/ \E f \in FrontEnd, s \in SessionId \cup {"none"} : Restart(f, s)

Spec == Init /\ [][Next]_vars

(* The loop runs, the tools return and the gateway answers or gives up:    *)
(* its retries and its timeouts are bounded.                               *)
FairSpec == Spec /\ WF_vars(Turn)

-----------------------------------------------------------------------------
(* Properties.                                                             *)

History == Seq([kind : {"system", "user", "assistant", "error", "summary", "tool"},
                uid : Nat, n : Nat])

TypeOK ==
    /\ messages \in History /\ messages # <<>>
    /\ sessions \in [SessionId -> History]
    /\ \A m \in archive : <<m>> \in History
    /\ checkpoints \in Seq(Nat \ {0})
    /\ turn_count \in Nat /\ turns_since_save \in Nat
    /\ fresh \in Nat /\ turns \in 0 .. MaxTurns
    /\ front \in FrontEnd
    /\ pc \in {"idle", "save", "compact", "asked", "tools", "force", "forced"}
    /\ steps \in 0 .. Steps[front] /\ answered \in 0 .. MaxCalls
    /\ resp \in [uid : Nat, n : Nat] /\ unrecorded \subseteq Nat
    /\ tokens \in TokenLevel /\ guard \in {"clean", "due", "off"}

(* Every history the program can send or restore. *)
Stored == {messages} \cup {sessions[s] : s \in SessionId}

(* The k-th result of a recorded answer stands k places after it; of one   *)
(* that was not recorded, k places after whatever came before its results. *)
Grounded(h) ==
    \A i \in DOMAIN h : h[i].kind = "tool" =>
        /\ i > h[i].n
        /\ h[i].uid \notin unrecorded =>
              LET a == h[i - h[i].n] IN
              a.kind = "assistant" /\ a.uid = h[i].uid /\ a.n >= h[i].n
        /\ \A k \in 1 .. h[i].n : h[i - h[i].n + k] = Msg("tool", h[i].uid, k)

(* No history begins on, or contains, a tool result without the call it    *)
(* answers: "Providers reject such sequences with HTTP 400" (the H4 filter *)
(* of both compactions), whatever is compacted, cut, cleared, saved,       *)
(* restored or interrupted by a crash.  The one way to an orphan is the    *)
(* answer with calls that belya_agent_step took for a transport failure.   *)
NoOrphanResults == \A h \in Stored : Grounded(h)

(* The conversation is well formed: of its type, with every tool result    *)
(* behind the call it answers, or behind an answer that was not recorded.  *)
HistoryInv == TypeOK /\ NoOrphanResults

(* Every call of the i-th message has its result right behind it. *)
Settled(h) ==
    \A i \in DOMAIN h : h[i].kind = "assistant" =>
        \A k \in 1 .. h[i].n :
            /\ i + k <= Len(h)
            /\ h[i + k] = Msg("tool", h[i].uid, k)

(* When a request goes out, and in every saved session, each tool call in  *)
(* it has exactly its own result behind it: refusals answer too, and       *)
(* neither the automatic compaction nor a save or a crash in mid turn nor  *)
(* the results of an unrecorded answer come between them.                  *)
CallsAreAnswered ==
    /\ pc \in {"asked", "forced"} => Settled(messages)
    /\ \A s \in SessionId : Settled(sessions[s])

(* No step of a turn rewrites the system message or the root objective,    *)
(* the "cache-stable prefix" of compact_5tier, and automatic compaction    *)
(* never removes what the model is about to answer: the newest message is  *)
(* still the newest, unless it is a result of an answer that was not       *)
(* recorded (a row of such results may fill the whole window).             *)
CompactionKeepsEnds ==
    [][/\ pc # "idle" /\ pc' # "idle" /\ Len(messages) > 1 =>
            /\ Len(messages') > 1
            /\ messages'[1] = messages[1] /\ messages'[2] = messages[2]
       /\ pc = "compact" /\ pc' = "asked" /\ Last(messages).uid \notin unrecorded =>
            Last(messages') = Last(messages)]_vars

(* What automatic compaction takes out of the conversation has been put    *)
(* into session_messages_archived.  The one exception is a tool result at  *)
(* the very beginning of the recent window, with only tool results before  *)
(* it there: the orphan filter drops it after the archive was written.     *)
Kept(h) == {h[i] : i \in DOMAIN h}
DroppedIsArchived ==
    [][pc = "compact" /\ pc' = "asked" =>
          \A i \in DOMAIN messages :
              \/ messages[i] \in Kept(messages') \cup archive'
              \/ /\ i > Len(messages) - AutoWindow
                 /\ \A x \in Len(messages) - AutoWindow + 1 .. i :
                        messages[x].kind = "tool"]_vars

(* Between turns the bot holds nothing that a crash would take away: its   *)
(* conversation is empty or one of the saved sessions ("so conversations   *)
(* survive restarts").  /compact and /rollback change it without saving.   *)
IdleIsRestorable ==
    front = "telegram" /\ pc = "idle" =>
        messages = <<System>> \/ \E s \in SessionId : messages = sessions[s]

(* Every turn comes back to the user, whatever the gateway answers. *)
EveryTurnEnds == pc # "idle" ~> pc = "idle"

=============================================================================
