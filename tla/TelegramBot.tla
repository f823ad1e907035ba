------------------------------ MODULE TelegramBot ------------------------------
(***************************************************************************)
(* The Telegram daemon (telegram_adapter.c): a long-polling loop whose     *)
(* offset confirms what it has seen, commands, turns of the agent with an  *)
(* answer streamed into a message that is edited in place, and permission  *)
(* prompts that poll for updates themselves while a turn is in progress.   *)
(* The channels of module Channels are polled at the top of the loop.      *)
(* systemd restarts the process whenever it ends.                          *)
(***************************************************************************)
EXTENDS Channels, SequencesExt

CONSTANTS Kinds,      \* the messages people send; buttons come in addition
          Polls,      \* poll_attempts of a prompt (30)
          MaxChunks,  \* bound: streamed deltas of a turn, together with MaxEvents
          MaxPrompts, \* bound: prompts that the chat shows
          MaxDeaths   \* bound: crashes and signals, of MaxEvents

ASSUME BotAssumption ==
    /\ Kinds \subseteq {"text", "stranger", "info", "clear", "compact", "save", "checkpoint", "resume",
                        "rollback", "turbo_on", "turbo_min", "turbo_off", "restart"}
    /\ {Polls, MaxChunks, MaxPrompts, MaxDeaths} \subseteq Nat

VARIABLES
    sent,       \* Telegram: the updates so far; update_id is the index
    confirmed,  \* Telegram: updates up to here are never delivered again
    last,       \* last_update_id
    batch,      \* the updates of the poll that are still to be handled
    interrupted,\* g_telegram_interrupted
    turn,       \* the locals of the turn and its TelegramStream
    prompts,    \* Telegram: how many prompts the chat shows
    turbo,      \* g_turbo_until, g_turbo_forever, g_turbo_loaded, the marker file
                \* and BELYA_TURBO=1 in the environment
    begun,      \* texts whose turn was begun, in any life (for the properties)
    granted,    \* the presses that approved a call, in any life, in order (ditto)
    finished,   \* turns that must survive a crash (ditto)
    off,        \* the last word on Turbo was "off", and no marker outlived it
                \* into another life of the process (ditto)
    deaths

serverVars == <<sent, confirmed, prompts>>
ghosts     == <<begun, granted, finished, off, deaths, events>>
vars == <<active, events, pc, posts, cursor, seed, inbox, routed, again, conv, saved, sent, confirmed,
          last, batch, interrupted, turn, prompts, turbo, begun, granted, finished, off, deaths>>

NoMessage == <<0>>      \* no stream message in the chat

(* late: the last delta of buf is not in the chat; trouble: Telegram       *)
(* refused the answer at the end; whole: all of it was edited or sent.     *)
Idle == [id |-> 0, prompt |-> 0, polls |-> 0, chunks |-> 0, content |-> <<>>,
         accum |-> <<>>, buf |-> <<>>, shown |-> NoMessage, disabled |-> FALSE,
         late |-> FALSE, whole |-> FALSE, trouble |-> FALSE]

Init == /\ InitChannels /\ events = 0
        /\ pc = "top" /\ conv = {} /\ saved = [s \in Session |-> NoSession]
        /\ sent = <<>> /\ confirmed = 0 /\ prompts = 0
        /\ last = 0 /\ batch = {} /\ interrupted = FALSE /\ turn = Idle
        /\ \E env \in BOOLEAN : turbo = [until |-> FALSE, forever |-> FALSE, loaded |-> FALSE,
                                        marker |-> FALSE, env |-> env]
        /\ begun = {} /\ granted = <<>> /\ finished = {} /\ off = FALSE /\ deaths = 0

Larger(a, b) == IF a > b THEN a ELSE b

(* What getUpdates returns for offset = last_update_id + 1. *)
Pending == Larger(last, confirmed) + 1 .. Len(sent)
-----------------------------------------------------------------------------
(* Telegram: people write and press buttons.  Only a poll can tell when.   *)
Reads == pc \in {"poll", "prompt"} /\ Happens

People == UNCHANGED chanVars /\ UNCHANGED <<pc, conv, saved, confirmed, last, batch,
              interrupted, turn, prompts, turbo,
              begun, granted, finished, off, deaths>>

Writes(k) == /\ Reads
             /\ sent' = Append(sent, [kind |-> k])
             /\ People

Presses(p, approve, owner) ==
    /\ Reads /\ (approve \/ owner)
    /\ sent' = Append(sent, [kind |-> "button", prompt |-> p, approve |-> approve, owner |-> owner])
    /\ People

(* The window of /turbo N runs out; the marker is removed in the shell. *)
TurboEnds == /\ pc = "step"
             /\ \/ turbo.until  /\ turbo' = [turbo EXCEPT !.until = FALSE]
                \/ turbo.marker /\ turbo' = [turbo EXCEPT !.marker = FALSE]
             /\ UNCHANGED chanVars /\ UNCHANGED <<pc, conv, saved, last, batch, interrupted, turn>>
             /\ UNCHANGED serverVars /\ UNCHANGED ghosts
-----------------------------------------------------------------------------
(* belya_omnichannel_poll_env, then the poll, unless a signal came.  A     *)
(* channel's session in the conversation ends what a crash must not lose.  *)
Channel == /\ ChannelStep
           /\ finished' = IF conv' = conv THEN finished ELSE {}
           /\ UNCHANGED serverVars
           /\ UNCHANGED <<last, batch, interrupted, turn, turbo, begun, granted, off, deaths, events>>

PostArrives == /\ \E p \in Platform : Posted(p)
               /\ UNCHANGED serverVars
               /\ UNCHANGED <<last, batch, interrupted, turn, turbo, begun, granted, finished, off, deaths>>

(* getUpdates: the offset confirms even when the answer is lost. *)
PollLost == /\ pc = "poll"
            /\ confirmed' \in {confirmed, Larger(confirmed, last)}
            /\ pc' = "top"
            /\ UNCHANGED chanVars /\ UNCHANGED ghosts
            /\ UNCHANGED <<conv, saved, sent, last, batch, interrupted, turn, prompts, turbo>>

Poll == /\ pc = "poll" /\ Pending # {}
        /\ confirmed' = Larger(confirmed, last)
        /\ batch' = Pending /\ pc' = "dispatch"
        /\ UNCHANGED chanVars /\ UNCHANGED ghosts
        /\ UNCHANGED <<conv, saved, sent, last, interrupted, turn, prompts, turbo>>

(* The next update of the batch; behind the last one the loop starts over. *)
Update     == sent[Min(batch)]
(* Fault: the offset is not moved. *)
Takes_Forgets(k) == /\ pc = "dispatch" /\ Update.kind \in k /\ UNCHANGED last

Takes(k)   == /\ pc = "dispatch" /\ Update.kind \in k
              /\ last' = Larger(last, Min(batch))

NextUpdate(set) == IF set # {} THEN "dispatch" ELSE "top"
Advances   == /\ batch' = batch \ {Min(batch)} /\ pc' = NextUpdate(batch')

(* No message, no text of an allowed chat, or a command that only reports: *)
(* /status, /cache, /skills, /tools ...                                    *)
Passes == /\ Takes({"button", "stranger", "info"}) /\ Advances
          /\ UNCHANGED chanVars /\ UNCHANGED ghosts /\ UNCHANGED serverVars
          /\ UNCHANGED <<conv, saved, interrupted, turn, turbo>>

TurboLoaded == IF turbo.loaded THEN turbo
               ELSE [turbo EXCEPT !.loaded = TRUE, !.forever = turbo.marker]

(* Fault: the marker is not read before the command is carried out. *)
TurboSet_Unloaded(k) ==
    CASE k = "turbo_off" -> {[turbo EXCEPT !.until = FALSE, !.forever = FALSE, !.marker = m] :
                                 m \in {FALSE, turbo.marker}}
      [] k = "turbo_on"  -> {[turbo EXCEPT !.forever = TRUE, !.marker = TRUE], turbo}
      [] k = "turbo_min" -> {[turbo EXCEPT !.until = TRUE]}

(* /turbo off, whose remove() may leave the marker, on, which may fail to  *)
(* write it, and N.                                                        *)
TurboSet(k) ==
    CASE k = "turbo_off" -> {[TurboLoaded EXCEPT !.until = FALSE, !.forever = FALSE, !.marker = m] :
                                 m \in {FALSE, turbo.marker}}
      [] k = "turbo_on"  -> {[TurboLoaded EXCEPT !.forever = TRUE, !.marker = TRUE], TurboLoaded}
      [] k = "turbo_min" -> {[TurboLoaded EXCEPT !.until = TRUE]}

Turbo == /\ Takes({"turbo_on", "turbo_min", "turbo_off"}) /\ Advances
         /\ turbo' \in TurboSet(Update.kind)
         /\ off' = (Update.kind = "turbo_off" \/ (off /\ turbo' = TurboLoaded))
         /\ UNCHANGED chanVars /\ UNCHANGED serverVars
         /\ UNCHANGED <<conv, saved, interrupted, turn, begun, granted, finished, deaths, events>>

(* /clear is saved at once; /save and /checkpoint keep the conversation    *)
(* under another name; /resume and /rollback bring one back and /compact   *)
(* drops messages, unsaved.                                                *)
Sessions ==
    /\ Takes({"clear", "compact", "save", "checkpoint", "resume", "rollback"}) /\ Advances
    /\ \/ /\ Update.kind = "clear"
          /\ conv' = {} /\ saved' \in Saved(Telegram, {}) /\ finished' = {}
       \/ /\ Update.kind = "compact"
          /\ conv' \in SUBSET conv /\ finished' = {u \in finished : <<Telegram, u>> \in conv'}
          /\ UNCHANGED saved
       \/ /\ Update.kind \in {"save", "checkpoint"}
          /\ UNCHANGED <<conv, finished>> /\ saved' \in Saved(Update.kind, conv)
       \/ /\ Update.kind \in {"resume", "rollback"}
          /\ \E s \in IF Update.kind = "resume" THEN Session \ {"checkpoint"} ELSE {"checkpoint"} :
                IF saved[s] = NoSession THEN UNCHANGED <<conv, finished>>
                ELSE conv' = saved[s] /\ finished' = {}
          /\ UNCHANGED saved
    /\ UNCHANGED chanVars /\ UNCHANGED serverVars
    /\ UNCHANGED <<interrupted, turn, turbo, begun, granted, off, deaths, events>>

(* A turn begins; after a signal its loop is not entered. *)
Begins == /\ Takes({"text"})
          /\ turn' = [Idle EXCEPT !.id = Min(batch)]
          /\ batch' = batch \ {Min(batch)}
          /\ conv' = conv \cup {<<Telegram, Min(batch)>>}
          /\ begun' = begun \cup {Min(batch)}
          /\ pc' = IF interrupted THEN "deliver" ELSE "step"
          /\ UNCHANGED chanVars /\ UNCHANGED serverVars
          /\ UNCHANGED <<saved, interrupted, turbo, granted, finished, off, deaths, events>>
-----------------------------------------------------------------------------
StepOnly == /\ UNCHANGED chanVars /\ UNCHANGED ghosts /\ UNCHANGED <<sent, confirmed>>
            /\ UNCHANGED <<conv, saved, last, batch, interrupted>>

(* telegram_stream_cb: a delta joins the buffer, which is then shown, held *)
(* back because an edit was made this second, refused, or too long.        *)
Streams(how) ==
    LET c   == turn.chunks + 1
        buf == IF turn.disabled THEN turn.buf ELSE Append(turn.buf, c)
    IN  /\ pc = "step" /\ turn.chunks + events < MaxChunks
        /\ turn.disabled => how = "dropped"
        /\ ~turn.disabled => how \in {"shown", "refused", "long"} \cup
                                     (IF turn.shown = NoMessage THEN {} ELSE {"held"})
        /\ turn' = [turn EXCEPT !.chunks = c, !.content = Append(@, c), !.buf = buf,
                       !.shown = IF how = "shown" THEN buf ELSE @,
                       !.disabled = @ \/ how \in {"refused", "long"},
                       !.late = how # "shown"]
        /\ UNCHANGED <<pc, prompts, turbo>> /\ StepOnly

(* turbo_active: the marker is asked again each time. *)
TurboActive == \/ TurboLoaded.forever /\ turbo.marker
               \/ turbo.env
               \/ turbo.until
TurboAsked  == [TurboLoaded EXCEPT !.forever = @ /\ turbo.marker]

WithCall == [turn EXCEPT !.accum = @ \o turn.content, !.content = <<>>]

(* The guard sends a text back, or a call is allowed, denied, or asked for *)
(* under Turbo: the step is over and the turn goes on.                     *)
Continues == /\ pc = "step"
             /\ \/ turn' = [turn EXCEPT !.content = <<>>] /\ turn.content # <<>> /\ UNCHANGED turbo
                \/ turn' = WithCall /\ turbo' = TurboAsked
             /\ UNCHANGED <<pc, prompts>> /\ StepOnly

(* telegram_http_post: no answer, a refusal (no "result"), or success.     *)
http_post == {"lost", "refused", "ok"}

(* The prompt is sent; a refused one has no message id and is waited for.  *)
Asks == /\ pc = "step" /\ ~TurboActive
        /\ turbo' = TurboAsked
        /\ \E how \in http_post :
              /\ how = "ok" => prompts < MaxPrompts
              /\ prompts' = IF how = "ok" THEN prompts + 1 ELSE prompts
              /\ pc' = IF how = "lost" THEN "step" ELSE "prompt"
              /\ turn' = [WithCall EXCEPT !.prompt = IF how = "ok" THEN prompts' ELSE 0,
                                          !.polls = IF how = "lost" THEN 0 ELSE Polls]
        /\ StepOnly

(* Fault: a plain message is acknowledged while a prompt waits. *)
Abandons_Acknowledges(u) == u

(* last_update_id when update u is a plain message: it stays pending. *)
Abandons(u) == u - 1

(* Fault: the offset is not moved past the button. *)
Acknowledges_Nothing(u) == last

(* last_update_id when update u is a button. *)
Acknowledges(u) == u

(* A button of an allowed sender, on this prompt if both have an id. *)
Accepts(u) == /\ sent[u].owner
              /\ turn.prompt > 0 /\ sent[u].prompt > 0 => sent[u].prompt = turn.prompt

Decides(u) == sent[u].kind = "button" => Accepts(u)

PromptPolls ==
    /\ pc = "prompt" /\ turn.polls > 0 /\ ~interrupted
    /\ UNCHANGED chanVars /\ UNCHANGED <<conv, saved, sent, batch, interrupted, prompts, turbo>>
    /\ UNCHANGED <<begun, finished, off, deaths, events>>
    /\ \/ /\ turn' = [turn EXCEPT !.polls = @ - 1]      \* the poll fails
          /\ UNCHANGED <<pc, confirmed, last, granted>>
       \/ /\ confirmed' = Larger(confirmed, last)
          /\ \A u \in Pending : ~Decides(u)             \* nothing decides it
          /\ turn' = [turn EXCEPT !.polls = @ - 1]
          /\ last' = Larger(last, Len(sent))
          /\ UNCHANGED <<pc, granted>>
       \/ /\ confirmed' = Larger(confirmed, last)
          /\ \E u \in Pending :                         \* the first that does
                /\ Decides(u) /\ \A v \in Pending : v < u => ~Decides(v)
                /\ last' = IF sent[u].kind = "button" THEN Acknowledges(u) ELSE Abandons(u)
                /\ granted' = IF sent[u].kind = "button" /\ sent[u].approve
                              THEN Append(granted, u) ELSE granted
          /\ pc' = "step" /\ turn' = [turn EXCEPT !.prompt = 0, !.polls = 0]

(* Fault: a prompt nobody answers is asked again. *)
PromptEnds_AsksAgain == /\ pc = "prompt" /\ (turn.polls = 0 \/ interrupted)
                        /\ turn' = [turn EXCEPT !.polls = Polls]
                        /\ UNCHANGED <<pc, prompts, turbo>> /\ StepOnly

PromptEnds == /\ pc = "prompt" /\ (turn.polls = 0 \/ interrupted)
              /\ pc' = "step" /\ turn' = [turn EXCEPT !.prompt = 0, !.polls = 0]
              /\ UNCHANGED <<prompts, turbo>> /\ StepOnly

(* An answer without calls, the step budget or a signal ends the loop. *)
Concludes == /\ pc = "step"
             /\ pc' = "deliver"
             /\ UNCHANGED <<turn, prompts, turbo>> /\ StepOnly
-----------------------------------------------------------------------------
final_text == IF turn.content # <<>> THEN turn.content ELSE turn.accum

(* Fault: the answer counts as shown when the stream ended with it. *)
Holds_AsSuffix == IsSuffix(final_text, turn.buf)

(* "Identical text means the last streamed edit already holds it". *)
Holds == turn.buf = final_text

(* The end of the turn: leave the stream message, edit it, or send anew.   *)
Delivers ==
    /\ pc = "deliver"
    /\ IF turn.shown = NoMessage \/ final_text = <<>> THEN pc' = "send" /\ UNCHANGED turn
       ELSE IF Holds THEN pc' = "save" /\ UNCHANGED turn
       ELSE \/ pc' = "save" /\ turn' = [turn EXCEPT !.shown = final_text, !.whole = TRUE]
            \/ pc' = "send" /\ turn' = [turn EXCEPT !.trouble = TRUE]
    /\ UNCHANGED <<prompts, turbo>> /\ StepOnly

(* telegram_bot_send_rich, of which a chunk may fail; "Action completed."  *)
(* when there is no text.                                                  *)
Sends == /\ pc = "send"
         /\ \/ final_text # <<>> /\ turn' = [turn EXCEPT !.whole = TRUE]
               /\ pc' = IF turn.shown = NoMessage THEN "save" ELSE "remove"
            \/ turn' = [turn EXCEPT !.trouble = TRUE] /\ pc' = "save"
         /\ UNCHANGED <<prompts, turbo>> /\ StepOnly

(* The provisional message is deleted, if Telegram does so. *)
Removes == /\ pc = "remove"
           /\ pc' = "save"
           /\ \/ turn' = [turn EXCEPT !.shown = NoMessage]
              \/ UNCHANGED turn
           /\ UNCHANGED <<prompts, turbo>> /\ StepOnly

(* Fault: the session is saved before the turn, not after it. *)
Persists_Before == saved[Telegram]

(* belya_agent_save_session(agent, "telegram_active", ...). *)
Persists == conv

(* Unless the save fails, the turn is to survive a crash from here on. *)
Saves == /\ pc = "save"
         /\ \/ /\ saved' = [saved EXCEPT ![Telegram] = Persists]
               /\ finished' = finished \cup {turn.id}
            \/ UNCHANGED <<saved, finished>>
         /\ turn' = [Idle EXCEPT !.id = turn.id]
         /\ pc' = NextUpdate(batch)
         /\ UNCHANGED chanVars /\ UNCHANGED serverVars
         /\ UNCHANGED <<conv, last, batch, interrupted, turbo, begun, granted, off, deaths, events>>
-----------------------------------------------------------------------------
(* systemd: Restart=always.  What was in memory is gone; main restores the *)
(* session "telegram_active".  A marker that /turbo off could not remove    *)
(* arms Turbo again.                                                       *)
Restarts == /\ ChannelsForget
            /\ conv' = IF saved[Telegram] = NoSession THEN {} ELSE saved[Telegram]
            /\ last' = 0 /\ batch' = {} /\ interrupted' = FALSE /\ turn' = Idle
            /\ turbo' = [turbo EXCEPT !.until = FALSE, !.forever = FALSE, !.loaded = FALSE]
            /\ off' = (off /\ ~turbo.marker)
            /\ pc' = "top"
            /\ UNCHANGED serverVars /\ UNCHANGED <<saved, begun, granted, finished>>

(* An end without warning. *)
Crash == /\ deaths < MaxDeaths /\ Happens /\ deaths' = deaths + 1
         /\ Restarts

(* /restart: exit(0), with its own update not yet confirmed. *)
RestartCommand == /\ pc = "dispatch" /\ Update.kind = "restart"
                  /\ Restarts
                  /\ UNCHANGED <<deaths, events>>

(* SIGTERM or SIGINT sets a flag ... *)
Signalled == /\ deaths < MaxDeaths /\ Happens /\ deaths' = deaths + 1
             /\ ~interrupted /\ interrupted' = TRUE
             /\ UNCHANGED chanVars /\ UNCHANGED serverVars
             /\ UNCHANGED <<pc, conv, saved, last, batch, turn, turbo, begun, granted, finished, off>>

(* ... that the outer loop sees at its top, and not in the middle. *)
LoopEnds == /\ pc = "top" /\ interrupted
            /\ Restarts
            /\ UNCHANGED <<deaths, events>>

Loops == /\ pc = "top" /\ ~interrupted
         /\ pc' = First
         /\ UNCHANGED chanVars /\ UNCHANGED serverVars /\ UNCHANGED ghosts
         /\ UNCHANGED <<conv, saved, last, batch, interrupted, turn, turbo>>

How == {"shown", "held", "refused", "long", "dropped"}

Handles == \/ Channel \/ Passes \/ Turbo \/ Sessions \/ Begins \/ RestartCommand
           \/ (\E how \in How : Streams(how)) \/ Continues \/ Asks \/ PromptPolls \/ PromptEnds
           \/ Concludes \/ Delivers \/ Sends \/ Removes \/ Saves \/ LoopEnds \/ Loops

Next == \/ Handles \/ Poll \/ PollLost
        \/ (\E k \in Kinds : Writes(k))
        \/ (\E p \in 0 .. prompts, a, o \in BOOLEAN : Presses(p, a, o))
        \/ TurboEnds \/ PostArrives \/ Signalled \/ Crash

(* The daemon keeps running, requests end within their time limits, the    *)
(* model answers in the end, a poll does not fail for ever, and max_steps  *)
(* bounds the calls of a turn, so that it concludes.                       *)
Fairness == /\ WF_vars(Handles) /\ SF_vars(Concludes) /\ WF_vars(PollLost)
            /\ SF_vars(Poll) /\ WF_vars(Channel)

Spec == Init /\ [][Next]_vars /\ Fairness
-----------------------------------------------------------------------------
TypeOK ==
    /\ pc \in Platform \cup {"top", "poll", "dispatch", "step", "prompt", "deliver", "send",
                             "remove", "save"}
    /\ confirmed \in 0 .. Len(sent) /\ last \in 0 .. Len(sent)
    /\ batch \subseteq 1 .. Len(sent) /\ (pc = "dispatch" => batch # {})
    /\ inbox # {} => pc \in Platform /\ inbox \subseteq 1 .. Len(posts[pc])
    /\ turn.polls \in 0 .. Polls /\ turn.prompt \in 0 .. prompts
    /\ prompts <= MaxPrompts

(* What Telegram will not deliver again has been taken up: neither polls   *)
(* of a prompt nor a restart make a text disappear unread.                 *)
NoMessageLost == \A u \in 1 .. confirmed : sent[u].kind = "text" => u \in begun

(* The loop's offset, batch and prompt are of their type, and no text that *)
(* a poll has confirmed is lost.                                           *)
BotInv == TypeOK /\ NoMessageLost

(* In one life of the process the texts are taken up in the order they     *)
(* were sent, none twice, although prompts move the offset back.           *)
TurnsInOrder == [][(pc = "dispatch" /\ pc' \in {"step", "deliver"}) => turn'.id > turn.id]_vars

(* One press approves one call: the presses honoured are in the order      *)
(* pressed, none twice, although a press without a message id fits every   *)
(* prompt, polls overlap with batches and a crash has updates redelivered. *)
PressCountsOnce ==
    \A i, j \in 1 .. Len(granted) : i < j => granted[i] < granted[j]

(* After /turbo off nothing is approved by Turbo until it is armed again:  *)
(* the marker it may have failed to remove counts from the next start on.  *)
(* BELYA_TURBO=1 is above the command.                                     *)
OffMeansOff == (off /\ ~turbo.env) => ~TurboActive

(* Unless Telegram refuses it, the chat holds the whole answer when the    *)
(* turn is saved, and nothing but the answer, whatever edits were held     *)
(* back or refused on the way.  The one exception is where the comment     *)
(* above Holds is wrong: the buffer equals the answer, but the edit that   *)
(* was to show its end was not made.                                       *)
AnswerIsShown == (pc = "save" /\ final_text # <<>> /\ ~turn.trouble)
                    => turn.whole \/ turn.shown = final_text \/ (turn.late /\ Holds)

(* No turn reaches its save without AnswerIsShown, and on the way there an *)
(* answer that was partly visible is not taken away before all of it is    *)
(* there.                                                                  *)
DeliveryIsWhole ==
    [][/\ AnswerIsShown'
       /\ (/\ pc # "save" /\ turn'.id = turn.id
           /\ turn.shown # NoMessage /\ turn'.shown = NoMessage) => turn.whole]_vars

(* A finished turn is in the session that the next start restores, as long *)
(* as no channel took the conversation over and nobody cleared it.         *)
TurnsSurvive == \A u \in finished :
                   saved[Telegram] # NoSession /\ <<Telegram, u>> \in saved[Telegram]

AllTakenUp == \A u \in 1 .. Len(sent) : sent[u].kind = "text" => u \in begun

(* Every text is taken up in the end, if nobody restarts the bot by        *)
(* command: failed polls, prompts, crashes and signals only delay it.      *)
EveryTextIsTakenUp ==
    [](\A u \in 1 .. Len(sent) : sent[u].kind # "restart") => <>[]AllTakenUp

(* The bot goes on with what comes after /restart, which "reload[s]        *)
(* updated binaries within 2 seconds" (CHANGELOG.md).                      *)
RestartGoesOn == <>[]AllTakenUp
=============================================================================
