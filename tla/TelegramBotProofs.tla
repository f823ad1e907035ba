--------------------------- MODULE TelegramBotProofs ---------------------------
(***************************************************************************)
(* Safety of the Telegram daemon and of the channels it polls, for any     *)
(* traffic, any number of prompts, crashes, signals and posts.             *)
(***************************************************************************)
EXTENDS TelegramBot, WellFoundedInduction, TLAPS

(* A non-empty set of naturals has a least element. *)
LEMMA LeastNatural ==
    ASSUME NEW S \in SUBSET Nat, S # {}
    PROVE  \E x \in S : \A y \in S : x <= y
<1> DEFINE R == OpToRel(<, Nat)
<1>1. \A x, y \in Nat : <<x, y>> \in R <=> x < y
  BY DEF OpToRel
<1>2. IsWellFoundedOn(R, Nat)
  BY NatLessThanWellFounded
<1> HIDE DEF R
<1>3. PICK x \in S : \A y \in S : <<y, x>> \notin R
  BY <1>2, WFMin
<1>4. \A y \in S : ~(y < x)
  BY <1>1, <1>3, Zenon
<1>5. QED
  BY <1>4


(* What Min picks of a non-empty set of naturals. *)
LEMMA LeastElement ==
    ASSUME NEW S \in SUBSET Nat, S # {}
    PROVE  Min(S) \in S /\ \A y \in S : Min(S) <= y
  BY LeastNatural DEF Min

-----------------------------------------------------------------------------
(* The types that TypeOK leaves to the actions. *)
Word == Nat \ {0}
Message == [kind : Kinds] \cup
           [kind : {"button"}, prompt : Nat, approve : BOOLEAN, owner : BOOLEAN]
Turns == [id : Nat, prompt : Nat, polls : 0 .. Polls, chunks : Nat,
          content : Seq(Word), accum : Seq(Word), buf : Seq(Word), shown : Seq(Nat),
          disabled : BOOLEAN, late : BOOLEAN, whole : BOOLEAN, trouble : BOOLEAN]
TurboState == [until : BOOLEAN, forever : BOOLEAN, loaded : BOOLEAN, marker : BOOLEAN,
               env : BOOLEAN]
Conversation == SUBSET ((Platform \cup {Telegram, "none"}) \X Nat)

Types == /\ sent \in Seq(Message) /\ confirmed \in Nat /\ last \in Nat /\ prompts \in Nat
         /\ batch \in SUBSET Nat /\ inbox \in SUBSET Nat
         /\ turn \in Turns
         /\ posts \in [Platform -> Seq({"user", "bot"})]
         /\ cursor \in [Platform -> Nat] /\ seed \in [Platform -> Nat]
         /\ conv \in Conversation /\ saved \in [Session -> Conversation]
         /\ turbo \in TurboState

LEMMA IdleTurn == Idle \in Turns /\ \A n \in Nat : [Idle EXCEPT !.id = n] \in Turns
<1>1. 0 \in 0 .. Polls
  BY BotAssumption
<1>2. <<>> \in Seq(Word) /\ NoMessage \in Seq(Nat)
  BY DEF NoMessage
<1>3. QED
  BY <1>1, <1>2 DEF Idle, Turns

LEMMA TypesInit == Init => Types
<1>1. NoSession \in Conversation /\ {} \in Conversation
  BY DEF NoSession, Conversation
<1>2. <<"user">> \in Seq({"user", "bot"}) /\ <<>> \in Seq(Message)
  OBVIOUS
<1>3. QED
  BY <1>1, <1>2, IdleTurn DEF Init, InitChannels, Types, TurboState

LEMMA LargerType == \A a, b \in Nat : /\ Larger(a, b) \in Nat
                                      /\ Larger(a, b) >= a /\ Larger(a, b) >= b
                                      /\ Larger(a, b) = a \/ Larger(a, b) = b
  BY DEF Larger

(* The messages of a conversation are added one by one. *)
LEMMA ConversationGrows ==
    ASSUME NEW c \in Conversation, NEW p \in Platform \cup {Telegram}, NEW i \in Nat
    PROVE  c \cup {<<p, i>>} \in Conversation
  BY DEF Conversation

LEMMA PendingType == Types => Pending \in SUBSET Nat
  BY DEF Types, Pending, Larger

LEMMA ChannelTypes ==
    ASSUME Types, NEW p \in Platform, FetchesNothing(p) \/ Fetches(p) \/ PassesOver(p) \/ Routes(p)
    PROVE  /\ posts' \in [Platform -> Seq({"user", "bot"})]
           /\ cursor' \in [Platform -> Nat] /\ seed' \in [Platform -> Nat]
           /\ inbox' \in SUBSET Nat
           /\ conv' \in Conversation /\ saved' \in [Session -> Conversation]
<1> USE DEF Types, Platform
<1>1. Len(posts[p]) \in Nat /\ cursor[p] \in Nat /\ p \in Session
  BY DEF Session
<1>2. CASE FetchesNothing(p)
  BY <1>2 DEF FetchesNothing, chanVars
<1>3. CASE Fetches(p)
  <2>1. Fetched(p) \in SUBSET Nat
    BY <1>1 DEF Fetched
  <2>2. QED
    BY <1>1, <1>3, <2>1 DEF Fetches, Seeds
<1>4. inbox # {} => Min(inbox) \in Nat
  BY LeastElement
<1>5. CASE PassesOver(p)
  BY <1>4, <1>5 DEF PassesOver, Seen
<1>6. CASE Routes(p)
  <2>1. Min(inbox) \in Nat
    BY <1>4, <1>6 DEF Routes
  <2>2. cursor' \in [Platform -> Nat] /\ seed' \in [Platform -> Nat] /\ inbox' \in SUBSET Nat
    BY <1>6, <2>1 DEF Routes, Seen
  <2>3. [posts EXCEPT ![p] = Append(@, "bot")] \in [Platform -> Seq({"user", "bot"})]
    OBVIOUS
  <2>4. posts' \in [Platform -> Seq({"user", "bot"})]
    BY <1>6, <2>3 DEF Routes
  <2>5. Restored(p) \in Conversation
    BY <1>1 DEF Restored
  <2>6. conv' \in Conversation
    BY <1>6, <2>1, <2>5, ConversationGrows DEF Routes
  <2>7. saved' = saved \/ saved' = [saved EXCEPT ![p] = conv']
    BY <1>6 DEF Routes, Saved
  <2>8. QED
    BY <1>1, <2>2, <2>4, <2>6, <2>7
<1>7. QED
  BY <1>2, <1>3, <1>5, <1>6

(* The actions of a turn keep the turn's record well-formed. *)
LEMMA TurnTypes ==
    ASSUME Types
    PROVE  /\ (\E how \in How : Streams(how)) => turn' \in Turns
           /\ Continues => turn' \in Turns
           /\ Asks => turn' \in Turns /\ prompts' \in Nat
           /\ PromptPolls \/ PromptEnds => turn' \in Turns
           /\ Delivers \/ Sends \/ Removes => turn' \in Turns
<1> USE DEF Types
<1>0. /\ turn \in Turns /\ 0 \in 0 .. Polls /\ Polls \in 0 .. Polls /\ prompts \in Nat
      /\ NoMessage \in Seq(Nat) /\ <<>> \in Seq(Word)
  BY BotAssumption DEF NoMessage
<1>1. final_text \in Seq(Word) /\ final_text \in Seq(Nat)
  <2>1. turn.content \in Seq(Word) /\ turn.accum \in Seq(Word)
    BY DEF Turns
  <2>2. \A s \in Seq(Word) : s \in Seq(Nat)
    BY DEF Word
  <2>3. QED
    BY <2>1, <2>2 DEF final_text
<1>2. ASSUME NEW how \in How, Streams(how)
      PROVE  turn' \in Turns
  <2> DEFINE c   == turn.chunks + 1
             buf == IF turn.disabled THEN turn.buf ELSE Append(turn.buf, c)
  <2>1. c \in Word /\ c \in Nat
    BY DEF Turns, Word
  <2>2. buf \in Seq(Word) /\ Append(turn.content, c) \in Seq(Word)
    BY <2>1 DEF Turns
  <2>3. buf \in Seq(Nat)
    BY <2>2 DEF Word
  <2>4. turn' = [turn EXCEPT !.chunks = c, !.content = Append(@, c), !.buf = buf,
                       !.shown = IF how = "shown" THEN buf ELSE @,
                       !.disabled = @ \/ how \in {"refused", "long"},
                       !.late = how # "shown"]
    BY <1>2 DEF Streams
  <2> HIDE DEF c, buf
  <2>5. QED
    BY <2>1, <2>2, <2>3, <2>4, ZenonT(60) DEF Turns
<1>3. WithCall \in Turns
  <2>1. turn.accum \o turn.content \in Seq(Word)
    BY DEF Turns
  <2>2. QED
    BY <1>0, <2>1 DEF WithCall, Turns
<1>4. ASSUME Continues
      PROVE  turn' \in Turns
  <2>1. [turn EXCEPT !.content = <<>>] \in Turns
    BY <1>0 DEF Turns
  <2>2. QED
    BY <1>3, <1>4, <2>1 DEF Continues
<1>5. ASSUME Asks
      PROVE  turn' \in Turns /\ prompts' \in Nat
  <2>1. PICK how \in http_post :
              /\ prompts' = IF how = "ok" THEN prompts + 1 ELSE prompts
              /\ turn' = [WithCall EXCEPT !.prompt = IF how = "ok" THEN prompts' ELSE 0,
                                          !.polls = IF how = "lost" THEN 0 ELSE Polls]
    BY <1>5 DEF Asks
  <2>2. prompts' \in Nat
    BY <2>1
  <2>3. QED
    BY <1>0, <1>3, <2>1, <2>2, ZenonT(60) DEF Turns
<1>6. ASSUME PromptPolls \/ PromptEnds
      PROVE  turn' \in Turns
  <2>1. turn.polls > 0 => [turn EXCEPT !.polls = @ - 1] \in Turns
    <3>1. turn.polls \in 0 .. Polls /\ Polls \in Nat
      BY BotAssumption DEF Turns
    <3>2. turn.polls > 0 => turn.polls - 1 \in 0 .. Polls
      BY <3>1
    <3>3. QED
      BY <3>2 DEF Turns
  <2>2. [turn EXCEPT !.prompt = 0, !.polls = 0] \in Turns
    BY <1>0 DEF Turns
  <2>3. QED
    BY <1>6, <2>1, <2>2 DEF PromptPolls, PromptEnds
<1>7. ASSUME Delivers \/ Sends \/ Removes
      PROVE  turn' \in Turns
  <2>1. /\ [turn EXCEPT !.shown = final_text, !.whole = TRUE] \in Turns
        /\ [turn EXCEPT !.trouble = TRUE] \in Turns
        /\ [turn EXCEPT !.whole = TRUE] \in Turns
        /\ [turn EXCEPT !.shown = NoMessage] \in Turns
    BY <1>0, <1>1 DEF Turns
  <2>2. QED
    BY <1>7, <2>1 DEF Delivers, Sends, Removes
<1>8. QED
  BY <1>2, <1>4, <1>5, <1>6, <1>7

LEMMA TurboTypes ==
    ASSUME Types
    PROVE  /\ TurboLoaded \in TurboState /\ TurboAsked \in TurboState
           /\ \A k \in {"turbo_on", "turbo_min", "turbo_off"} : TurboSet(k) \subseteq TurboState
           /\ TurboEnds => turbo' \in TurboState
           /\ Restarts => turbo' \in TurboState
<1>1. turbo \in TurboState
  BY DEF Types
<1>2. TurboLoaded \in TurboState
  BY <1>1 DEF TurboLoaded, TurboState
<1>3. TurboAsked \in TurboState
  BY <1>1, <1>2 DEF TurboAsked, TurboState
<1>4. ASSUME NEW k \in {"turbo_on", "turbo_min", "turbo_off"}
      PROVE  TurboSet(k) \subseteq TurboState
  <2>1. ASSUME NEW m \in {FALSE, turbo.marker}
        PROVE  [TurboLoaded EXCEPT !.until = FALSE, !.forever = FALSE, !.marker = m] \in TurboState
    BY <1>1, <1>2 DEF TurboState
  <2>2. /\ [TurboLoaded EXCEPT !.forever = TRUE, !.marker = TRUE] \in TurboState
        /\ [TurboLoaded EXCEPT !.until = TRUE] \in TurboState
    BY <1>2 DEF TurboState
  <2>3. CASE k = "turbo_off"
    BY <2>1, <2>3 DEF TurboSet
  <2>4. CASE k # "turbo_off"
    BY <1>2, <2>2, <2>4 DEF TurboSet
  <2>5. QED
    BY <2>3, <2>4
<1>5. TurboEnds => turbo' \in TurboState
  BY <1>1 DEF TurboEnds, TurboState
<1>6. Restarts => turbo' \in TurboState
  BY <1>1 DEF Restarts, TurboState
<1>7. QED
  BY <1>2, <1>3, <1>4, <1>5, <1>6

(* One step per action that changes one of the typed variables. *)
LEMMA TypesStep == Types /\ TypeOK /\ [Next]_vars => Types'
<1> SUFFICES ASSUME Types, TypeOK, [Next]_vars
             PROVE  Types'
  OBVIOUS
<1> USE DEF chanVars, serverVars, ghosts
<1>1. CASE UNCHANGED <<sent, confirmed, last, prompts, batch, inbox, turn, posts, cursor, seed,
                       conv, saved, turbo>>
  BY <1>1 DEF Types
<1>2. ASSUME NEW k \in Kinds, Writes(k)
      PROVE  Types'
  <2>1. [kind |-> k] \in Message
    BY DEF Message
  <2>2. sent' \in Seq(Message)
    BY <1>2, <2>1 DEF Writes, Types
  <2>3. QED
    BY <1>2, <2>2 DEF Writes, People, Types
<1>3. ASSUME NEW p \in 0 .. prompts, NEW a \in BOOLEAN, NEW o \in BOOLEAN, Presses(p, a, o)
      PROVE  Types'
  <2>1. [kind |-> "button", prompt |-> p, approve |-> a, owner |-> o] \in Message
    BY DEF Message, Types
  <2>2. sent' \in Seq(Message)
    BY <1>3, <2>1 DEF Presses, Types
  <2>3. QED
    BY <1>3, <2>2 DEF Presses, People, Types
<1>4. CASE TurboEnds
  BY <1>4, TurboTypes DEF TurboEnds, Types
<1>5. CASE Channel
  BY <1>5, ChannelTypes DEF Channel, ChannelStep, Types
<1>6. ASSUME NEW p \in Platform, Posted(p), PostArrives
      PROVE  Types'
  <2>1. posts' \in [Platform -> Seq({"user", "bot"})]
    BY <1>6 DEF Posted, Types
  <2>2. QED
    BY <1>6, <2>1 DEF Posted, PostArrives, Types
<1>7. CASE PollLost \/ Poll
  BY <1>7, LargerType, PendingType DEF PollLost, Poll, Types
<1>8. pc = "dispatch" => Min(batch) \in Nat /\ Larger(last, Min(batch)) \in Nat
  BY LeastElement, LargerType DEF Types, TypeOK
<1>9. CASE Passes
  BY <1>8, <1>9 DEF Passes, Takes, Advances, Types
<1>10. CASE Turbo
  <2>1. turbo' \in TurboState
    BY <1>10, TurboTypes DEF Turbo, Takes
  <2>2. QED
    BY <1>8, <1>10, <2>1 DEF Turbo, Takes, Advances, Types
<1>11. CASE Sessions
  <2>1. {} \in Conversation /\ Telegram \in Session /\ {"save", "checkpoint"} \subseteq Session
    BY DEF Conversation, Session
  <2>2. conv' \in Conversation /\ saved' \in [Session -> Conversation]
    <3>1. CASE conv' = {} /\ saved' \in Saved(Telegram, {})
      BY <2>1, <3>1 DEF Saved, Types
    <3>2. CASE saved' \in Saved(Update.kind, conv) /\ conv' = conv
      BY <3>2 DEF Saved, Types
    <3>3. CASE saved' = saved /\ (conv' = conv \/ \E s \in Session : conv' = saved[s])
      BY <3>3 DEF Types
    <3>4. CASE saved' = saved /\ conv' \in SUBSET conv
      BY <3>4 DEF Types, Conversation
    <3>5. QED
      <4>1. \A s \in IF Update.kind = "resume" THEN Session \ {"checkpoint"} ELSE {"checkpoint"} :
               s \in Session
        BY <2>1
      <4>2. QED
        BY <1>11, <3>1, <3>2, <3>3, <3>4, <4>1 DEF Sessions
  <2>3. QED
    BY <1>8, <1>11, <2>2 DEF Sessions, Takes, Advances, Types
<1>12. CASE Begins
  <2>1. Min(batch) \in Nat /\ last' \in Nat
    BY <1>8, <1>12 DEF Begins, Takes
  <2>2. conv' \in Conversation
    BY <1>12, <2>1, ConversationGrows DEF Begins, Types
  <2>3. turn' \in Turns
    BY <1>12, <2>1, IdleTurn DEF Begins
  <2>4. QED
    BY <1>12, <2>1, <2>2, <2>3 DEF Begins, Types
<1>13. ASSUME NEW how \in How, Streams(how)
       PROVE  Types'
  BY <1>13, TurnTypes DEF Streams, StepOnly, Types
<1>14. CASE Continues
  BY <1>14, TurnTypes, TurboTypes DEF Continues, StepOnly, Types
<1>15. CASE Asks
  <2>1. turbo' \in TurboState /\ turn' \in Turns /\ prompts' \in Nat
    BY <1>15, TurnTypes, TurboTypes DEF Asks
  <2>2. QED
    BY <1>15, <2>1 DEF Asks, StepOnly, Types
<1>16. CASE PromptPolls
  <2>1. turn' \in Turns
    BY <1>16, TurnTypes
  <2>2. confirmed' \in Nat
    BY <1>16, LargerType DEF PromptPolls, Types
  <2>3. last' \in Nat
    <3>0. /\ last \in Nat /\ confirmed \in Nat /\ Len(sent) \in Nat
          /\ Larger(last, confirmed) \in Nat
      <4>1. last \in Nat /\ confirmed \in Nat /\ Len(sent) \in Nat
        BY DEF Types
      <4>2. QED
        BY <4>1, LargerType
    <3>1. \A u \in Pending : u \in Nat /\ Abandons(u) \in Nat /\ Acknowledges(u) \in Nat
      BY <3>0 DEF Pending, Abandons, Acknowledges
    <3>2. Larger(last, Len(sent)) \in Nat
      BY <3>0, LargerType
    <3>3. QED
      BY <1>16, <3>1, <3>2 DEF PromptPolls, Types
  <2>4. QED
    BY <1>16, <2>1, <2>2, <2>3 DEF PromptPolls, Types
<1>17. CASE PromptEnds \/ Delivers \/ Sends \/ Removes
  BY <1>17, TurnTypes DEF PromptEnds, Delivers, Sends, Removes, StepOnly, Types
<1>18. CASE Saves
  <2>1. turn' \in Turns
    BY <1>18, IdleTurn DEF Saves, Types, Turns
  <2>2. saved' \in [Session -> Conversation]
    BY <1>18 DEF Saves, Persists, Types
  <2>3. QED
    BY <1>18, <2>1, <2>2 DEF Saves, Types
<1>19. ASSUME Restarts
       PROVE  Types'
  <2>1. {} \in Conversation /\ Telegram \in Session
    BY DEF Conversation, Session
  <2>2. conv' \in Conversation
    BY <1>19, <2>1 DEF Restarts, Types
  <2>3. QED
    BY <1>19, <2>2, IdleTurn, TurboTypes DEF Restarts, ChannelsForget, Types
<1>20. QED
  BY <1>1, <1>2, <1>3, <1>4, <1>5, <1>6, <1>7, <1>9, <1>10, <1>11, <1>12, <1>13, <1>14, <1>15,
     <1>16, <1>17, <1>18, <1>19
     DEF Next, Handles, vars, PostArrives, Signalled, Crash, RestartCommand, LoopEnds, Loops,
         Concludes, StepOnly

-----------------------------------------------------------------------------
(* Where the loop is, and the offset with which Telegram is asked. *)
TurnPc == {"step", "prompt", "deliver", "send", "remove", "save"}
LoopPc == Platform \cup {"top", "poll", "dispatch"} \cup TurnPc

LEMMA AfterPc == \A p \in Platform : After(p) \in {"slack", "poll"} /\ First \in Platform \cup {"poll"}
  BY DEF After, First, Platform

LEMMA PcStep == TypeOK /\ [Next]_vars => pc' \in LoopPc
<1> SUFFICES ASSUME TypeOK, [Next]_vars
             PROVE  pc' \in LoopPc
  OBVIOUS
<1> USE DEF LoopPc, TurnPc
<1>1. CASE UNCHANGED pc
  BY <1>1 DEF TypeOK
<1>2. CASE Channel
  BY <1>2, AfterPc DEF Channel, ChannelStep, FetchesNothing, Fetches, Seeds, PassesOver, Routes, Seen,
                       Platform
<1>3. CASE Loops
  BY <1>3, AfterPc DEF Loops, Platform
<1>4. CASE Restarts
  BY <1>4 DEF Restarts
<1>5. Advances => pc' \in LoopPc
  BY DEF Advances, NextUpdate
<1>6. QED
  BY <1>1, <1>2, <1>3, <1>4, <1>5
     DEF Next, Handles, vars, PostArrives, Posted, Signalled, Crash, RestartCommand, LoopEnds,
         Concludes, Poll, PollLost, Writes, Presses, People, TurboEnds, Passes, Turbo,
         Sessions, Begins, Streams, Continues, Asks, PromptPolls, PromptEnds, Delivers, Sends,
         Removes, Saves, NextUpdate

(* Telegram's list only grows. *)
LEMMA SentGrows ==
    ASSUME Types, [Next]_vars
    PROVE  /\ Len(sent) \in Nat /\ Len(sent') \in Nat /\ Len(sent) <= Len(sent')
           /\ \A u \in 1 .. Len(sent) : sent'[u] = sent[u]
<1>1. CASE UNCHANGED sent
  BY <1>1 DEF Types
<1>2. ASSUME NEW k \in Kinds, Writes(k)
      PROVE  sent' = Append(sent, [kind |-> k]) /\ [kind |-> k] \in Message
  BY <1>2 DEF Writes, Message
<1>3. ASSUME NEW p \in 0 .. prompts, NEW a \in BOOLEAN, NEW o \in BOOLEAN, Presses(p, a, o)
      PROVE  \E m \in Message : sent' = Append(sent, m)
  <2>1. [kind |-> "button", prompt |-> p, approve |-> a, owner |-> o] \in Message
    BY DEF Message, Types
  <2>2. QED
    BY <1>3, <2>1 DEF Presses
<1>4. ASSUME NEW m \in Message, sent' = Append(sent, m)
      PROVE  /\ Len(sent) \in Nat /\ Len(sent') \in Nat /\ Len(sent) <= Len(sent')
             /\ \A u \in 1 .. Len(sent) : sent'[u] = sent[u]
  BY <1>4 DEF Types
<1>5. QED
  <2>1. UNCHANGED sent \/ \E m \in Message : sent' = Append(sent, m)
    BY <1>1, <1>2, <1>3
     DEF Next, Handles, vars, PostArrives, Signalled, Crash, RestartCommand, LoopEnds, Loops,
         Concludes, Poll, PollLost, TurboEnds, Passes, Turbo, Channel,
         Sessions, Begins, Streams, Continues, Asks, PromptPolls, PromptEnds, Delivers, Sends,
         Removes, Saves, StepOnly, serverVars, Restarts
  <2>2. QED
    BY <1>1, <1>4, <2>1, SMTT(30)

(* The offset, what it has confirmed and the batch stay within the list. *)
Offsets == /\ confirmed \in 0 .. Len(sent) /\ last \in 0 .. Len(sent)
           /\ batch \subseteq 1 .. Len(sent) /\ (pc = "dispatch" => batch # {})

LEMMA LargerWithin ==
    ASSUME NEW n \in Nat, NEW a \in 0 .. n, NEW b \in 0 .. n
    PROVE  Larger(a, b) \in 0 .. n
  BY DEF Larger

LEMMA OffsetsStep == Types /\ TypeOK /\ [Next]_vars => Offsets'
<1> SUFFICES ASSUME Types, TypeOK, [Next]_vars
             PROVE  Offsets'
  OBVIOUS
<1> USE DEF serverVars
<1>0. /\ confirmed \in 0 .. Len(sent) /\ last \in 0 .. Len(sent)
      /\ batch \subseteq 1 .. Len(sent) /\ (pc = "dispatch" => batch # {})
      /\ Len(sent) \in Nat /\ Len(sent') \in Nat /\ Len(sent) <= Len(sent')
  BY SentGrows DEF TypeOK
<1>1. ASSUME confirmed' \in 0 .. Len(sent), last' \in 0 .. Len(sent),
             batch' \subseteq 1 .. Len(sent), pc' = "dispatch" => batch' # {}
      PROVE  Offsets'
  BY <1>0, <1>1 DEF Offsets
<1>2. Larger(confirmed, last) \in 0 .. Len(sent) /\ Larger(last, Len(sent)) \in 0 .. Len(sent)
  BY <1>0, LargerWithin
<1>3. /\ Pending \subseteq 1 .. Len(sent)
      /\ \A u \in Pending : u \in 0 .. Len(sent) /\ Abandons(u) \in 0 .. Len(sent)
                        /\ Acknowledges(u) \in 0 .. Len(sent)
  <2>1. Larger(last, confirmed) \in 0 .. Len(sent)
    BY <1>0, LargerWithin
  <2>2. QED
    BY <1>0, <2>1 DEF Pending, Abandons, Acknowledges
<1>4. pc = "dispatch" => Min(batch) \in 1 .. Len(sent) /\ Larger(last, Min(batch)) \in 0 .. Len(sent)
  <2> SUFFICES ASSUME pc = "dispatch"
               PROVE  Min(batch) \in 1 .. Len(sent) /\ Larger(last, Min(batch)) \in 0 .. Len(sent)
    OBVIOUS
  <2>1. Min(batch) \in batch
    BY <1>0, LeastElement DEF Types
  <2>2. \A x \in batch : x \in 1 .. Len(sent) /\ x \in 0 .. Len(sent)
    BY <1>0
  <2>3. QED
    BY <1>0, <2>1, <2>2, LargerWithin
<1>5. CASE UNCHANGED <<confirmed, last, batch>> /\ (pc' = "dispatch" => pc = "dispatch")
  BY <1>0, <1>1, <1>5
<1>6. CASE Poll \/ PollLost
  BY <1>0, <1>1, <1>2, <1>3, <1>6 DEF Poll, PollLost
<1>7. CASE Passes \/ Turbo \/ Sessions
  <2>1. last' \in 0 .. Len(sent) /\ Advances /\ UNCHANGED confirmed
    BY <1>4, <1>7 DEF Passes, Turbo, Sessions, Takes
  <2>2. QED
    BY <1>0, <1>1, <2>1 DEF Advances, NextUpdate
<1>8. CASE Begins
  <2>1. last' \in 0 .. Len(sent) /\ pc' # "dispatch"
    BY <1>4, <1>8 DEF Begins, Takes
  <2>2. QED
    BY <1>0, <1>1, <1>8, <2>1 DEF Begins
<1>9. CASE PromptPolls
  <2>1. pc' # "dispatch" /\ UNCHANGED batch
    BY <1>9 DEF PromptPolls
  <2>2. confirmed' \in 0 .. Len(sent) /\ last' \in 0 .. Len(sent)
    BY <1>0, <1>2, <1>3, <1>9 DEF PromptPolls
  <2>3. QED
    BY <1>0, <1>1, <2>1, <2>2
<1>10. CASE Saves
  BY <1>0, <1>1, <1>10 DEF Saves, NextUpdate
<1>11. CASE Restarts
  BY <1>0, <1>1, <1>11 DEF Restarts
<1>12. CASE Channel
  <2>1. pc' # "dispatch"
    BY <1>12, AfterPc DEF Channel, ChannelStep, FetchesNothing, Fetches, Seeds, PassesOver, Routes,
                          Seen, Platform
  <2>2. QED
    BY <1>5, <1>12, <2>1 DEF Channel
<1>13. CASE Loops
  BY <1>5, <1>13, AfterPc, SMTT(30) DEF Loops, Platform
<1>14. QED
  BY <1>5, <1>6, <1>7, <1>8, <1>9, <1>10, <1>11, <1>12, <1>13
     DEF Next, Handles, vars, PostArrives, Posted, Signalled, Crash, RestartCommand, LoopEnds,
         Concludes, Writes, Presses, People, TurboEnds,
         Streams, Continues, Asks, PromptEnds, Delivers, Sends, Removes, StepOnly

(* What was fetched from a channel is of the channel being looked at. *)
InboxWithin == inbox # {} => pc \in Platform /\ inbox \subseteq 1 .. Len(posts[pc])

LEMMA InboxStep == Types /\ TypeOK /\ [Next]_vars => InboxWithin'
<1> SUFFICES ASSUME Types, TypeOK, [Next]_vars
             PROVE  InboxWithin'
  OBVIOUS
<1>0. inbox # {} => pc \in Platform /\ inbox \subseteq 1 .. Len(posts[pc])
  BY DEF TypeOK
<1>1. CASE UNCHANGED <<inbox, posts, pc>>
  BY <1>0, <1>1 DEF InboxWithin
<1>2. CASE inbox' = {}
  BY <1>2 DEF InboxWithin
<1>3. CASE UNCHANGED inbox /\ pc \notin Platform
  BY <1>0, <1>2, <1>3
<1>4. ASSUME NEW p \in Platform, FetchesNothing(p) \/ Fetches(p) \/ PassesOver(p) \/ Routes(p)
      PROVE  InboxWithin'
  <2>1. CASE FetchesNothing(p)
    BY <1>2, <2>1 DEF FetchesNothing, chanVars
  <2>2. CASE Fetches(p)
    <3>1. Fetched(p) \subseteq 1 .. Len(posts[p])
      <4>1. cursor[p] \in Nat /\ Len(posts[p]) \in Nat
        BY DEF Types
      <4>2. QED
        BY <4>1 DEF Fetched
    <3>2. QED
      BY <2>2, <3>1 DEF Fetches, Seeds, InboxWithin
  <2>3. ASSUME PassesOver(p) \/ Routes(p)
        PROVE  InboxWithin'
    <3>1. /\ pc = p /\ inbox' = inbox \ {Min(inbox)}
          /\ pc' = IF inbox = {Min(inbox)} THEN After(p) ELSE p
      BY <2>3 DEF PassesOver, Routes, Seen
    <3>2. Len(posts'[p]) \in Nat /\ Len(posts[p]) \in Nat /\ Len(posts[p]) <= Len(posts'[p])
      BY <2>3 DEF PassesOver, Routes, Types
    <3>3. QED
      BY <1>0, <3>1, <3>2 DEF InboxWithin
  <2>4. QED
    BY <1>4, <2>1, <2>2, <2>3
<1>5. CASE PostArrives
  BY <1>2, <1>5 DEF PostArrives, Posted
<1>6. CASE Restarts
  BY <1>2, <1>6 DEF Restarts, ChannelsForget
<1>7. QED
  BY <1>1, <1>3, <1>4, <1>5, <1>6
     DEF Next, Handles, vars, Signalled, Crash, RestartCommand, LoopEnds, Loops,
         Concludes, Poll, PollLost, Writes, Presses, People, TurboEnds, Passes, Turbo,
         Sessions, Begins, Streams, Continues, Asks, PromptPolls, PromptEnds, Delivers, Sends,
         Removes, Saves, StepOnly, Takes, chanVars, Channel, ChannelStep, Platform

(* A prompt that is waited for is one that the chat shows. *)
PromptWithin == turn.prompt \in 0 .. prompts /\ prompts <= MaxPrompts

LEMMA PromptStep == Types /\ TypeOK /\ [Next]_vars => PromptWithin'
<1> SUFFICES ASSUME Types, TypeOK, [Next]_vars
             PROVE  PromptWithin'
  OBVIOUS
<1>0. /\ turn \in Turns /\ prompts \in Nat /\ turn.prompt \in 0 .. prompts
      /\ prompts <= MaxPrompts /\ MaxPrompts \in Nat
  BY BotAssumption DEF Types, TypeOK
<1>1. CASE UNCHANGED prompts /\ turn'.prompt \in {0, turn.prompt}
  BY <1>0, <1>1 DEF PromptWithin
<1>2. CASE Asks
  <2>1. PICK how \in http_post :
              /\ how = "ok" => prompts < MaxPrompts
              /\ prompts' = IF how = "ok" THEN prompts + 1 ELSE prompts
              /\ turn' = [WithCall EXCEPT !.prompt = IF how = "ok" THEN prompts' ELSE 0,
                                          !.polls = IF how = "lost" THEN 0 ELSE Polls]
    BY <1>2 DEF Asks
  <2>2. turn'.prompt = IF how = "ok" THEN prompts' ELSE 0
    BY <1>0, <2>1 DEF WithCall, Turns
  <2>3. QED
    BY <1>0, <2>1, <2>2 DEF PromptWithin
<1>3. \A t \in Turns : t = turn => t.prompt = turn.prompt
  OBVIOUS
<1>4. ASSUME NEW how \in How, Streams(how)
      PROVE  UNCHANGED prompts /\ turn'.prompt \in {0, turn.prompt}
  BY <1>0, <1>4 DEF Streams, Turns
<1>5. CASE Continues
  BY <1>0, <1>1, <1>5 DEF Continues, WithCall, Turns
<1>6. CASE PromptPolls \/ PromptEnds
  BY <1>0, <1>1, <1>6 DEF PromptPolls, PromptEnds, Turns
<1>7. CASE Delivers \/ Sends \/ Removes
  BY <1>0, <1>1, <1>7 DEF Delivers, Sends, Removes, Turns
<1>8. CASE Begins \/ Saves \/ Restarts
  BY <1>0, <1>1, <1>8 DEF Begins, Saves, Restarts, Idle, serverVars
<1>9. QED
  BY <1>1, <1>2, <1>4, <1>5, <1>6, <1>7, <1>8
     DEF Next, Handles, vars, Signalled, Crash, RestartCommand, LoopEnds, Loops, PostArrives,
         Concludes, Poll, PollLost, Writes, Presses, People, TurboEnds, Passes, Turbo,
         Sessions, StepOnly, Channel, serverVars

LEMMA TypeOKStep == Types /\ TypeOK /\ [Next]_vars => Types' /\ TypeOK'
<1> SUFFICES ASSUME Types, TypeOK, [Next]_vars
             PROVE  Types' /\ TypeOK'
  OBVIOUS
<1>1. Types' /\ Offsets' /\ InboxWithin' /\ PromptWithin' /\ pc' \in LoopPc
  BY TypesStep, OffsetsStep, InboxStep, PromptStep, PcStep
<1>2. turn'.polls \in 0 .. Polls
  BY <1>1 DEF Types, Turns
<1>3. QED
  BY <1>1, <1>2 DEF TypeOK, Offsets, InboxWithin, PromptWithin, LoopPc, TurnPc

-----------------------------------------------------------------------------
(* No text is lost.  Two facts carry NoMessageLost from one poll to the    *)
(* next: behind the offset every text has been taken up, and so has every  *)
(* text before an update of the batch, unless it is in the batch as well.  *)
IsText(u)      == sent[u].kind = "text"
BehindOffset   == \A u \in 1 .. last : IsText(u) => u \in begun
BeforeTheBatch == \A b \in batch : \A u \in 1 .. b : IsText(u) /\ u \notin batch => u \in begun
TakenUp        == NoMessageLost /\ BehindOffset /\ BeforeTheBatch

(* With offset and batch as they are, one more begun text or one more      *)
(* message changes nothing.                                                *)
LEMMA TakenUpKept ==
    ASSUME Types, TypeOK, TakenUp, [Next]_vars,
           UNCHANGED <<confirmed, last, batch>>, begun \subseteq begun'
    PROVE  TakenUp'
<1>1. \A u \in 1 .. Len(sent) : IsText(u)' <=> IsText(u)
  BY SentGrows DEF IsText
<1>2. /\ confirmed \in 0 .. Len(sent) /\ last \in 0 .. Len(sent) /\ batch \subseteq 1 .. Len(sent)
      /\ Len(sent) \in Nat
  BY SentGrows DEF TypeOK
<1>3. /\ 1 .. confirmed \subseteq 1 .. Len(sent) /\ 1 .. last \subseteq 1 .. Len(sent)
      /\ \A b \in batch : 1 .. b \subseteq 1 .. Len(sent)
  BY <1>2
<1>4. \A u \in 1 .. confirmed : sent'[u].kind = "text" <=> sent[u].kind = "text"
  BY <1>1, <1>3 DEF IsText
<1>5. NoMessageLost'
  BY <1>4 DEF TakenUp, NoMessageLost
<1>6. BehindOffset'
  BY <1>1, <1>3 DEF TakenUp, BehindOffset
<1>7. BeforeTheBatch'
  BY <1>1, <1>3 DEF TakenUp, BeforeTheBatch
<1>8. QED
  BY <1>5, <1>6, <1>7 DEF TakenUp

(* Everything up to what was confirmed or seen is taken up. *)
LEMMA BehindPending ==
    ASSUME Types, TypeOK, TakenUp
    PROVE  /\ \A u \in 1 .. Larger(last, confirmed) : IsText(u) => u \in begun
           /\ \A u \in 1 .. Larger(confirmed, last) : IsText(u) => u \in begun
           /\ \A u \in 1 .. Len(sent) : u \notin Pending => u \in 1 .. Larger(last, confirmed)
<1>1. last \in Nat /\ confirmed \in Nat /\ Len(sent) \in Nat
  BY DEF Types
<1>2. \A u \in 1 .. last : IsText(u) => u \in begun
  BY DEF TakenUp, BehindOffset
<1>3. \A u \in 1 .. confirmed : IsText(u) => u \in begun
  BY DEF TakenUp, NoMessageLost, IsText
<1>4. \A u \in 1 .. Len(sent) : u \notin Pending => u \in 1 .. Larger(last, confirmed)
  <2>1. Larger(last, confirmed) \in Nat
    BY <1>1, LargerType
  <2>2. QED
    BY <1>1, <2>1 DEF Pending
<1>5. QED
  BY <1>2, <1>3, <1>4 DEF Larger


(* The loop takes the first update of the batch.  A text it begins; what   *)
(* lies before that update is not in the batch, so it was taken up.        *)
LEMMA TakeKeeps ==
    ASSUME Types, TypeOK, TakenUp, pc = "dispatch", UNCHANGED <<sent, confirmed>>,
           last' = Larger(last, Min(batch)), batch' = batch \ {Min(batch)},
           begun \subseteq begun', IsText(Min(batch)) => Min(batch) \in begun'
    PROVE  TakenUp'
<1> DEFINE m == Min(batch)
<1>1. m \in batch /\ m \in Nat /\ \A y \in batch : m <= y
  BY LeastElement DEF Types, TypeOK
<1>2. batch \subseteq Nat /\ last \in Nat
  BY DEF Types
<1> HIDE DEF m
<1>3. \A u \in 1 .. m : IsText(u) => u \in begun'
  <2>1. ASSUME NEW u \in 1 .. m, IsText(u), u # m
        PROVE  u \in begun
    <3>1. u \notin batch
      BY <1>1, <2>1
    <3>2. QED
      BY <1>1, <2>1, <3>1 DEF TakenUp, BeforeTheBatch
  <2>2. QED
    BY <1>1, <2>1 DEF m
<1>4. \A u : IsText(u)' <=> IsText(u)
  BY DEF IsText
<1>5. NoMessageLost'
  BY DEF TakenUp, NoMessageLost
<1>6. BehindOffset'
  <2>1. last' = last \/ last' = m
    BY DEF Larger, m
  <2>2. QED
    BY <1>3, <1>4, <2>1 DEF TakenUp, BehindOffset
<1>7. BeforeTheBatch'
  <2> SUFFICES ASSUME NEW b \in batch', NEW u \in 1 .. b, IsText(u), u \notin batch'
               PROVE  u \in begun'
    BY <1>4 DEF BeforeTheBatch
  <2>1. b \in batch /\ (u = m \/ u \notin batch)
    BY DEF m
  <2>2. QED
    BY <2>1 DEF TakenUp, BeforeTheBatch, m
<1>8. QED
  BY <1>5, <1>6, <1>7 DEF TakenUp

(* A prompt's polls: what they pass over are buttons. *)
LEMMA PromptKeeps ==
    ASSUME Types, TypeOK, TakenUp, PromptPolls
    PROVE  TakenUp'
<1>1. /\ UNCHANGED <<sent, batch, begun>> /\ last \in Nat /\ Len(sent) \in Nat
      /\ last \in 0 .. Len(sent)
  BY DEF PromptPolls, Types, TypeOK
<1>2. \A u : IsText(u)' <=> IsText(u)
  BY <1>1 DEF IsText
<1>3. \A u \in Pending : ~Decides(u) => ~IsText(u)
  BY DEF Decides, IsText
<1>4. NoMessageLost'
  <2>1. confirmed' \in {confirmed, Larger(confirmed, last)}
    BY DEF PromptPolls
  <2>2. QED
    BY <1>1, <2>1, BehindPending DEF TakenUp, NoMessageLost, IsText
<1>5. BeforeTheBatch'
  BY <1>1, <1>2 DEF TakenUp, BeforeTheBatch
<1>6. ASSUME NEW n \in 0 .. Len(sent), \A v \in Pending : v <= n => ~IsText(v)
      PROVE  \A v \in 1 .. n : IsText(v) => v \in begun
  <2> SUFFICES ASSUME NEW v \in 1 .. n, IsText(v)
               PROVE  v \in begun
    OBVIOUS
  <2>1. v \in 1 .. Len(sent) /\ v \notin Pending
    BY <1>1, <1>6
  <2>2. QED
    BY <2>1, BehindPending
<1>7. BehindOffset'
  <2>1. CASE last' = last
    BY <1>1, <1>2, <2>1 DEF TakenUp, BehindOffset
  <2>2. CASE last' = Larger(last, Len(sent)) /\ \A u \in Pending : ~Decides(u)
    <3>1. last' = Len(sent)
      BY <1>1, <2>2 DEF Larger
    <3>2. \A v \in 1 .. Len(sent) : IsText(v) => v \in begun
      <4>1. Len(sent) \in 0 .. Len(sent) /\ \A v \in Pending : v <= Len(sent) => ~IsText(v)
        BY <1>1, <1>3, <2>2
      <4>2. QED
        BY <1>6, <4>1
    <3>3. QED
      BY <1>1, <1>2, <3>1, <3>2 DEF BehindOffset
  <2>3. ASSUME NEW u \in Pending, Decides(u), \A v \in Pending : v < u => ~Decides(v),
               last' = IF sent[u].kind = "button" THEN Acknowledges(u) ELSE Abandons(u)
        PROVE  BehindOffset'
    <3>0. Larger(last, confirmed) \in Nat
      BY LargerType DEF Types
    <3>1. u \in 1 .. Len(sent) /\ Pending \subseteq Nat
      BY <1>1, <3>0 DEF Pending
    <3>2. last' \in 0 .. Len(sent) /\ (last' = u => ~IsText(u)) /\ last' <= u
      BY <1>1, <2>3, <3>1 DEF Abandons, Acknowledges, IsText
    <3>3. \A v \in Pending : v <= last' => ~IsText(v)
      BY <1>3, <2>3, <3>1, <3>2
    <3>4. \A v \in 1 .. last' : IsText(v) => v \in begun
      BY <1>6, <3>2, <3>3
    <3>5. QED
      BY <1>1, <1>2, <3>4 DEF BehindOffset
  <2>4. QED
    BY <2>1, <2>2, <2>3 DEF PromptPolls
<1>8. QED
  BY <1>4, <1>5, <1>7 DEF TakenUp

LEMMA TakenUpStep == Types /\ TypeOK /\ TakenUp /\ [Next]_vars => TakenUp'
<1> SUFFICES ASSUME Types, TypeOK, TakenUp, [Next]_vars
             PROVE  TakenUp'
  OBVIOUS
<1>1. CASE UNCHANGED <<confirmed, last, batch, begun>>
  BY <1>1, TakenUpKept
<1>2. CASE Poll \/ PollLost
  <2>1. UNCHANGED <<sent, last, begun>> /\ confirmed' \in {confirmed, Larger(confirmed, last)}
    BY <1>2 DEF Poll, PollLost, ghosts
  <2>2. \A u : IsText(u)' <=> IsText(u)
    BY <2>1 DEF IsText
  <2>3. NoMessageLost'
    BY <2>1, BehindPending DEF TakenUp, NoMessageLost, IsText
  <2>4. BehindOffset'
    BY <2>1, <2>2 DEF TakenUp, BehindOffset
  <2>5. BeforeTheBatch'
    <3>1. CASE batch' = batch
      BY <2>1, <2>2, <3>1 DEF TakenUp, BeforeTheBatch
    <3>2. CASE batch' = Pending
      <4> SUFFICES ASSUME NEW b \in Pending, NEW u \in 1 .. b, IsText(u), u \notin Pending
                   PROVE  u \in begun
        BY <2>1, <2>2, <3>2 DEF BeforeTheBatch
      <4>1. b \in 1 .. Len(sent) /\ Len(sent) \in Nat
        BY LargerType DEF Pending, Types
      <4>2. u \in 1 .. Len(sent)
        BY <4>1
      <4>3. QED
        BY <4>2, BehindPending
    <3>3. QED
      BY <1>2, <3>1, <3>2 DEF Poll, PollLost
  <2>6. QED
    BY <2>3, <2>4, <2>5 DEF TakenUp
<1>3. CASE Passes \/ Turbo \/ Sessions
  <2>1. /\ pc = "dispatch" /\ UNCHANGED <<sent, confirmed, begun>>
        /\ last' = Larger(last, Min(batch)) /\ batch' = batch \ {Min(batch)}
        /\ Update.kind # "text"
    BY <1>3 DEF Passes, Turbo, Sessions, Takes, Advances, serverVars, ghosts
  <2>2. QED
    BY <2>1, TakeKeeps DEF Update, IsText
<1>4. CASE Begins
  <2>1. /\ pc = "dispatch" /\ UNCHANGED <<sent, confirmed>>
        /\ last' = Larger(last, Min(batch)) /\ batch' = batch \ {Min(batch)}
        /\ begun' = begun \cup {Min(batch)}
    BY <1>4 DEF Begins, Takes, serverVars
  <2>2. QED
    BY <2>1, TakeKeeps
<1>5. CASE PromptPolls
  BY <1>5, PromptKeeps
<1>6. CASE Restarts
  <2>1. UNCHANGED <<sent, confirmed, begun>> /\ last' = 0 /\ batch' = {}
    BY <1>6 DEF Restarts, serverVars
  <2>2. QED
    BY <2>1 DEF TakenUp, NoMessageLost, BehindOffset, BeforeTheBatch
<1>7. QED
  BY <1>1, <1>2, <1>3, <1>4, <1>5, <1>6
     DEF Next, Handles, vars, PostArrives, Signalled, Crash, RestartCommand, LoopEnds, Loops,
         Concludes, Writes, Presses, People, TurboEnds, Channel, Saves,
         Streams, Continues, Asks, PromptEnds, Delivers, Sends, Removes, StepOnly, ghosts, serverVars

-----------------------------------------------------------------------------
(* The texts are taken in order: whatever is still in the batch is newer   *)
(* than the turn under way or last finished, which the offset has passed.  *)
InOrder == turn.id <= last /\ \A b \in batch : turn.id < b

LEMMA InOrderStep == Types /\ TypeOK /\ InOrder /\ [Next]_vars => InOrder'
<1> SUFFICES ASSUME Types, TypeOK, InOrder, [Next]_vars
             PROVE  InOrder'
  OBVIOUS
<1>0. /\ turn \in Turns /\ turn.id \in Nat /\ last \in Nat /\ confirmed \in Nat
      /\ batch \in SUBSET Nat /\ Len(sent) \in Nat
      /\ Larger(last, confirmed) \in Nat /\ Larger(last, confirmed) >= last
  <2>1. /\ turn \in Turns /\ turn.id \in Nat /\ last \in Nat /\ confirmed \in Nat
        /\ batch \in SUBSET Nat /\ Len(sent) \in Nat
    BY DEF Types, Turns
  <2>2. QED
    BY <2>1, LargerType
<1>1. ASSUME turn'.id = turn.id, last' \in Nat, last' >= last, batch' \subseteq batch
      PROVE  InOrder'
  BY <1>0, <1>1 DEF InOrder
<1>2. pc = "dispatch" =>
         /\ Min(batch) \in batch /\ Min(batch) \in Nat /\ \A y \in batch : Min(batch) <= y
         /\ Larger(last, Min(batch)) \in Nat /\ Larger(last, Min(batch)) >= last
         /\ Larger(last, Min(batch)) >= Min(batch)
  <2>1. pc = "dispatch" => /\ Min(batch) \in batch /\ Min(batch) \in Nat
                           /\ \A y \in batch : Min(batch) <= y
    BY <1>0, LeastElement DEF TypeOK
  <2>2. QED
    BY <1>0, <2>1, LargerType
<1>3. CASE Poll
  <2>1. UNCHANGED <<turn, last>> /\ \A b \in batch' : b > Larger(last, confirmed) /\ b \in Nat
    BY <1>0, <1>3 DEF Poll, Pending
  <2>2. QED
    BY <1>0, <2>1 DEF InOrder
<1>4. CASE Passes \/ Turbo \/ Sessions
  <2>1. /\ pc = "dispatch" /\ UNCHANGED turn
        /\ last' = Larger(last, Min(batch)) /\ batch' = batch \ {Min(batch)}
    BY <1>4 DEF Passes, Turbo, Sessions, Takes, Advances
  <2>2. QED
    BY <1>1, <1>2, <2>1
<1>5. CASE Begins
  <2>1. /\ pc = "dispatch" /\ turn'.id = Min(batch)
        /\ last' = Larger(last, Min(batch)) /\ batch' = batch \ {Min(batch)}
    BY <1>5 DEF Begins, Takes, Idle
  <2>2. \A b \in batch' : Min(batch) < b
    BY <1>0, <1>2, <2>1
  <2>3. QED
    BY <1>2, <2>1, <2>2 DEF InOrder
<1>6. CASE PromptPolls
  <2>1. turn'.id = turn.id /\ UNCHANGED batch
    BY <1>0, <1>6 DEF PromptPolls, Turns
  <2>2. \A u \in Pending : /\ u \in Nat /\ u >= last /\ Abandons(u) \in Nat /\ Abandons(u) >= last
                           /\ Acknowledges(u) = u
    BY <1>0 DEF Pending, Abandons, Acknowledges
  <2>3. Larger(last, Len(sent)) \in Nat /\ Larger(last, Len(sent)) >= last
    BY <1>0, LargerType
  <2>4. last' \in Nat /\ last' >= last
    BY <1>0, <1>6, <2>2, <2>3 DEF PromptPolls
  <2>5. QED
    BY <1>1, <2>1, <2>4
<1>7. CASE Restarts
  BY <1>7 DEF Restarts, Idle, InOrder
<1>8. CASE UNCHANGED <<turn, last, batch>>
  BY <1>0, <1>1, <1>8
<1>9. ASSUME (\E how \in How : Streams(how)) \/ Continues \/ Asks \/ PromptEnds \/ Delivers \/ Sends
                \/ Removes \/ Saves
      PROVE  InOrder'
  <2>1. UNCHANGED <<last, batch>>
    BY <1>9 DEF Streams, Continues, Asks, PromptEnds, Delivers, Sends, Removes, Saves, StepOnly
  <2>2. turn'.id = turn.id
    BY <1>0, <1>9, ZenonT(60) DEF Streams, Continues, Asks, PromptEnds, Delivers, Sends, Removes, Saves, Turns,
                      Idle, WithCall
  <2>3. QED
    BY <1>0, <1>1, <2>1, <2>2, SMTT(30)
<1>10. QED
  BY <1>3, <1>4, <1>5, <1>6, <1>7, <1>8, <1>9
     DEF Next, Handles, vars, PostArrives, Signalled, Crash, RestartCommand, LoopEnds, Loops,
         Concludes, Writes, Presses, People, TurboEnds, Channel, PollLost, StepOnly

-----------------------------------------------------------------------------
(* No press approves twice.  Within a life the offset has passed every     *)
(* press that was honoured.  A restart forgets the offset, but the poll    *)
(* that brought the press left nothing but buttons between what it had     *)
(* confirmed and the press, so that the next life is handed the press      *)
(* before any text, and a text of a batch is always ahead of the offset.   *)
Delivered(u) == u <= Larger(last, confirmed)
FreshTexts   == \A b \in batch : IsText(b) => ~Delivered(b)
OnlyButtons  == \A i \in 1 .. Len(granted) : \A u \in confirmed + 1 .. granted[i] : ~IsText(u)
Outdated     == \A i \in 1 .. Len(granted) :
                   \/ Delivered(granted[i])
                   \/ pc \in Platform \cup {"top", "poll"}
                   \/ pc = "dispatch" /\ granted[i] \in batch
Honoured == /\ granted \in Seq(Nat) /\ \A i \in 1 .. Len(granted) : granted[i] \in 1 .. Len(sent)
            /\ FreshTexts /\ OnlyButtons /\ Outdated /\ PressCountsOnce

LEMMA LaterStart ==
    \A a, b, n \in Nat : \A u : a <= b /\ u \in b + 1 .. n => u \in a + 1 .. n
  OBVIOUS

(* What has been confirmed or seen stays behind the offset. *)
LEMMA HonouredKept ==
    ASSUME Types, Types', TypeOK, Honoured, [Next]_vars, UNCHANGED <<last, confirmed, batch, granted>>,
           pc' = pc \/ pc' \in Platform \cup {"top", "poll"} \/ pc \in TurnPc
    PROVE  Honoured'
<1>1. /\ Len(sent) \in Nat /\ Len(sent') \in Nat /\ Len(sent) <= Len(sent')
      /\ \A u \in 1 .. Len(sent) : sent'[u] = sent[u]
  BY SentGrows
<1>2. \A u \in 1 .. Len(sent) : IsText(u)' <=> IsText(u)
  BY <1>1 DEF IsText
<1>3. \A u : Delivered(u)' <=> Delivered(u)
  BY DEF Delivered
<1>4. granted' \in Seq(Nat) /\ \A i \in 1 .. Len(granted') : granted'[i] \in 1 .. Len(sent')
  BY <1>1 DEF Honoured
<1>5. FreshTexts'
  <2>1. \A b \in batch : b \in 1 .. Len(sent)
    BY DEF TypeOK
  <2>2. QED
    BY <1>2, <1>3, <2>1 DEF Honoured, FreshTexts
<1>6. OnlyButtons'
  <2>1. \A i \in 1 .. Len(granted) : \A u \in confirmed + 1 .. granted[i] : u \in 1 .. Len(sent)
    BY <1>1 DEF Honoured, Types
  <2>2. QED
    BY <1>2, <2>1 DEF Honoured, OnlyButtons
<1>7. Outdated'
  <2>1. ASSUME NEW i \in 1 .. Len(granted)
        PROVE  \/ Delivered(granted[i])
               \/ pc' \in Platform \cup {"top", "poll"}
               \/ pc' = "dispatch" /\ granted[i] \in batch
    <3>1. pc \in TurnPc => pc \notin Platform \cup {"top", "poll"} /\ pc # "dispatch"
      BY DEF TurnPc, Platform
    <3>2. QED
      BY <2>1, <3>1 DEF Honoured, Outdated
  <2>2. QED
    BY <1>3, <2>1 DEF Outdated
<1>8. PressCountsOnce'
  BY DEF Honoured, PressCountsOnce
<1>9. QED
  BY <1>4, <1>5, <1>6, <1>7, <1>8 DEF Honoured

(* Telegram only ever delivers what is ahead of the offset. *)
LEMMA PollHonours ==
    ASSUME Types, TypeOK, Honoured, Poll \/ PollLost
    PROVE  Honoured'
<1>1. /\ UNCHANGED <<sent, last, granted>> /\ confirmed' \in {confirmed, Larger(confirmed, last)}
      /\ last \in Nat /\ confirmed \in Nat /\ confirmed' \in Nat /\ Len(sent) \in Nat
  <2>1. UNCHANGED <<sent, last, granted>> /\ confirmed' \in {confirmed, Larger(confirmed, last)}
    BY DEF Poll, PollLost, ghosts
  <2>2. last \in Nat /\ confirmed \in Nat /\ Len(sent) \in Nat
    BY DEF Types
  <2>3. QED
    BY <2>1, <2>2 DEF Larger
<1>2. confirmed <= confirmed' /\ Larger(last, confirmed') = Larger(last, confirmed)
  BY <1>1 DEF Larger
<1>3. \A u : (Delivered(u)' <=> Delivered(u)) /\ (IsText(u)' <=> IsText(u))
  BY <1>1, <1>2 DEF Delivered, IsText
<1>4. granted' \in Seq(Nat) /\ (\A i \in 1 .. Len(granted) : granted[i] \in 1 .. Len(sent))'
  BY <1>1 DEF Honoured
<1>5. FreshTexts'
  <2>1. \A b \in Pending : ~Delivered(b)
    BY <1>1 DEF Pending, Delivered, Larger
  <2>2. batch' = batch \/ batch' = Pending
    BY DEF Poll, PollLost
  <2>3. QED
    BY <1>3, <2>1, <2>2 DEF Honoured, FreshTexts
<1>6. OnlyButtons'
  <2>1. ASSUME NEW i \in 1 .. Len(granted), NEW u \in confirmed' + 1 .. granted[i]
        PROVE  ~IsText(u)
    <3>1. granted[i] \in Nat
      BY <1>4, <1>1, <2>1
    <3>2. u \in confirmed + 1 .. granted[i]
      <4>1. confirmed \in Nat /\ confirmed' \in Nat /\ confirmed <= confirmed'
        BY <1>1, <1>2
      <4>2. QED
        BY <2>1, <3>1, <4>1, LaterStart
    <3>3. QED
      BY <2>1, <3>2 DEF Honoured, OnlyButtons
  <2>2. QED
    BY <1>1, <1>3, <2>1 DEF OnlyButtons
<1>7. Outdated'
  <2>1. CASE PollLost
    BY <1>1, <2>1 DEF PollLost, Outdated
  <2>2. CASE Poll
    <3>1. ASSUME NEW i \in 1 .. Len(granted), ~Delivered(granted[i])
          PROVE  granted[i] \in Pending
      <4>1. granted[i] \in 1 .. Len(sent) /\ Larger(last, confirmed) \in Nat
        BY <1>1, <3>1, LargerType DEF Honoured
      <4>2. QED
        BY <1>1, <3>1, <4>1 DEF Pending, Delivered
    <3>2. QED
      BY <1>1, <1>3, <2>2, <3>1 DEF Poll, Outdated
  <2>3. QED
    BY <2>1, <2>2
<1>8. PressCountsOnce'
  BY <1>1 DEF Honoured, PressCountsOnce
<1>9. QED
  BY <1>4, <1>5, <1>6, <1>7, <1>8 DEF Honoured

(* The loop takes an update of its batch.  A text is ahead of the offset,  *)
(* so no press that was honoured is still behind it.                       *)
LEMMA TakeHonours ==
    ASSUME Types, TypeOK, Honoured, pc = "dispatch", UNCHANGED <<sent, confirmed, granted>>,
           last' = Larger(last, Min(batch)), batch' = batch \ {Min(batch)},
           \/ pc' = NextUpdate(batch')
           \/ IsText(Min(batch))
    PROVE  Honoured'
<1> DEFINE m == Min(batch)
<1>1. /\ m \in batch /\ m \in Nat /\ (\A y \in batch : m <= y) /\ batch \in SUBSET Nat
      /\ last \in Nat /\ confirmed \in Nat
  BY LeastElement DEF Types, TypeOK
<1> HIDE DEF m
<1>2. last' = Larger(last, m) /\ batch' = batch \ {m}
  BY DEF m
<1>3. \A u \in Nat : Delivered(u)' <=> (Delivered(u) \/ u <= m)
  BY <1>1, <1>2 DEF Delivered, Larger
<1>4. \A u : IsText(u)' <=> IsText(u)
  BY DEF IsText
<1>5. granted \in Seq(Nat) /\ \A i \in 1 .. Len(granted) : granted[i] \in 1 .. Len(sent) /\ granted[i] \in Nat
  BY DEF Honoured
<1>6. FreshTexts'
  <2>1. \A b \in batch' : b \in batch /\ b \in Nat /\ ~(b <= m)
    BY <1>1, <1>2
  <2>2. QED
    BY <1>3, <1>4, <2>1 DEF Honoured, FreshTexts
<1>7. OnlyButtons'
  BY <1>4 DEF Honoured, OnlyButtons
<1>8. Outdated'
  <2>1. ASSUME NEW i \in 1 .. Len(granted), ~Delivered(granted[i])'
        PROVE  pc' = "dispatch" /\ granted[i] \in batch'
    <3>1. ~Delivered(granted[i]) /\ ~(granted[i] <= m) /\ granted[i] \in Nat
      BY <1>3, <1>5, <2>1
    <3>2. granted[i] \in batch
      BY <2>1, <3>1 DEF Honoured, Outdated, Platform
    <3>3. granted[i] \in batch'
      BY <1>1, <1>2, <3>1, <3>2
    <3>4. ~IsText(m)
      <4> SUFFICES ASSUME IsText(m)
                   PROVE  FALSE
        OBVIOUS
      <4>1. ~Delivered(m)
        BY <1>1 DEF Honoured, FreshTexts
      <4>2. m > confirmed
        BY <1>1, <4>1 DEF Delivered, Larger
      <4>3. m \in confirmed + 1 .. granted[i]
        BY <1>1, <3>1, <4>2
      <4>4. QED
        BY <2>1, <4>3 DEF Honoured, OnlyButtons
    <3>5. pc' = NextUpdate(batch')
      BY <3>4 DEF m
    <3>6. QED
      BY <3>3, <3>5 DEF NextUpdate
  <2>2. QED
    BY <2>1 DEF Outdated
<1>9. QED
  BY <1>5, <1>6, <1>7, <1>8 DEF Honoured, PressCountsOnce

(* A prompt honours the first update that decides it, and what it passes   *)
(* over are buttons.                                                       *)
LEMMA PromptHonours ==
    ASSUME Types, TypeOK, Honoured, PromptPolls
    PROVE  Honoured'
<1>1. /\ UNCHANGED <<sent, batch>> /\ last \in Nat /\ confirmed \in Nat /\ Len(sent) \in Nat
      /\ last \in 0 .. Len(sent) /\ confirmed \in 0 .. Len(sent) /\ pc = "prompt"
      /\ batch \in SUBSET Nat /\ batch \subseteq 1 .. Len(sent)
      /\ Larger(last, confirmed) \in Nat
      /\ confirmed' \in {confirmed, Larger(confirmed, last)}
      /\ Larger(confirmed, last) = Larger(last, confirmed)
  <2>1. /\ UNCHANGED <<sent, batch>> /\ last \in Nat /\ confirmed \in Nat /\ Len(sent) \in Nat
        /\ last \in 0 .. Len(sent) /\ confirmed \in 0 .. Len(sent) /\ pc = "prompt"
        /\ batch \in SUBSET Nat /\ batch \subseteq 1 .. Len(sent)
        /\ confirmed' \in {confirmed, Larger(confirmed, last)}
    BY DEF PromptPolls, Types, TypeOK
  <2>2. QED
    BY <2>1, LargerType DEF Larger
<1>2. \A u : IsText(u)' <=> IsText(u)
  BY <1>1 DEF IsText
<1>3. \A u \in Pending : ~Decides(u) => ~IsText(u)
  BY DEF Decides, IsText
<1>4. \A u \in Nat : u \in Pending <=> u > Larger(last, confirmed) /\ u <= Len(sent)
  BY <1>1 DEF Pending
<1>5. granted \in Seq(Nat) /\ \A i \in 1 .. Len(granted) : granted[i] \in 1 .. Len(sent) /\ granted[i] \in Nat
  BY DEF Honoured
<1>6. \A i \in 1 .. Len(granted) : granted[i] <= Larger(last, confirmed)
  BY <1>1 DEF Honoured, Outdated, Delivered, Platform
<1>7. last' \in Nat /\ confirmed' \in Nat /\ last' >= last /\ confirmed' >= confirmed
  <2>1. confirmed' \in Nat /\ confirmed' >= confirmed
    BY <1>1 DEF Larger
  <2>2. \A u \in Pending : /\ u \in Nat /\ u >= last /\ Abandons(u) \in Nat /\ Abandons(u) >= last
                           /\ Acknowledges(u) = u
    BY <1>1 DEF Pending, Abandons, Acknowledges, Larger
  <2>3. Larger(last, Len(sent)) \in Nat /\ Larger(last, Len(sent)) >= last
    BY <1>1, LargerType
  <2>4. last' \in Nat /\ last' >= last
    BY <1>1, <2>2, <2>3 DEF PromptPolls
  <2>5. QED
    BY <2>1, <2>4
<1>8. \A u \in Nat : Delivered(u) => Delivered(u)'
  BY <1>1, <1>7 DEF Delivered, Larger
(* The texts of the batch are pending, so the offset stops before them. *)
<1>9. FreshTexts'
  <2> SUFFICES ASSUME NEW b \in batch, IsText(b)
               PROVE  ~(b <= Larger(last', confirmed'))
    BY <1>1, <1>2 DEF FreshTexts, Delivered
  <2>1. b \in Nat /\ b > Larger(last, confirmed) /\ b \in Pending /\ Decides(b)
    <3>1. ~Delivered(b)
      BY DEF Honoured, FreshTexts
    <3>2. b \in Nat /\ b \in 1 .. Len(sent) /\ b > Larger(last, confirmed)
      BY <1>1, <3>1 DEF Delivered
    <3>3. b \in Pending
      BY <1>1, <1>4, <3>2
    <3>4. QED
      BY <1>3, <3>2, <3>3
  <2>2. last' < b
    <3>1. CASE last' = last
      BY <1>1, <2>1, <3>1 DEF Larger
    <3>2. ASSUME NEW u \in Pending, Decides(u), \A v \in Pending : v < u => ~Decides(v),
                 last' = IF sent[u].kind = "button" THEN Acknowledges(u) ELSE Abandons(u)
          PROVE  last' < b
      <4>1. u \in Nat /\ ~(b < u)
        BY <1>1, <1>4, <2>1, <3>2 DEF Pending
      <4>2. sent[b].kind # "button"
        BY DEF IsText
      <4>3. QED
        BY <2>1, <3>2, <4>1, <4>2 DEF Acknowledges, Abandons
    <3>3. ~(\A u \in Pending : ~Decides(u))
      BY <2>1
    <3>4. QED
      BY <3>1, <3>2, <3>3 DEF PromptPolls
  <2>3. confirmed' < b
    BY <1>1, <2>1 DEF Larger
  <2>4. QED
    BY <1>7, <2>1, <2>2, <2>3 DEF Larger
<1>10. CASE UNCHANGED granted
  <2>1. OnlyButtons'
    <3>1. ASSUME NEW i \in 1 .. Len(granted), NEW u \in confirmed' + 1 .. granted[i]
          PROVE  ~IsText(u)
      <4>0. granted[i] \in Nat
        BY <1>5, <1>10, <3>1
      <4>1. confirmed \in Nat /\ confirmed' \in Nat /\ confirmed <= confirmed'
        BY <1>1, <1>7
      <4>2. u \in confirmed + 1 .. granted[i]
        BY <3>1, <4>0, <4>1, LaterStart
      <4>3. QED
        BY <3>1, <4>2 DEF Honoured, OnlyButtons
    <3>2. QED
      BY <1>2, <1>10, <3>1 DEF OnlyButtons
  <2>2. Outdated'
    BY <1>5, <1>6, <1>8, <1>10 DEF Outdated, Delivered
  <2>3. QED
    BY <1>1, <1>5, <1>9, <1>10, <2>1, <2>2 DEF Honoured, PressCountsOnce
<1>11. ASSUME NEW u \in Pending, Decides(u), \A v \in Pending : v < u => ~Decides(v),
              sent[u].kind = "button", confirmed' = Larger(confirmed, last),
              last' = Acknowledges(u), granted' = Append(granted, u)
       PROVE  Honoured'
  <2>1. u \in Nat /\ u > Larger(last, confirmed) /\ u \in 1 .. Len(sent) /\ last' = u
    BY <1>1, <1>4, <1>11 DEF Pending, Acknowledges
  <2>2. /\ granted' \in Seq(Nat) /\ Len(granted') = Len(granted) + 1 /\ Len(granted) \in Nat
        /\ granted'[Len(granted) + 1] = u
        /\ \A i \in 1 .. Len(granted) : granted'[i] = granted[i]
    BY <1>5, <1>11, <2>1
  <2>3. \A i \in 1 .. Len(granted') : i \in 1 .. Len(granted) \/ i = Len(granted) + 1
    BY <2>2
  <2>4. \A i \in 1 .. Len(granted') : granted'[i] \in 1 .. Len(sent)
    BY <1>5, <2>1, <2>2, <2>3
  <2>5. OnlyButtons'
    <3>1. \A v \in confirmed' + 1 .. u : ~IsText(v)
      <4> SUFFICES ASSUME NEW v \in confirmed' + 1 .. u
                   PROVE  ~IsText(v)
        OBVIOUS
      <4>1. v \in Nat /\ v \in Pending /\ v <= u
        BY <1>1, <1>4, <1>11, <2>1
      <4>2. CASE v = u
        BY <1>11, <4>2 DEF IsText
      <4>3. CASE v < u
        BY <1>3, <1>11, <4>1, <4>3
      <4>4. QED
        BY <2>1, <4>1, <4>2, <4>3
    <3>2. \A i \in 1 .. Len(granted) : confirmed' + 1 .. granted[i] = {}
      BY <1>1, <1>5, <1>6, <1>11
    <3>3. QED
      BY <1>2, <2>2, <2>3, <3>1, <3>2 DEF OnlyButtons
  <2>6. Outdated'
    <3>1. Delivered(u)'
      BY <1>7, <2>1 DEF Delivered, Larger
    <3>2. QED
      BY <1>5, <1>6, <1>8, <2>2, <2>3, <3>1 DEF Outdated, Delivered
  <2>7. PressCountsOnce'
    <3>1. \A i \in 1 .. Len(granted) : granted[i] < u
      BY <1>1, <1>5, <1>6, <2>1
    <3>2. \A i, j \in 1 .. Len(granted) : i < j => granted[i] < granted[j]
      BY DEF Honoured, PressCountsOnce
    <3>3. \A i, j \in 1 .. Len(granted') : i < j => i \in 1 .. Len(granted)
      BY <2>2
    <3>4. QED
      BY <2>2, <2>3, <3>1, <3>2, <3>3 DEF PressCountsOnce
  <2>8. QED
    BY <1>1, <1>9, <2>2, <2>4, <2>5, <2>6, <2>7 DEF Honoured
<1>12. UNCHANGED granted
       \/ \E u \in Pending :
             /\ Decides(u) /\ \A v \in Pending : v < u => ~Decides(v)
             /\ sent[u].kind = "button" /\ confirmed' = Larger(confirmed, last)
             /\ last' = Acknowledges(u) /\ granted' = Append(granted, u)
  BY DEF PromptPolls
<1>13. QED
  BY <1>10, <1>11, <1>12

LEMMA HonouredStep == Types /\ Types' /\ TypeOK /\ Honoured /\ [Next]_vars => Honoured'
<1> SUFFICES ASSUME Types, Types', TypeOK, Honoured, [Next]_vars
             PROVE  Honoured'
  OBVIOUS
<1>1. CASE Poll \/ PollLost
  BY <1>1, PollHonours
<1>2. CASE Passes \/ Turbo \/ Sessions
  <2>1. /\ pc = "dispatch" /\ UNCHANGED <<sent, confirmed, granted>>
        /\ last' = Larger(last, Min(batch)) /\ batch' = batch \ {Min(batch)}
        /\ pc' = NextUpdate(batch')
    BY <1>2 DEF Passes, Turbo, Sessions, Takes, Advances, serverVars, ghosts
  <2>2. QED
    BY <2>1, TakeHonours
<1>3. CASE Begins
  <2>1. /\ pc = "dispatch" /\ UNCHANGED <<sent, confirmed, granted>>
        /\ last' = Larger(last, Min(batch)) /\ batch' = batch \ {Min(batch)}
        /\ IsText(Min(batch))
    BY <1>3 DEF Begins, Takes, serverVars, Update, IsText
  <2>2. QED
    BY <2>1, TakeHonours
<1>4. CASE PromptPolls
  BY <1>4, PromptHonours
<1>5. CASE Restarts
  <2>1. UNCHANGED <<sent, confirmed, granted>> /\ batch' = {} /\ pc' = "top"
    BY <1>5 DEF Restarts, serverVars
  <2>2. FreshTexts' /\ Outdated'
    BY <2>1 DEF FreshTexts, Outdated
  <2>3. OnlyButtons'
    BY <2>1 DEF Honoured, OnlyButtons, IsText
  <2>4. QED
    BY <2>1, <2>2, <2>3 DEF Honoured, PressCountsOnce
<1>6. CASE UNCHANGED <<last, confirmed, batch, granted, pc>>
  BY <1>6, HonouredKept
<1>7. ASSUME (\E how \in How : Streams(how)) \/ Continues \/ Asks \/ PromptEnds \/ Concludes
                \/ Delivers \/ Sends \/ Removes \/ Saves
      PROVE  Honoured'
  <2>1. UNCHANGED <<last, confirmed, batch, granted>> /\ pc \in TurnPc
    BY <1>7, ZenonT(60) DEF Streams, Continues, Asks, PromptEnds, Concludes, Delivers, Sends, Removes, Saves,
                StepOnly, ghosts, serverVars, TurnPc
  <2>2. QED
    BY <2>1, HonouredKept
<1>8. CASE Channel \/ Loops
  <2>1. UNCHANGED <<last, confirmed, batch, granted>> /\ pc' \in Platform \cup {"top", "poll"}
    BY <1>8, AfterPc DEF Channel, ChannelStep, FetchesNothing, Fetches, Seeds, PassesOver, Routes, Seen,
                         Platform, Loops, serverVars, ghosts
  <2>2. QED
    BY <2>1, HonouredKept
<1>9. QED
  BY <1>1, <1>2, <1>3, <1>4, <1>5, <1>6, <1>7, <1>8
     DEF Next, Handles, vars, PostArrives, Posted, Signalled, Crash, RestartCommand, LoopEnds,
         Writes, Presses, People, TurboEnds, ghosts, serverVars

-----------------------------------------------------------------------------
(* "Off" lasts: the window is closed, and the marker is gone or this life  *)
(* has read it before and will not look at it again.                       *)
Disarmed == off => /\ ~turbo.until
                   /\ ~turbo.marker \/ (turbo.loaded /\ ~turbo.forever)

LEMMA DisarmedStep == Types /\ Disarmed /\ [Next]_vars => Disarmed'
<1> SUFFICES ASSUME Types, Disarmed, [Next]_vars
             PROVE  Disarmed'
  OBVIOUS
<1>0. turbo \in TurboState /\ TurboLoaded \in TurboState
  BY TurboTypes DEF Types
<1>1. CASE UNCHANGED <<off, turbo>>
  BY <1>1 DEF Disarmed
<1>2. CASE TurboEnds
  BY <1>0, <1>2 DEF TurboEnds, Disarmed, ghosts, TurboState
<1>3. CASE Turbo
  <2>1. CASE Update.kind = "turbo_off"
    <3>1. PICK m \in {FALSE, turbo.marker} :
             turbo' = [TurboLoaded EXCEPT !.until = FALSE, !.forever = FALSE, !.marker = m]
      BY <1>3, <2>1 DEF Turbo, TurboSet
    <3>2. TurboLoaded.loaded
      BY <1>0 DEF TurboLoaded, TurboState
    <3>3. QED
      BY <1>0, <3>1, <3>2 DEF Disarmed, TurboState
  <2>2. CASE Update.kind # "turbo_off" /\ off'
    <3>1. off /\ turbo' = TurboLoaded
      BY <1>3, <2>2 DEF Turbo
    <3>2. QED
      BY <1>0, <3>1 DEF Disarmed, TurboLoaded, TurboState
  <2>3. QED
    BY <2>1, <2>2 DEF Disarmed
<1>4. CASE Restarts
  BY <1>0, <1>4 DEF Restarts, Disarmed, TurboState
<1>5. CASE Continues \/ Asks
  <2>1. UNCHANGED off
    BY <1>5 DEF Continues, Asks, StepOnly, ghosts
  <2>2. turbo' = turbo \/ turbo' = TurboAsked
    BY <1>5 DEF Continues, Asks
  <2>3. QED
    BY <1>0, <2>1, <2>2 DEF Disarmed, TurboAsked, TurboLoaded, TurboState
<1>6. QED
  BY <1>1, <1>2, <1>3, <1>4, <1>5
     DEF Next, Handles, vars, PostArrives, Signalled, Crash, RestartCommand, LoopEnds, Loops,
         Concludes, Writes, Presses, People, Channel, Saves, Poll, PollLost, Passes,
         Sessions, Begins, PromptPolls,
         Streams, PromptEnds, Delivers, Sends, Removes, StepOnly, ghosts

(* What a crash must not lose is in the conversation as well as in the     *)
(* saved session, and a turn is in the conversation from its beginning.    *)
Kept == /\ TurnsSurvive
        /\ \A u \in finished : <<Telegram, u>> \in conv
        /\ pc \in TurnPc => <<Telegram, turn.id>> \in conv

LEMMA KeptStep == Types /\ Kept /\ [Next]_vars => Kept'
<1> SUFFICES ASSUME Types, Kept, [Next]_vars
             PROVE  Kept'
  OBVIOUS
<1> USE DEF Kept, TurnsSurvive
<1>0. /\ saved \in [Session -> Conversation] /\ Telegram \in Session /\ Platform \subseteq Session
      /\ {"save", "checkpoint"} \subseteq Session
      /\ Telegram \notin Platform /\ Telegram \notin {"save", "checkpoint"}
  BY DEF Types, Session, Telegram, Platform
<1>1. CASE UNCHANGED <<finished, conv, saved>> /\ (pc' \in TurnPc => pc \in TurnPc /\ turn'.id = turn.id)
  BY <1>1
<1>2. CASE Channel
  <2>1. pc' \notin TurnPc
    BY <1>2, AfterPc DEF Channel, ChannelStep, FetchesNothing, Fetches, Seeds, PassesOver, Routes,
                         Seen, Platform, TurnPc
  <2>2. saved'[Telegram] = saved[Telegram]
    BY <1>0, <1>2 DEF Channel, ChannelStep, FetchesNothing, Fetches, PassesOver, Routes, Saved
  <2>3. finished' = {} \/ (finished' = finished /\ conv' = conv)
    BY <1>2 DEF Channel
  <2>4. QED
    BY <2>1, <2>2, <2>3
<1>3. CASE Sessions
  <2>1. pc' \notin TurnPc
    BY <1>3 DEF Sessions, Advances, NextUpdate, TurnPc
  <2>2. \/ finished' = {}
        \/ finished' = finished /\ conv' = conv /\ saved'[Telegram] = saved[Telegram]
        \/ finished' = {u \in finished : <<Telegram, u>> \in conv'} /\ saved' = saved
    BY <1>0, <1>3 DEF Sessions, Saved
  <2>3. QED
    BY <2>1, <2>2
<1>4. CASE Begins
  BY <1>4 DEF Begins, Idle
<1>5. CASE Saves
  <2>1. pc = "save" /\ conv' = conv /\ pc' \notin TurnPc
    BY <1>5 DEF Saves, NextUpdate, TurnPc
  <2>2. CASE saved'[Telegram] = conv /\ finished' = finished \cup {turn.id}
    <3>1. \A u \in finished' : <<Telegram, u>> \in conv
      BY <2>1, <2>2 DEF TurnPc
    <3>2. \A u : <<Telegram, u>> # <<"none", 0>>
      BY DEF Telegram
    <3>3. \A u \in finished' : conv # NoSession
      BY <3>1, <3>2 DEF NoSession
    <3>4. QED
      BY <2>1, <2>2, <3>1, <3>3
  <2>3. CASE UNCHANGED <<saved, finished>>
    BY <2>1, <2>3
  <2>4. QED
    BY <1>0, <1>5, <2>2, <2>3 DEF Saves, Persists
<1>6. CASE Restarts
  BY <1>6 DEF Restarts, TurnPc
<1>7. CASE UNCHANGED <<finished, conv, saved>> /\ pc' \notin TurnPc
  BY <1>7
<1>8. ASSUME (\E how \in How : Streams(how)) \/ Continues \/ Asks \/ PromptEnds \/ Delivers \/ Sends
                \/ Removes \/ PromptPolls \/ Concludes
      PROVE  Kept'
  <2>1. UNCHANGED <<finished, conv, saved>> /\ pc \in TurnPc
    BY <1>8, ZenonT(60) DEF Streams, Continues, Asks, PromptEnds, Delivers, Sends, Removes, PromptPolls, Concludes,
                StepOnly, ghosts, TurnPc
  <2>2. turn'.id = turn.id
    BY <1>8, ZenonT(60) DEF Streams, Continues, Asks, PromptEnds, Delivers, Sends, Removes, PromptPolls, Concludes,
                Types, Turns, WithCall
  <2>3. QED
    BY <1>1, <2>1, <2>2
<1>9. CASE Loops
  BY <1>7, <1>9, AfterPc DEF Loops, ghosts, TurnPc, Platform
<1>10. CASE Passes \/ Turbo \/ Poll \/ PollLost
  BY <1>7, <1>10 DEF Passes, Turbo, Poll, PollLost, Advances, NextUpdate, ghosts, TurnPc
<1>11. QED
  BY <1>1, <1>2, <1>3, <1>4, <1>5, <1>6, <1>8, <1>9, <1>10
     DEF Next, Handles, vars, PostArrives, Posted, Signalled, Crash, RestartCommand, LoopEnds,
         Writes, Presses, People, TurboEnds, ghosts

-----------------------------------------------------------------------------
(* The message in the chat: it is the streamed text unless its last delta  *)
(* was not shown, and it is only removed once the whole answer has been    *)
(* sent.                                                                   *)
InTheChat == /\ pc \in TurnPc => turn.id > 0
             /\ pc \notin TurnPc => turn.shown = NoMessage
             /\ turn.late \/ turn.whole \/ turn.shown = NoMessage \/ turn.shown = turn.buf
             /\ pc = "remove" => turn.whole
             /\ AnswerIsShown

(* What a step of the bot does to the message in the chat. *)
NotTakenAway ==
    (pc # "save" /\ turn'.id = turn.id /\ turn.shown # NoMessage /\ turn'.shown = NoMessage)
        => turn.whole

LEMMA NotABlank == \A s \in Seq(Word) : s # NoMessage /\ \A c \in Word : Append(s, c) # NoMessage
<1>1. ASSUME NEW s \in Seq(Word)
      PROVE  s # NoMessage
  <2>1. \A i \in 1 .. Len(s) : s[i] # 0
    BY DEF Word
  <2>2. Len(NoMessage) = 1 /\ NoMessage[1] = 0
    BY DEF NoMessage
  <2>3. QED
    BY <2>1, <2>2
<1>2. \A s \in Seq(Word) : \A c \in Word : Append(s, c) \in Seq(Word)
  OBVIOUS
<1>3. QED
  BY <1>1, <1>2

LEMMA StreamKeeps ==
    ASSUME Types, InTheChat, NEW how \in How, Streams(how)
    PROVE  InTheChat' /\ NotTakenAway
<1> DEFINE c   == turn.chunks + 1
           buf == IF turn.disabled THEN turn.buf ELSE Append(turn.buf, c)
<1>1. turn \in Turns /\ pc = "step" /\ pc' = "step"
  BY DEF Streams, Types
<1>2. c \in Word /\ turn.buf \in Seq(Word)
  BY <1>1 DEF Turns, Word
<1>3. turn.disabled => how = "dropped"
  BY DEF Streams
<1>4. how = "shown" => buf # NoMessage
  BY <1>2, <1>3, NotABlank
<1>5. /\ turn'.id = turn.id /\ turn'.buf = buf /\ turn'.whole = turn.whole
      /\ turn'.shown = IF how = "shown" THEN buf ELSE turn.shown
      /\ turn'.late = (how # "shown")
  BY <1>1 DEF Streams, Turns
<1> HIDE DEF buf, c
<1>6. InTheChat'
  BY <1>1, <1>5 DEF InTheChat, AnswerIsShown, TurnPc
<1>7. NotTakenAway
  BY <1>4, <1>5 DEF NotTakenAway
<1>8. QED
  BY <1>6, <1>7

LEMMA DeliverKeeps ==
    ASSUME Types, InTheChat, Delivers \/ Sends \/ Removes
    PROVE  InTheChat' /\ NotTakenAway
<1>1. turn \in Turns /\ final_text \in Seq(Word) /\ pc \in TurnPc /\ pc' \in TurnPc
  BY DEF Types, Turns, final_text, Delivers, Sends, Removes, TurnPc
<1>2. final_text # NoMessage
  BY <1>1, NotABlank
<1>3. CASE Delivers
  <2>1. /\ turn'.id = turn.id /\ final_text' = final_text /\ pc' # "remove"
        /\ turn'.late = turn.late /\ turn'.buf = turn.buf
    BY <1>1, <1>3 DEF Delivers, Turns, final_text
  <2>2. CASE turn' = turn /\ pc' = "send"
    BY <1>1, <2>1, <2>2 DEF InTheChat, AnswerIsShown, NotTakenAway
  <2>3. CASE turn' = turn /\ turn.shown # NoMessage /\ Holds
    BY <1>1, <2>1, <2>3 DEF InTheChat, AnswerIsShown, NotTakenAway, Holds
  <2>4. CASE turn' = [turn EXCEPT !.shown = final_text, !.whole = TRUE]
    <3>1. turn'.shown = final_text /\ turn'.whole
      BY <1>1, <2>4 DEF Turns
    <3>2. QED
      BY <1>1, <1>2, <2>1, <3>1 DEF InTheChat, AnswerIsShown, NotTakenAway
  <2>5. CASE turn' = [turn EXCEPT !.trouble = TRUE]
    <3>1. turn'.shown = turn.shown /\ turn'.trouble /\ turn'.whole = turn.whole
      BY <1>1, <2>5 DEF Turns
    <3>2. QED
      BY <1>1, <2>1, <3>1 DEF InTheChat, AnswerIsShown, NotTakenAway
  <2>6. QED
    BY <1>3, <2>2, <2>3, <2>4, <2>5 DEF Delivers
<1>4. CASE Sends
  <2>1. /\ turn'.id = turn.id /\ final_text' = final_text /\ turn'.shown = turn.shown
        /\ turn'.late = turn.late /\ turn'.buf = turn.buf
    BY <1>1, <1>4 DEF Sends, Turns, final_text
  <2>2. CASE turn' = [turn EXCEPT !.whole = TRUE]
    <3>1. turn'.whole
      BY <1>1, <2>2 DEF Turns
    <3>2. QED
      BY <1>1, <2>1, <3>1 DEF InTheChat, AnswerIsShown, NotTakenAway
  <2>3. CASE turn' = [turn EXCEPT !.trouble = TRUE] /\ pc' = "save"
    <3>1. turn'.trouble
      BY <1>1, <2>3 DEF Turns
    <3>2. QED
      BY <1>1, <2>1, <2>3, <3>1 DEF InTheChat, AnswerIsShown, NotTakenAway
  <2>4. QED
    BY <1>4, <2>2, <2>3 DEF Sends
<1>5. CASE Removes
  <2>1. /\ turn'.id = turn.id /\ turn'.whole = turn.whole /\ pc = "remove" /\ pc' = "save"
    BY <1>1, <1>5 DEF Removes, Turns
  <2>2. QED
    BY <1>1, <2>1 DEF InTheChat, AnswerIsShown, NotTakenAway
<1>6. QED
  BY <1>3, <1>4, <1>5

LEMMA InTheChatStep == Types /\ TypeOK /\ InTheChat /\ [Next]_vars => InTheChat' /\ NotTakenAway
<1> SUFFICES ASSUME Types, TypeOK, InTheChat, [Next]_vars
             PROVE  InTheChat' /\ NotTakenAway
  OBVIOUS
<1>0. turn \in Turns
  BY DEF Types
<1>1. CASE UNCHANGED <<turn, pc>>
  BY <1>1 DEF InTheChat, AnswerIsShown, final_text, Holds, NotTakenAway
<1>2. CASE UNCHANGED turn /\ pc \notin TurnPc /\ pc' \notin TurnPc
  BY <1>2 DEF InTheChat, AnswerIsShown, NotTakenAway, TurnPc
<1>3. CASE Begins
  <2>1. turn'.id = Min(batch) /\ turn'.shown = NoMessage /\ pc' \in {"step", "deliver"}
    BY <1>3 DEF Begins, Idle
  <2>2. Min(batch) \in batch
    BY <1>3, LeastElement DEF Begins, Takes, Types, TypeOK
  <2>3. Min(batch) > 0
    <3>1. \A x \in batch : x > 0
      BY DEF TypeOK, Types
    <3>2. QED
      BY <2>2, <3>1
  <2>4. pc = "dispatch"
    BY <1>3 DEF Begins, Takes
  <2>5. QED
    BY <2>1, <2>3, <2>4 DEF InTheChat, AnswerIsShown, NotTakenAway, TurnPc
<1>4. ASSUME NEW how \in How, Streams(how)
      PROVE  InTheChat' /\ NotTakenAway
  BY <1>4, StreamKeeps
<1>5. CASE Continues \/ Asks \/ PromptPolls \/ PromptEnds
  <2>1. /\ turn'.id = turn.id /\ turn'.shown = turn.shown /\ turn'.buf = turn.buf
        /\ turn'.whole = turn.whole /\ turn'.late = turn.late
    BY <1>0, <1>5 DEF Continues, Asks, PromptPolls, PromptEnds, Turns, WithCall
  <2>2. pc \in {"step", "prompt"} /\ pc' \in {"step", "prompt"}
    BY <1>5 DEF Continues, Asks, PromptPolls, PromptEnds
  <2>3. QED
    BY <2>1, <2>2 DEF InTheChat, AnswerIsShown, NotTakenAway, TurnPc
<1>6. CASE Concludes
  BY <1>6 DEF Concludes, InTheChat, AnswerIsShown, NotTakenAway, TurnPc
<1>7. CASE Delivers \/ Sends \/ Removes
  BY <1>7, DeliverKeeps
<1>8. CASE Saves
  <2>1. pc = "save" /\ pc' \notin TurnPc /\ turn'.shown = NoMessage
    BY <1>8 DEF Saves, NextUpdate, TurnPc, Idle
  <2>2. QED
    BY <2>1 DEF InTheChat, AnswerIsShown, NotTakenAway, TurnPc
<1>9. CASE Restarts
  <2>1. pc' = "top" /\ turn'.id = 0 /\ turn'.shown = NoMessage
    BY <1>9 DEF Restarts, Idle
  <2>2. turn.shown # NoMessage => turn.id # 0
    BY <1>0 DEF InTheChat, Turns
  <2>3. QED
    BY <2>1, <2>2 DEF InTheChat, AnswerIsShown, NotTakenAway, TurnPc
<1>10. CASE Channel
  BY <1>2, <1>10, AfterPc DEF Channel, ChannelStep, FetchesNothing, Fetches, Seeds, PassesOver, Routes,
                              Seen, Platform, TurnPc
<1>11. CASE Loops
  BY <1>2, <1>11, AfterPc DEF Loops, TurnPc, Platform
<1>12. CASE Passes \/ Turbo \/ Sessions \/ Poll \/ PollLost
  BY <1>2, <1>12 DEF Passes, Turbo, Sessions, Poll, PollLost, Takes, Advances, NextUpdate,
                     TurnPc
<1>13. QED
  BY <1>1, <1>3, <1>4, <1>5, <1>6, <1>7, <1>8, <1>9, <1>10, <1>11, <1>12
     DEF Next, Handles, vars, PostArrives, Posted, Signalled, Crash, RestartCommand, LoopEnds,
         Writes, Presses, People, TurboEnds

-----------------------------------------------------------------------------
(* The channels.  A life of the process begins with an empty cursor, which *)
(* the first fetch moves past every post there is; from then on what has   *)
(* been routed is behind the cursor and what was fetched is before it.     *)
(* Discord's page is moreover without gaps.                                *)
RoutedBehind == \A p \in Platform : \A i \in Nat : <<p, i>> \in routed =>
                   i <= Len(posts[p]) /\ (cursor[p] # 0 => i <= cursor[p])
FetchedAhead == inbox # {} => cursor[pc] # 0 /\ \A i \in inbox : cursor[pc] < i
NoGaps       == pc = "discord" =>
                   \A b \in inbox : \A j \in cursor["discord"] + 1 .. b : j \in inbox
Polled == /\ \A p \in Platform : cursor[p] <= Len(posts[p])
          /\ RoutedBehind /\ FetchedAhead /\ NoGaps /\ PostsAnsweredOnce

(* New posts at the end of a channel disturb nothing of this. *)
LEMMA PolledKept ==
    ASSUME Types, Types', TypeOK, Polled, UNCHANGED <<cursor, seed, routed, again>>,
           \A p \in Platform : /\ Len(posts[p]) <= Len(posts'[p])
                               /\ \A i \in 1 .. Len(posts[p]) : posts'[p][i] = posts[p][i],
           inbox' = {} \/ (inbox' = inbox /\ pc' = pc)
    PROVE  Polled'
<1>1. \A p \in Platform : /\ cursor[p] \in Nat /\ Len(posts[p]) \in Nat /\ Len(posts'[p]) \in Nat
                          /\ cursor[p] <= Len(posts[p]) /\ seed[p] \in Nat
  BY DEF Types, Polled
<1>2. (\A p \in Platform : cursor[p] <= Len(posts[p]))'
  BY <1>1
<1>3. RoutedBehind'
  BY <1>1 DEF Polled, RoutedBehind
<1>4. FetchedAhead'
  BY DEF Polled, FetchedAhead
<1>5. NoGaps'
  BY DEF Polled, NoGaps
<1>6. PostsAnsweredOnce'
  <2>1. "discord" \in Platform
    BY DEF Platform
  <2>2. \A i \in seed["discord"] + 1 .. cursor["discord"] : i \in 1 .. Len(posts["discord"])
    BY <1>1, <2>1
  <2>3. QED
    BY <2>1, <2>2 DEF Polled, PostsAnsweredOnce
<1>7. QED
  BY <1>2, <1>3, <1>4, <1>5, <1>6 DEF Polled

(* The first fetch of a life only sets the cursor; a later one fills the   *)
(* inbox.                                                                  *)
LEMMA FetchKeeps ==
    ASSUME Types, Types', TypeOK, Polled, NEW p \in Platform, Fetches(p)
    PROVE  Polled'
<1>1. /\ cursor[p] \in Nat /\ Len(posts[p]) \in Nat /\ Len(posts[p]) > cursor[p]
      /\ UNCHANGED <<posts, routed, again>> /\ pc = p /\ "discord" \in Platform
      /\ cursor \in [Platform -> Nat] /\ seed \in [Platform -> Nat]
  BY SMTT(30) DEF Types, Fetches, Platform
<1>2. CASE cursor[p] = 0
  <2>1. /\ cursor' = [cursor EXCEPT ![p] = Len(posts[p])]
        /\ seed' = [seed EXCEPT ![p] = Len(posts[p])]
        /\ inbox' = {}
    BY <1>2 DEF Fetches, Seeds
  <2>2. \A q \in Platform : /\ cursor'[q] = IF q = p THEN Len(posts[p]) ELSE cursor[q]
                            /\ seed'[q] = IF q = p THEN Len(posts[p]) ELSE seed[q]
    BY <1>1, <2>1
  <2>3. (\A q \in Platform : cursor[q] <= Len(posts[q]))'
    BY <1>1, <2>2 DEF Polled
  <2>4. RoutedBehind'
    BY <1>1, <2>2 DEF Polled, RoutedBehind
  <2>5. FetchedAhead' /\ NoGaps'
    BY <2>1 DEF FetchedAhead, NoGaps
  <2>6. PostsAnsweredOnce'
    <3>1. CASE p = "discord"
      <4>1. seed'["discord"] + 1 .. cursor'["discord"] = {}
        BY <1>1, <2>2, <3>1
      <4>2. QED
        BY <1>1, <4>1 DEF Polled, PostsAnsweredOnce
    <3>2. CASE p # "discord"
      BY <1>1, <2>2, <3>2 DEF Polled, PostsAnsweredOnce
    <3>3. QED
      BY <3>1, <3>2
  <2>7. QED
    BY <2>3, <2>4, <2>5, <2>6 DEF Polled
<1>3. CASE cursor[p] # 0
  <2>1. UNCHANGED <<cursor, seed, pc>> /\ inbox' = Fetched(p)
    BY <1>3 DEF Fetches
  <2>2. /\ \A i \in Fetched(p) : cursor[p] < i
        /\ p = "discord" => \A b \in Fetched(p) : \A j \in cursor[p] + 1 .. b : j \in Fetched(p)
    <3>1. Limit \in Nat
      BY ChannelAssumption
    <3>2. QED
      BY <1>1, <3>1 DEF Fetched
  <2>3. FetchedAhead' /\ NoGaps'
    BY <1>1, <1>3, <2>1, <2>2 DEF FetchedAhead, NoGaps
  <2>4. QED
    BY <1>1, <2>1, <2>3 DEF Polled, RoutedBehind, PostsAnsweredOnce
<1>4. QED
  BY <1>2, <1>3

(* One post is looked at.  It has not been routed before, because it lies  *)
(* before the cursor; on Discord it is the one right before it.            *)
LEMMA SeenKeeps ==
    ASSUME Types, Types', TypeOK, Polled, NEW p \in Platform, PassesOver(p) \/ Routes(p)
    PROVE  Polled'
<1> DEFINE m == Min(inbox)
<1>1. /\ pc = p /\ inbox # {} /\ inbox \in SUBSET Nat /\ inbox \subseteq 1 .. Len(posts[p])
      /\ cursor \in [Platform -> Nat] /\ seed' = seed
      /\ cursor' = [cursor EXCEPT ![p] = m] /\ inbox' = inbox \ {m}
      /\ pc' = IF inbox = {m} THEN After(p) ELSE p
  BY DEF Types, TypeOK, PassesOver, Routes, Seen
<1>2. m \in inbox /\ m \in Nat /\ \A y \in inbox : m <= y
  BY <1>1, LeastElement
<1>3. cursor[p] # 0 /\ cursor[p] < m /\ \A i \in inbox : cursor[p] < i
  BY <1>1, <1>2 DEF Polled, FetchedAhead
<1>4. \A q \in Platform : /\ Len(posts[q]) \in Nat /\ Len(posts'[q]) \in Nat
                          /\ Len(posts[q]) <= Len(posts'[q])
                          /\ \A i \in 1 .. Len(posts[q]) : posts'[q][i] = posts[q][i]
                          /\ cursor[q] \in Nat /\ seed[q] \in Nat /\ cursor[q] <= Len(posts[q])
  <2>1. posts' = posts \/ posts' = [posts EXCEPT ![p] = Append(@, "bot")]
    BY DEF PassesOver, Routes
  <2>2. posts \in [Platform -> Seq({"user", "bot"})] /\ \A q \in Platform : cursor[q] <= Len(posts[q])
    BY DEF Types, Polled
  <2>3. \A q \in Platform : posts'[q] = posts[q] \/ posts'[q] = Append(posts[q], "bot")
    BY <2>1, <2>2
  <2>4. \A q \in Platform : cursor[q] \in Nat /\ seed[q] \in Nat
    BY DEF Types
  <2>5. \A q \in Platform : posts[q] \in Seq({"user", "bot"})
    BY <2>2
  <2>6. \A q \in Platform : /\ Len(posts[q]) \in Nat /\ Len(posts'[q]) \in Nat
                            /\ Len(posts[q]) <= Len(posts'[q])
                            /\ \A i \in 1 .. Len(posts[q]) : posts'[q][i] = posts[q][i]
    BY <2>3, <2>5
  <2>7. QED
    BY <2>2, <2>4, <2>6
<1>5. \/ UNCHANGED <<routed, again>> /\ posts[p][m] = "bot"
      \/ routed' = routed \cup {<<p, m>>} /\ again' = (again \/ <<p, m>> \in routed)
  BY DEF PassesOver, Routes
<1> HIDE DEF m
<1>6. \A q \in Platform : cursor'[q] = IF q = p THEN m ELSE cursor[q]
  BY <1>1
<1>7. m <= Len(posts[p]) /\ m \in 1 .. Len(posts[p])
  BY <1>1, <1>2
<1>8. <<p, m>> \notin routed
  BY <1>2, <1>3, <1>4 DEF Polled, RoutedBehind
<1>9. (\A q \in Platform : cursor[q] <= Len(posts[q]))'
  BY <1>2, <1>4, <1>6, <1>7
<1>10. RoutedBehind'
  <2> SUFFICES ASSUME NEW q \in Platform, NEW i \in Nat, <<q, i>> \in routed'
               PROVE  i <= Len(posts'[q]) /\ (cursor'[q] # 0 => i <= cursor'[q])
    BY DEF RoutedBehind
  <2>1. <<q, i>> \in routed \/ (q = p /\ i = m)
    BY <1>5
  <2>2. CASE q = p /\ i = m
    BY <1>2, <1>4, <1>6, <1>7, <2>2
  <2>3. CASE <<q, i>> \in routed
    <3>1. i <= Len(posts[q]) /\ (cursor[q] # 0 => i <= cursor[q])
      BY <2>3 DEF Polled, RoutedBehind
    <3>2. QED
      BY <1>2, <1>3, <1>4, <1>6, <3>1
  <2>4. QED
    BY <2>1, <2>2, <2>3
<1>11. FetchedAhead'
  <2> SUFFICES ASSUME inbox' # {}
               PROVE  cursor'[pc'] # 0 /\ \A i \in inbox' : cursor'[pc'] < i
    BY DEF FetchedAhead
  <2>1. pc' = p
    BY <1>1
  <2>2. QED
    BY <1>1, <1>2, <1>3, <1>4, <1>6, <2>1
<1>12. NoGaps'
  <2> SUFFICES ASSUME pc' = "discord", NEW b \in inbox', NEW j \in cursor'["discord"] + 1 .. b
               PROVE  j \in inbox'
    BY DEF NoGaps
  <2>1. pc' = p /\ p = "discord"
    BY <1>1
  <2>2. j \in m + 1 .. b /\ b \in inbox
    BY <1>1, <1>6, <2>1
  <2>3. j \in cursor["discord"] + 1 .. b
    BY <1>1, <1>2, <1>3, <1>4, <2>1, <2>2
  <2>4. j \in inbox /\ j # m
    BY <1>1, <1>2, <2>1, <2>2, <2>3 DEF Polled, NoGaps
  <2>5. QED
    BY <1>1, <2>4
<1>13. PostsAnsweredOnce'
  <2>1. ~again'
    BY <1>5, <1>8 DEF Polled, PostsAnsweredOnce
  <2>2. ASSUME NEW i \in seed["discord"] + 1 .. cursor'["discord"], posts'["discord"][i] = "user"
        PROVE  <<"discord", i>> \in routed'
    <3>0. "discord" \in Platform
      BY DEF Platform
    <3>1. CASE i \in seed["discord"] + 1 .. cursor["discord"]
      <4>1. i \in 1 .. Len(posts["discord"])
        BY <1>4, <3>0, <3>1
      <4>2. posts["discord"][i] = "user"
        BY <1>4, <2>2, <3>0, <4>1
      <4>3. <<"discord", i>> \in routed
        BY <3>1, <4>2 DEF Polled, PostsAnsweredOnce
      <4>4. QED
        BY <1>5, <4>3
    <3>2. CASE i \notin seed["discord"] + 1 .. cursor["discord"]
      <4>1. p = "discord" /\ i \in cursor["discord"] + 1 .. m
        BY <1>2, <1>4, <1>6, <3>0, <3>2
      <4>2. i \in inbox
        BY <1>1, <1>2, <4>1 DEF Polled, NoGaps
      <4>3. i = m
        BY <1>1, <1>2, <1>4, <3>0, <4>1, <4>2
      <4>4. posts["discord"][m] = "user"
        BY <1>4, <1>7, <2>2, <3>0, <4>1, <4>3, SMTT(30)
      <4>5. QED
        BY <1>5, <4>1, <4>3, <4>4
    <3>3. QED
      BY <3>1, <3>2
  <2>3. QED
    BY <1>1, <2>1, <2>2 DEF PostsAnsweredOnce
<1>14. QED
  BY <1>9, <1>10, <1>11, <1>12, <1>13 DEF Polled

LEMMA PolledStep == Types /\ Types' /\ TypeOK /\ Polled /\ [Next]_vars => Polled'
<1> SUFFICES ASSUME Types, Types', TypeOK, Polled, [Next]_vars
             PROVE  Polled'
  OBVIOUS
<1>1. CASE UNCHANGED <<cursor, seed, routed, again, posts, inbox>> /\ (inbox = {} \/ pc' = pc)
  <2>1. \A p \in Platform : Len(posts[p]) \in Nat
    BY DEF Types
  <2>2. QED
    BY <1>1, <2>1, PolledKept
<1>2. pc \notin Platform => inbox = {}
  BY DEF TypeOK
<1>3. CASE Channel
  <2>1. ASSUME NEW p \in Platform, FetchesNothing(p)
        PROVE  Polled'
    BY <1>1, <2>1 DEF FetchesNothing, chanVars
  <2>2. QED
    BY <1>3, <2>1, FetchKeeps, SeenKeeps DEF Channel, ChannelStep
<1>4. CASE PostArrives
  <2>1. PICK p \in Platform : Posted(p)
    BY <1>4 DEF PostArrives
  <2>2. /\ UNCHANGED <<cursor, seed, routed, again, inbox, pc>>
        /\ posts' = [posts EXCEPT ![p] = Append(@, "user")]
    BY <2>1 DEF Posted
  <2>3. \A q \in Platform : posts'[q] = posts[q] \/ posts'[q] = Append(posts[q], "user")
    BY <2>2 DEF Types
  <2>4. \A q \in Platform : posts[q] \in Seq({"user", "bot"})
    BY DEF Types
  <2>5. \A q \in Platform : /\ Len(posts[q]) <= Len(posts'[q])
                            /\ \A i \in 1 .. Len(posts[q]) : posts'[q][i] = posts[q][i]
    BY <2>3, <2>4
  <2>6. QED
    BY <2>2, <2>5, PolledKept
<1>5. CASE Restarts
  <2>1. /\ UNCHANGED <<posts, routed, again>> /\ inbox' = {}
        /\ \A p \in Platform : cursor'[p] = 0 /\ seed'[p] = 0
    BY <1>5 DEF Restarts, ChannelsForget
  <2>2. \A p \in Platform : Len(posts[p]) \in Nat
    BY DEF Types
  <2>3. RoutedBehind'
    BY <2>1 DEF Polled, RoutedBehind
  <2>4. FetchedAhead' /\ NoGaps'
    BY <2>1 DEF FetchedAhead, NoGaps
  <2>5. PostsAnsweredOnce'
    BY <2>1 DEF Polled, PostsAnsweredOnce, Platform
  <2>6. QED
    BY <2>1, <2>2, <2>3, <2>4, <2>5 DEF Polled
<1>6. QED
  BY <1>1, <1>2, <1>3, <1>4, <1>5
     DEF Next, Handles, vars, Signalled, Crash, RestartCommand, LoopEnds, Loops,
         Concludes, Poll, PollLost, Writes, Presses, People, TurboEnds, Passes, Turbo,
         Sessions, Begins, Streams, Continues, Asks, PromptPolls, PromptEnds, Delivers, Sends,
         Removes, Saves, StepOnly, Takes, chanVars, Platform

-----------------------------------------------------------------------------
(* The inductive invariant of the bot and its channels. *)
BotIInv == /\ Types /\ TypeOK
           /\ TakenUp /\ InOrder /\ Honoured /\ Disarmed /\ Kept /\ InTheChat /\ Polled

LEMMA BotIInvInit == Init => BotIInv
<1> SUFFICES ASSUME Init
             PROVE  BotIInv
  OBVIOUS
<1>1. Types
  BY TypesInit
<1>2. /\ pc = "top" /\ sent = <<>> /\ confirmed = 0 /\ last = 0 /\ batch = {} /\ inbox = {}
      /\ prompts = 0 /\ begun = {} /\ granted = <<>> /\ finished = {} /\ off = FALSE
      /\ turn = Idle /\ routed = {} /\ again = FALSE
      /\ cursor = [p \in Platform |-> 0] /\ seed = [p \in Platform |-> 0]
  BY DEF Init, InitChannels
<1>3. turn.id = 0 /\ turn.prompt = 0 /\ turn.polls = 0 /\ turn.shown = NoMessage
  BY <1>2 DEF Idle
<1>4. Polls \in Nat /\ MaxPrompts \in Nat
  BY BotAssumption
<1>5. TypeOK
  BY <1>2, <1>3, <1>4 DEF TypeOK
<1>6. TakenUp /\ InOrder /\ Honoured
  BY <1>2, <1>3 DEF TakenUp, NoMessageLost, BehindOffset, BeforeTheBatch, InOrder, Honoured, FreshTexts, OnlyButtons,
                              Outdated, PressCountsOnce
<1>7. Disarmed /\ Kept /\ InTheChat
  BY <1>2, <1>3 DEF Disarmed, Kept, TurnsSurvive, InTheChat, AnswerIsShown, TurnPc
<1>8. Polled
  <2>1. \A p \in Platform : Len(posts[p]) \in Nat
    BY <1>1 DEF Types
  <2>2. PostsAnsweredOnce
    BY <1>2 DEF PostsAnsweredOnce, Platform
  <2>3. QED
    BY <1>2, <2>1, <2>2 DEF Polled, RoutedBehind, FetchedAhead, NoGaps
<1>9. QED
  BY <1>1, <1>5, <1>6, <1>7, <1>8 DEF BotIInv

LEMMA BotIInvStep == BotIInv /\ [Next]_vars => BotIInv'
  BY TypeOKStep, TakenUpStep, InOrderStep, HonouredStep, DisarmedStep, KeptStep, InTheChatStep,
     PolledStep DEF BotIInv

LEMMA BotInvariant == Spec => []BotIInv
<1>1. QED
  BY BotIInvInit, BotIInvStep, PTL DEF Spec

(* For any traffic, prompts, crashes and signals: the offset with which    *)
(* telegram_bot_run polls never confirms a text that no turn has taken up, *)
(* although the polls of a permission prompt move it too.                  *)
THEOREM NoTextIsLost == Spec => []BotInv
<1>1. BotIInv => BotInv
  BY DEF BotIInv, BotInv, TakenUp
<1>2. QED
  BY <1>1, BotInvariant, PTL

(* No press is honoured twice, in one life or over restarts: for any       *)
(* prompts, refused ones without an id included, for presses that carry    *)
(* one or none, and whatever Telegram delivers again after a crash.        *)
THEOREM PressesCountOnce == Spec => []PressCountsOnce
<1>1. BotIInv => PressCountsOnce
  BY DEF BotIInv, Honoured
<1>2. QED
  BY <1>1, BotInvariant, PTL

(* Without BELYA_TURBO=1, no call passes the gate by Turbo after           *)
(* /turbo off until it is armed again, over restarts too: only a marker    *)
(* that the command could not remove arms it again, from the next start    *)
(* on, when turbo_active reads it anew.                                    *)
THEOREM OffStaysOff == Spec => []OffMeansOff
<1>1. BotIInv => OffMeansOff
  <2> SUFFICES ASSUME BotIInv, off, ~turbo.env, TurboActive
               PROVE  FALSE
    BY DEF OffMeansOff
  <2>1. turbo \in TurboState /\ ~turbo.until /\ (~turbo.marker \/ (turbo.loaded /\ ~turbo.forever))
    BY DEF BotIInv, Types, Disarmed
  <2>2. QED
    BY <2>1 DEF TurboActive, TurboLoaded, TurboState
<1>2. QED
  BY <1>1, BotInvariant, PTL

(* A turn that was saved is in the session the next start restores, until  *)
(* a channel or a command replaces the conversation.                       *)
THEOREM FinishedTurnsSurvive == Spec => []TurnsSurvive
<1>1. BotIInv => TurnsSurvive
  BY DEF BotIInv, Kept
<1>2. QED
  BY <1>1, BotInvariant, PTL

(* Within one life of the process texts are taken up in the order they     *)
(* were sent and none twice, for any batch sizes and prompts in between.   *)
THEOREM TextsAreTakenInOrder == Spec => TurnsInOrder
<1>1. BotIInv /\ [Next]_vars
        => [(pc = "dispatch" /\ pc' \in {"step", "deliver"}) => turn'.id > turn.id]_vars
  <2> SUFFICES ASSUME BotIInv, Next, pc = "dispatch", pc' \in {"step", "deliver"}
               PROVE  turn'.id > turn.id
    OBVIOUS
  <2>1. Begins
    BY DEF Next, Handles, PostArrives, Posted, Signalled, Crash, RestartCommand, LoopEnds, Loops,
           Concludes, Poll, PollLost, Writes, Presses, People, TurboEnds, Passes, Turbo,
           Sessions, Streams, Continues, Asks, PromptPolls, PromptEnds, Delivers, Sends,
           Removes, Saves, Advances, NextUpdate, Channel, ChannelStep, FetchesNothing, Fetches,
           PassesOver, Routes, Platform, Reads, Restarts
  <2>2. turn'.id = Min(batch)
    BY <2>1 DEF Begins, Idle
  <2>3. Min(batch) \in batch /\ Min(batch) \in Nat
    BY LeastElement DEF BotIInv, Types, TypeOK
  <2>4. turn.id \in Nat /\ turn.id < Min(batch)
    BY <2>3 DEF BotIInv, InOrder, Types, Turns
  <2>5. QED
    BY <2>2, <2>3, <2>4
<1>2. QED
  BY <1>1, BotInvariant, PTL DEF Spec, TurnsInOrder

(* The chat ends up with the whole answer when nothing was refused or held *)
(* back, and a visible part of an answer is never deleted before all of it *)
(* has been sent: the end of the turn in telegram_adapter.c, for every     *)
(* sequence of deltas, calls and failures.                                 *)
THEOREM AnswersAreDelivered == Spec => DeliveryIsWhole
<1>1. BotIInv /\ BotIInv' /\ [Next]_vars
        => [/\ AnswerIsShown'
            /\ (/\ pc # "save" /\ turn'.id = turn.id
                /\ turn.shown # NoMessage /\ turn'.shown = NoMessage) => turn.whole]_vars
  BY InTheChatStep DEF BotIInv, InTheChat, NotTakenAway
<1>2. QED
  BY <1>1, BotInvariant, PTL DEF Spec, DeliveryIsWhole

(* No post of a channel is routed twice, in one life or over restarts, no  *)
(* post of Discord behind the seed is skipped, and the session of a        *)
(* channel only grows by its own posts, whatever the bot does in between.  *)
THEOREM PostsAreAnsweredOnce == Spec => ChannelsKeepApart
<1>1. BotIInv /\ BotIInv' /\ [Next]_vars
        => [/\ PostsAnsweredOnce'
            /\ \A p \in Platform : (saved[p] # NoSession /\ saved'[p] # saved[p])
                  => /\ saved[p] \subseteq saved'[p]
                     /\ \A e \in saved'[p] \ saved[p] : e[1] = p]_<<chanVars, saved>>
  <2> SUFFICES ASSUME BotIInv, BotIInv', [Next]_vars, NEW p \in Platform,
                      saved[p] # NoSession, saved'[p] # saved[p]
               PROVE  saved[p] \subseteq saved'[p] /\ \A e \in saved'[p] \ saved[p] : e[1] = p
    BY DEF BotIInv, Polled
  <2>1. /\ saved \in [Session -> Conversation] /\ p \in Session
        /\ p # Telegram /\ p \notin {"save", "checkpoint"}
    BY SMTT(30) DEF BotIInv, Types, Session, Platform, Telegram
  <2>2. saved' # saved
    OBVIOUS
  <2>3. ~Saves /\ ~Sessions
    BY <2>1 DEF Saves, Sessions, Saved
  <2>4. PICK q \in Platform : Routes(q)
    BY <2>2, <2>3
       DEF Next, Handles, vars, PostArrives, Posted, Signalled, Crash, RestartCommand, LoopEnds, Loops,
           Concludes, Poll, PollLost, Writes, Presses, People, TurboEnds, Passes, Turbo,
           Begins, Streams, Continues, Asks, PromptPolls, PromptEnds, Delivers, Sends,
           Removes, StepOnly, Restarts, Channel, ChannelStep, FetchesNothing, Fetches, PassesOver
  <2>5. q = p
    BY <2>1, <2>4 DEF Routes, Saved
  <2>6. saved'[p] = saved[p] \cup {<<p, Min(inbox)>>}
    BY <2>1, <2>4, <2>5 DEF Routes, Restored, Saved
  <2>7. QED
    BY <2>6
<1>2. QED
  BY <1>1, BotInvariant, PTL DEF Spec, ChannelsKeepApart

================================================================================
