------------------------------- MODULE Channels -------------------------------
(***************************************************************************)
(* The Discord and Slack pollers of belya_channel.c, which the bot runs at *)
(* the top of its loop (belya_omnichannel_poll_env).  They share the one   *)
(* conversation of the agent with Telegram: a post is put into whatever    *)
(* session the agent can load for its channel, answered in one step, saved *)
(* under the channel's id and the answer is posted to the channel.         *)
(***************************************************************************)
EXTENDS Integers, FiniteSets, FiniteSetsExt, Sequences

CONSTANTS Setups,     \* the combinations of adapters to consider
          Limit,      \* limit= of the history requests (5)
          MaxEvents   \* bound: posts, messages, presses, crashes, signals

ASSUME ChannelAssumption == Setups \subseteq SUBSET {"discord", "slack"} /\ Limit \in Nat \ {0} /\ MaxEvents \in Nat

VARIABLES
    active,     \* the adapters that have tokens in the environment
    events,     \* what has happened from outside (see MaxEvents)
    pc,         \* where the bot's loop is: "discord" and "slack" come first
    posts,      \* each channel: who posted ("user" or "bot"), oldest first
    cursor,     \* session_id, s_last_slack_ts: the newest post seen, 0 for ""
    seed,       \* the post the cursor was seeded with (for the properties)
    inbox,      \* fetched posts still to be looked at
    routed,     \* posts routed so far, over all lives (for the properties)
    again,      \* a post was routed a second time (for the properties)
    conv,       \* the messages the agent's conversation holds
    saved       \* the sessions in the database

chanVars == <<active, posts, cursor, seed, inbox, routed, again>>

Platform  == {"discord", "slack"}
NoSession == {<<"none", 0>>}
Telegram  == "telegram_active"
Session   == Platform \cup {Telegram, "save", "checkpoint"}

After(p)  == IF p = "discord" /\ "slack" \in active THEN "slack" ELSE "poll"
First     == IF "discord" \in active THEN "discord" ELSE After("discord")

(* Each channel already holds an older post. *)
InitChannels == /\ active \in Setups
                /\ posts = [p \in Platform |-> <<"user">>]
                /\ cursor = [p \in Platform |-> 0] /\ seed = [p \in Platform |-> 0]
                /\ inbox = {} /\ routed = {} /\ again = FALSE

(* Discord returns the posts that follow after=, Slack the newest ones.    *)
Fetched(p) ==
    LET new == cursor[p] + 1 .. Len(posts[p])
    IN  IF p = "discord"
        THEN {i \in new : i <= cursor[p] + Limit}
        ELSE {i \in new : i > Len(posts[p]) - Limit}

Happens == events < MaxEvents /\ events' = events + 1

(* Someone posts to a channel the bot watches. *)
Posted(p) == /\ pc = p /\ inbox = {} /\ Happens
             /\ posts' = [posts EXCEPT ![p] = Append(@, "user")]
             /\ UNCHANGED <<active, pc, cursor, seed, inbox, routed, again, conv, saved>>

(* A request that finds nothing.  One that fails is like one made before   *)
(* the post was there.                                                     *)
FetchesNothing(p) == /\ pc = p /\ inbox = {} /\ Len(posts[p]) = cursor[p]
                     /\ pc' = After(p)
                     /\ UNCHANGED chanVars /\ UNCHANGED <<conv, saved>>

(* first_seed: the newest post only sets the cursor. *)
Seeds(p) == /\ cursor' = [cursor EXCEPT ![p] = Len(posts[p])]
            /\ seed' = [seed EXCEPT ![p] = Len(posts[p])]
            /\ pc' = After(p) /\ UNCHANGED inbox

Fetches(p) == /\ pc = p /\ inbox = {} /\ Len(posts[p]) > cursor[p]
              /\ IF cursor[p] = 0 THEN Seeds(p)
                 ELSE inbox' = Fetched(p) /\ UNCHANGED <<pc, cursor, seed>>
              /\ UNCHANGED <<active, posts, routed, again, conv, saved>>

Seen(p, i) == /\ cursor' = [cursor EXCEPT ![p] = i]
              /\ inbox' = inbox \ {i}
              /\ pc' = IF inbox = {i} THEN After(p) ELSE p
              /\ UNCHANGED <<active, seed>>

(* The bot's own answers come back and are passed over. *)
PassesOver(p) == /\ pc = p /\ inbox # {}
                 /\ posts[p][Min(inbox)] = "bot"
                 /\ Seen(p, Min(inbox))
                 /\ UNCHANGED <<active, posts, routed, again, conv, saved>>

(* Fault: the channel's session is not loaded. *)
Restored_Not(p) == conv

(* belya_agent_load_session, whose result belya_channel_route_message      *)
(* ignores: with no session, the conversation of the moment goes on.       *)
Restored(p) == IF saved[p] = NoSession THEN conv ELSE saved[p]

(* belya_agent_save_session, whose failure nobody looks at. *)
Saved(id, messages) == {saved, [saved EXCEPT ![id] = messages]}

(* belya_channel_route_message; the answer may not reach the channel. *)
Routes(p) ==
    LET i == Min(inbox)
    IN  /\ pc = p /\ inbox # {}
        /\ posts[p][i] = "user"
        /\ Seen(p, i)
        /\ conv' = Restored(p) \cup {<<p, i>>}
        /\ saved' \in Saved(p, conv')
        /\ routed' = routed \cup {<<p, i>>}
        /\ again' = (again \/ <<p, i>> \in routed)
        /\ posts' \in {posts, [posts EXCEPT ![p] = Append(@, "bot")]}

ChannelStep == \E p \in Platform : \/ FetchesNothing(p) \/ Fetches(p)
                                   \/ PassesOver(p) \/ Routes(p)

(* The process ends: cursors and what was fetched were in memory. *)
ChannelsForget == /\ cursor' = [p \in Platform |-> 0]
                  /\ seed' = [p \in Platform |-> 0] /\ inbox' = {}
                  /\ UNCHANGED <<active, posts, routed, again>>
-----------------------------------------------------------------------------
(* Posts are looked at once and in order, whatever fails and restarts: no  *)
(* post is routed twice, and on Discord none behind the seed is left out   *)
(* (Slack's page of the newest posts does leave out a longer backlog).     *)
PostsAnsweredOnce ==
    /\ ~again
    /\ \A i \in seed["discord"] + 1 .. cursor["discord"] :
          posts["discord"][i] = "user" => <<"discord", i>> \in routed

(* Posts are answered once, and a channel that has a session keeps to it:  *)
(* whatever front end the agent talked to before, the session only ever    *)
(* grows by the channel's own posts.                                       *)
ChannelsKeepApart ==
    [][/\ PostsAnsweredOnce'
       /\ \A p \in Platform : (saved[p] # NoSession /\ saved'[p] # saved[p])
             => /\ saved[p] \subseteq saved'[p]
                /\ \A e \in saved'[p] \ saved[p] : e[1] = p]_<<chanVars, saved>>
=============================================================================
