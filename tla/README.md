# Belya, specified

TLA+ models of the parts of Belya where order, failure and limits matter, the
TLC runs that check them, and proofs checked by TLAPS. `PROJECT.json` lists
the components, the runs, the source lines behind every definition, the
hazards of the code and the theorems.

To repeat a check: `tlc -config X.cfg M` with the module and configuration a
run names, `tlapm M.tla` for a module whose name ends in `Proofs`.

## The system

Belya is a coding agent in C. One process holds a conversation with a language
model, runs the tools the model calls, and talks to its user in a terminal,
over Telegram, or in Slack and Discord channels.

| Part | Source | State it keeps | Hard behaviour | Module |
| --- | --- | --- | --- | --- |
| capture ring | `belya_harness.c` | head, tail, count and bytes of each background task's output | wrap-around, reuse | `TaskRing` |
| task table | `belya_harness.c` | slot per shell: state, pid, terminal, exit code | shells run between any two system calls; signals, zombies, full table | `TaskTable` |
| conversation | `belya_agent.c` | message array, turn counters; in SQLite: sessions, archive, checkpoints | compaction in mid turn, crash and restart, rollback | `AgentHistory` |
| turn loop | `belya_harness.c`, `telegram_adapter.c` | step budget, failure streak, verification flags | two front ends, refusals, sent-back conclusions | `TurnLoop` |
| loop detector | `belya_harness.c` | ring of the last nine action hashes | wrap-around, cycles of length one to three | `LoopDetector` |
| model gateway | `model_adapter.c`, `belya_agent.c` | endpoint pair, stream buffers | retries, rate limits, failover, partial streams | `ModelGateway` |
| agent mesh | `agent_mesh.c` | peer socket, one pending request, listener thread | threads, timeouts, lost peers | `AgentMesh` |
| Telegram bot | `telegram_adapter.c` | polling offset, Turbo, provisional message | redelivery, prompts that poll, crashes | `TelegramBot` |
| channel gateway | `belya_channel.c` | cursor and session per channel | one conversation for all channels, backlog | `Channels` |
| permissions | `permissions.c`, `jev_client.c` | rules | tiers of a call, risk verdicts | `ToolGate` |
| tools, hooks, plan mode, worktrees, sandbox | `belya_harness.c`, `sandbox.c` | directory and jail root of the process, mode flags | time limits, what one call leaves for the next | `Workspace` |
| subagents, speculation | `belya_harness.c` | stack of harnesses, candidate worktrees | one step of several failing | `Workspace`, `Workers` |
| MCP and LSP clients | `mcp_client.c`, `mcp_http.c`, `lsp_client.c` | child process, next request id, protocol version | matching answers, silent servers | `RpcClients` |
| task board, cron, memory | `belya_agent.c` | tables in SQLite | | not modelled |
| company | `belya_company.c` | roles, contract pipeline | | not modelled |

The turn loop is the centre. A user message is appended to the conversation;
the loop then asks `belya_agent_step` for an answer (which may first save and
compact the conversation, then calls the gateway), carries out the tool calls
of the answer one after the other, appends one result per call, and goes
round until an answer has no calls or the step budget is used up. Tools reach
the task table, the mesh, the subagents and the clients. Everything except the
mesh listener runs on one thread; concurrency comes from child processes,
remote peers, other people, and from the process dying.

What makes each part correct:

- ring: what is read is the newest output, complete and in order;
- table: a slot, its process, its descriptor and its id always belong together,
  a verdict is the shell's own, calls return;
- conversation: what is sent is a sequence a provider accepts, what is dropped
  is kept elsewhere, what is restored is what was saved;
- turn: it ends, it notices repetition exactly, it asks for verification;
- gateway: bounded waits, no answer mixed from two attempts or asked for twice;
- mesh: an answer reaches the request it answers, no connection is lost sight
  of, calls return;
- bot and channels: no message lost, none taken up twice in a life, one press
  approves one call, every channel keeps to its own conversation;
- tools: modes and permissions hold over any sequence of calls, a failed edit
  is undone, the process ends up where the harness thinks it is;
- speculation: the best candidate is chosen, a rejected one changes nothing;
- clients: an answer belongs to its query, nothing is carried out twice.

## Modules

    RingWindow  <--- TaskRing (refines) <--- TaskRingProofs
    TaskTable   <--- TaskTableProofs
    AgentHistory <-- MCAgentHistory, AgentHistoryProofs
    LoopDetector <-- TurnLoop <-- MCTurnLoop, TurnLoopProofs
    ModelGateway <-- MCModelGateway, ModelGatewayProofs
    RpcClients <---- ModelGatewayProofs
    AgentMesh <----- AgentMeshProofs
    Channels <------ TelegramBot (its loop polls the channels) <-- TelegramBotProofs
    ToolGate <------ Workspace <--- Workers <--- MCWorkers, WorkersProofs

The proofs about the loop detector are in `TurnLoopProofs`, beside those of the
loop that uses it; the proofs about the clients are in `ModelGatewayProofs`: both
are about requests that must not be repeated.

### TaskRing, RingWindow

`PutByte` is one pass of the loop of `belya_task_ring_write`, so a reader of the
module sees the ring between any two bytes. `BeginWrite` and `EndWrite` are the
call and the update of `total_bytes_captured`; `Reset` is what `spawn_task` does
to a slot it reuses. `ring_read_all` is the read. The variable `captured`
records everything written since the reset. `RingWindow` is the promise: a
window that takes one byte at a time, keeps the newest ones and can be
emptied. `TaskRing` implements it with `ring_read_all` as the window.

### TaskTable

One module for the operations on the table and the shells beside it. The
harness is a program counter (`pc`, `op`, `cur`), an operation is split at each
`read`, `waitpid` and `kill`, and between any two steps a shell may write, exit,
crash, obey SIGTERM or not, or die of SIGKILL. Output is counted in bytes;
what becomes of the bytes is `TaskRing`. Processes a shell has left in its group
are not modelled apart from the shell.

### AgentHistory

The message array as a sequence of records: kind, a number that tells messages
apart, and for calls and results how many or which. One action per stage of a
step: `AutoSave`, `AutoCompact`, then the answer (`TextAnswer`, `CallTools`), one
`ToolResult` per call, `ForceText` and `ForcedAnswer` for Telegram's forced
synthesis. Between turns come the slash commands, each one action. `Restart` may
happen in any state: it loses what is in memory and keeps the database.

Abstractions:

- The token estimate is an input of each step with three levels: below 96000,
  above it, and above 80% of the default budget of 128000. A smaller budget, where
  both thresholds are a percentage, is not modelled.
- Tiers 1 and 2 of the compaction change contents only; tiers 4 and 5 are called
  by the tests only. The copy that goes into `agent_memories` is never read back
  into the conversation.
- SQLite transactions either happen or not: `save_session` is one action.
- A checkpoint is its message count; the git tree it also names is left out.
- The ids of the calls of one answer are distinct, as providers make them.
- `Commands` selects which slash commands the user gives in a run.
- An answer with calls may begin with the words of a transport failure. Then
  `belya_agent_step` returns without recording it (`CallTools`), the front ends
  carry out its calls and append the results all the same, and `unrecorded`
  notes it for the properties. `MaxMistaken` bounds how often this happens.

### LoopDetector, TurnLoop

`LoopDetector` is the ring of hashes with `Record` and `Reset`, and
`detect_loop` with its index arithmetic. `calls` records the whole turn. An action
stands for a hash, so collisions are left out. `TurnLoop` extends it and adds what
`belya_harness_record_tool_observation` keeps besides: the failure streak on a
tool and the first 255 bytes of its arguments, the breaker, and the verification
guard, inside the turns of the two front ends. Every gate that refuses a call is
the action `Refuse`: none of them records an observation. `MaxCalls` bounds the
detector on its own; in `TurnLoop` it is more than a turn can make. `sent` records
where in the calls of the turn the guard sent the model back.

### ModelGateway

One completion. `Send` begins an attempt with a fresh `StreamContext`, `Receive`
takes one server-sent line, and the attempt ends by `TransportFails` (in the
middle of the answer perhaps), `Rejected` (429 or 5xx with attempts left) or
`Complete`. `Finish` is the decision of `openai_chat_complete` about the fallback.
`Step` is what `belya_agent_step` does next: native calls, or those `Scavenge`
finds in the text and, for some models, in the reasoning. Text is a sequence of
words among which the think tags, the forms of a call and the first words of an
error are told apart; a tag is never cut in two, which the code does not handle
either. `Failed` reads the first word (`FailureWords`), as `openai_chat_complete`
does, so that a model's answer that begins like an error is taken for one.
Sleeping is a sum of seconds.

### AgentMesh

Each agent has a main thread (`main`) and a listener (`listener`), and `struct
AgentMesh` between them. A write is split in frame and newline, as in the code.
`Unlocked` guards the listener's steps that take the lock; a reply is written
without it. A connection holds, for each end, what it has yet to read. The
kernel's part is modelled from its use: a queued connection is open before it is
accepted, a write to a closed one ends the process (SIGPIPE is not ignored), a
process that ends closes its descriptors and leaves the socket file. `unlink`
and `bind` are separate steps, so two agents can start at the same time.

### Channels, TelegramBot

`TelegramBot` has one step per request the daemon makes, because between two
requests people write, press buttons and post, and every request can be lost.
Telegram is two numbers and a sequence: what was sent, and up to where the
offset of a poll has confirmed it. `PromptPolls` is the second polling loop,
inside a permission prompt; it works on the same offset. The answer of a turn is
a sequence of deltas: `turn.buf` is what the stream has collected, `turn.shown`
what the chat shows, and `turn.late` says that the last edit of the stream was
held back or failed. A save, a send and the removal of the Turbo marker may each
fail; the code goes on, and so does the model. `turbo.env` is `BELYA_TURBO=1`,
chosen in `Init` and kept over restarts. A press may come without the id of its
message, and then fits any prompt. `/compact` is a message that takes something
out of the conversation and does not save it. A conversation is the set of messages it holds; the order
and the tool results are in `AgentHistory`. `Crash` and `Signalled` may happen in
every state; `Restarts` is what systemd and `main` do next. `Channels` holds the
pollers that the loop runs at its top; Discord's page is the oldest posts after
the cursor, Slack's the newest. The variables marked "for the properties" are
history; no guard reads them.

### ToolGate, Workspace, Workers

`ToolGate` has no state: the tier of a call, the risk verdicts and the decision
of `belya_harness_execute_turn`. A command is the set of features that the string
matching of `permissions.c`, `jev_client.c` and the plan mode guard looks for.

`Workspace` follows one call at a time through hook, tool and hook. A tree is the
number of times `old_text` occurs in its file, enough to tell a unique match from
none and several. The steps are cut where others can change a file: read, write,
compile check, and the runs of programs. The directory of the process and the
root of the jail are global, as in the code; each harness on the `stack` has a
`cwd` of its own. `Confined` says where Landlock lets a shell write what: the policy
of plan mode does not handle the right to truncate, which leaves it to the outer
policy, so that below the directory a shell may empty a file and no more. The
write-back after a failed compile check may not find the file open to it; then
the file stays broken and the model reads "reverted" (result `stuck`).

`Workers` adds `dispatch_worker_task`: worktrees under `/tmp`, a worker in each,
tests (which may change the tree they run in, and count as passed if they cannot
be started), score, patch, teardown. A worker may `cd` or name an absolute path
and so write to any tree the sandbox leaves open; `spec.strayed` notes it.
`TearsDown` unregisters every worktree and removes those `git worktree remove`
succeeds for. `OthersEdit` is the operator, background tasks, and what a killed
program left running.

Left out: worktrees inside worktrees, a speculation by a subagent, more than one
level of subagents (the code has none either), paths with links. `git status`,
`git diff` and `git apply` are taken to run when they are called.

### RpcClients

Three transports in one module, of which a behaviour has one. On a pipe a
message is a head and a body, so that a time limit can fall between them, and
what was read by then is lost. A language server is started for each query and
its answers are matched by id; an MCP server stays, and its next line is the
answer. HTTP tries the newer protocol, negotiates the older one after a 400 and
repeats the call; a server may answer 400 to a version it speaks. `Closes` ends the
client's side only: the server gets SIGTERM and is waited for without blocking,
so that it may go on running at the end of no pipe. The messages of a shutdown
can meet a server that is gone (`BrokenPipe`).

## Runs

| Run | Shows | Bounds |
| --- | --- | --- |
| TaskRing | the ring reads as the newest bytes, the window is implemented | 3 bytes of ring, 2 byte values, chunks of 2, 7 bytes: past the second lap |
| TaskTable | descriptors, processes, verdicts, ids and slots stay consistent; live tasks are not evicted; every call returns | 2 slots, 3 tasks, 2 bytes each: a slot is reused while the other is busy, and the terminal fills |
| AgentHistory | no orphaned tool result in any history but those of an unrecorded answer; prefix and newest message survive compaction, what is dropped is archived | context of 6, window of 3, 2 turns of up to 3 steps, 2 calls per answer, 1 answer mistaken for a failure; /compact, /rollback, /clear, /checkpoint and restarts with any saved session |
| AgentHistoryTurns | calls sent or saved are answered; the bot's conversation between turns can be restored; every turn ends | the same, with /save and /resume |
| LoopDetector | `detect_loop` is exact | ring of 9 as in the code, 3 actions, 11 calls: the head wraps past a full cycle |
| TurnLoop | the breaker is exact; a turn is sent back when its calls edited and never verified, once, and only then | 3 actions, two with the same argument prefix, up to 6 calls a turn, any number of turns |
| ModelGateway | the answer is assembled as sent, by one attempt only; waits are bounded; a call in the text is executed once; every completion returns | 3 attempts at each of 2 endpoints, 3 lines of 7 kinds: a tag opened in one line and closed in another, each form of a call, fragments of 2 calls interleaved, an answer that reads like a failure |
| AgentMesh | answers belong to their question; no connection is lost sight of; every call returns or its process ends | 2 agents, 2 consults, 2 connections, 1 crash: a late answer meets a later consult, and a restarted agent the old one's ids |
| TelegramBot | no text lost or taken up twice in a life; presses count once; Turbo off, delivery, sessions and channels as stated; every text is taken up in the end | 3 events (messages, presses, posts, signals, crashes), at most 1 death, 2 channels, 2 prompts of 1 poll, answers of up to 2 deltas (deltas and events at most 3), pages of 1 post; with and without BELYA_TURBO=1 |
| TelegramRestart | violation, see below | 2 messages |
| RpcClients | answers belong to their query; nothing carried out twice; every call returns | 3 transports, 3 kinds of HTTP server, 4 calls, 3 waits per query, 2 messages nobody asked for |
| Workers | directory, plan mode, strict permissions, failed edits, the choice of a candidate and the silence of a rejected speculation as stated; every call returns or waits where the code has no limit | 4 configurations of the agent, 30 calls, subagents of 1 call, 2 candidates, 1 edit by others; 2 values of the text away from the committed one |

Each module states its type invariant as `TypeOK`, `DetectorTypeOK` or `RpcTypeOK`. Where an invariant of a run
is a conjunction (`TableConsistent`, `HistoryInv`, `TurnInv`, `MeshInv`, `BotInv`,
`RpcInv`, `SpeculationInv`) its parts, the type invariant among them, are definitions with
comments of their own. The type invariants of `TaskRing`, `LoopDetector` and
`ModelGateway` and the exact byte counter `TotalCountsEveryByte` are proved for all
values of the constants and not repeated by a run.

The limits of the code (80 messages, windows of 15 and 20, 50 and 10 steps, 30
polls, pages of 5) are constants; the small values keep their order and let each
limit be reached. The windows of `AgentHistory` stay larger than the number of
calls in one answer, as they are in the code; `CompactionKeepsEnds` needs that, and
nothing in the code ensures it. `WaitIsBounded` is for the default of three
attempts; the doubling of the backoff has no cap of its own.

Deadlock is checked where the system never stops: `TaskRing`, `AgentHistory`,
`LoopDetector`, `TurnLoop`, `TelegramBot`, `Workers`. In the others the behaviour
ends: the table is torn down, the completion is over, the agents have stopped,
the calls are used up.

### Where the code and its words differ

The run `TelegramRestart` shows one: `/restart` calls `exit(0)` before any poll has
confirmed its own update; the relaunched bot starts with offset 0, gets
`/restart` again and never reaches what came after it. `CHANGELOG.md:218` promises
a reload "within 2 seconds". `EveryTextIsTakenUp` is therefore about behaviours
without this command.

Others were met while modelling and are reproduced by the models; the properties
except them, and the hazards name the lines:

| The words | What happens |
| --- | --- |
| a completed task shows its output (`test_suite.c:3051`) | bytes written between the last read and `waitpid` are lost |
| "deterministic descriptor & process reaping" (`test_suite.c:3101`) | SIGKILL is followed by a `waitpid` that does not wait |
| "archive losslessly" (`belya_agent.c:719`) | results at the very beginning of the window, which the orphan filter drops, are in no archive; `DroppedIsArchived` excepts these and no others |
| "save before compaction drops messages" (`belya_agent.c:2422`) | compaction starts at 96000 tokens, saving at 102400 |
| "A transport failure is not something the assistant said" (`belya_agent.c:2859`) | "API Error (HTTP 500): ..." is not recognised and is recorded; an answer with calls whose text begins with "API Error:" is recognised, and its results follow no call. `HistoryInv` and `CompactionKeepsEnds` except these results |
| "Enforces mandatory verification steps" (`CHANGELOG.md:176`) | verification before the edit counts, and the reminder is given once |
| "hypothetical thoughts are not executed" (`belya_agent.c:2805`) | reasoning that stands in for missing content is scanned for calls |
| "All mutating file and shell operations are locked" (`belya_harness.c:1812`) | plan mode does not reach background tasks, scripts, the test runner and subagents, and a shell may truncate files below the directory (line 61). `PlanHolds` says what is left |
| "file auto-reverted to original content" (`belya_harness.c:1177`) | said, too, when the file could not be opened to write it back. `FailedChangesNothing` excepts it |
| "Tests: 100% PASSED" (`belya_harness.c:3463`) | tests that could not be started count as passed (lines 3365-3373) |
| "zero noise emitted to operator workspace" (`belya_harness.c:3486`) | what a worker wrote by an absolute path or after a `cd` stays. `RejectedIsSilent` excepts it |
| "the last streamed edit already holds it" (`telegram_adapter.c:1141`) | the buffer is compared, not what was shown: if the last edit was held back or failed, the end of the answer is never shown. `DeliveryIsWhole` excepts it |

Three more limits of the passing runs come from the code. `CallsAreAnswered` is
checked without `/compact` and `/rollback`: after `/compact` any message that is
not a tool result may stand at index 1, where the next automatic compaction pins
it, and if it is an answer with calls its results are dropped behind it; a
checkpoint stores only a message count, so after a compaction or a restart
`/rollback` cuts a different conversation at that count. It can leave calls
without results, never results without their call (`HistoryInv` is checked
with both). `IdleIsRestorable` is checked without the two commands because they
change the bot's conversation and do not save it. `AnswersMatch` holds on a
stdio MCP server until a request gives up or a line comes unasked; the client
never compares ids, and from then on every answer is the previous one's.

## Fairness

- `TaskTable`: weak fairness of `Proceed`, the harness thread, which runs whenever
  it is not blocked in `waitpid`; and of `KillKills`, because the kernel delivers
  SIGKILL. Nothing is assumed of the shells. What a shell writes is bounded in
  the model: the drain loop of the code would follow one that never pauses.
- `AgentHistory`: weak fairness of `Turn`. Tools and the gateway come back: the
  gateway's attempts and time limits are bounded, and it then returns an error
  text. No user action is fair.
- `ModelGateway`: weak fairness of `Next`; a transfer ends by `CURLOPT_TIMEOUT` at
  the latest, and an answer has finitely many lines.
- `AgentMesh`: weak fairness of each thread. `WaitEnds` may be the time limit.
  Nobody has to ask, stop, crash or come back.
- `TelegramBot`: weak fairness of the daemon's steps; strong fairness of the end of
  a turn (`Concludes`), since `max_steps` bounds the requests of a turn, which
  `AgentHistory` models, and of `Poll`: requests to Telegram do not fail for ever.
  systemd restarts the process.
- `RpcClients`: weak fairness of the client only. The server owes nothing: that
  calls return is due to the time limits, or the process is ended by SIGPIPE.
- `Workers`: weak fairness of `Progress`, the process and its time limits. Nothing is
  assumed of hooks, compilers and tests. Where the code waits for one without a
  limit (`Unlimited`: a hook or compiler that closed its output, the test runner,
  the tests of a candidate) a call may stay, and `EveryCallReturns` says that it
  stays nowhere else.

## Proofs

All proofs are for every value of the constants, under the named assumptions
of the modules (`RingAssumption`, `TableAssumption`, `DetectorAssumption`,
`TurnAssumption`, `GatewayAssumption`, `RpcAssumption`, `BotAssumption`,
`HistoryAssumption`, `MeshAssumption`, `ChannelAssumption`, `WorkspaceAssumption`,
`CallsAssumption`: sizes are positive, the detector's ring has at least nine
cells, bounds are natural numbers, the calls a model makes have the arguments
their tools take). A theorem that needs more says so with ASSUME, below. The bounds of
the models (`MaxConns`, `MaxAsks`, `MaxTurns` and so on) are constants like the
others, so that the proofs hold however large they are chosen. The inductive
invariants were checked with TLC before they were proved.

- `TaskRingProofs`: `TypeOK`, `ReadsNewestBytes`, `TotalCountsEveryByte` and the
  refinement `ImplementsWindow`. The property alone is not inductive, since it
  says nothing of where the head is: `RingInv` adds that the head is `count`
  places after the tail, that the count is the smaller of the ring size and the
  bytes written, and that the cells from the tail on hold the newest bytes. The
  case that matters is a write to a full ring, where head and tail coincide and
  move together. With that, what `read_all` returns before and after `PutByte`
  differs by one `Keep` of `RingWindow`, after `Reset` by a `Forget`, otherwise
  not at all. The lemmas on `%` at the head of the module are the only modular
  arithmetic of the argument.

- `TaskTableProofs`: `TypeOK`, `OpenWhileRunning`, `EndedIsReaped`, `IdsDistinct`,
  together `TableConsistent`; the action property `NeverEvictsALiveTask`; and
  `VerdictIsTrue`. `TableInv` adds which operation a program counter belongs to
  (`Control`) and that the slot being killed or torn down is running and has an
  unreaped shell (`Signalling`). `VerdictIsTrue` needs `Recorded`: the `-1` that
  `spawn_task` writes as exit code stays until somebody reads the status of the
  shell, because `task_kill` and the teardown record none.

- `TurnLoopProofs`: for the detector `DetectorTypeOK` and `DetectsExactly`. `DetectorInv`
  says that the cell `i` places before the head holds the call made `i` calls ago;
  with it a cycle found in the ring is a repetition of the turn's last calls.
  For the turn `TurnInv` (with `BreakerIsExact`) and `SentBackWhenDue`.
  - That the breaker misses nothing needs `StreakIsTrue`: until it trips,
    `last_failed` is the prefix of the last call if that failed, and `failures` is 2
    if the call before failed with the same prefix, otherwise 1. When the breaker
    trips the counter starts again, but then there is nothing left to miss: the
    flag stays set for the turn.
  - `Placed` says that a turn is in its tools only with a call left to do and has
    concluded only between turns.
  - `FlagsAreTrue` ties the flags of the guard to the calls of the turn; without it
    nothing would follow for the calls from what the guard asks of the flags.

- `ModelGatewayProofs`: `TypeOK` and `AnsweredOnce`. Each needs the other: an
  attempt is counted as the only answer because none came before it, and that
  none did is what `AnsweredOnce` says of an attempt under way. The step that
  matters is `Finish`: an answer, even one that only makes calls, is not `Failed`
  unless its own text begins with the words of an error, so neither a retry nor
  the fallback follows. `WaitIsBounded` is proved for
  `max_retries <= 3` and `RetryCap >= 7`, which the code's values (3 and 30)
  meet: the doubling of `sleep_sec` has no cap of its own, so with more retries
  the property is false.

  The module also proves `RpcInv` and `AnswersMatch` of `RpcClients`. `NotYet` says
  that nothing was carried out as long as a call may still be sent again: a 400
  is an answer before execution, any other ends the call. `InStep` says that on
  a pipe, until something slipped, the server's work and the pieces in the pipe
  are what is left of the one answer that is waited for, and that nothing is
  there when nobody waits.

- `AgentHistoryProofs`. That every result has its call in front of it
  (`Grounded`) is not inductive: a window that starts between the results of one
  answer would keep it true and break it at the next cut. `Linked` says more,
  that the results of an answer stand directly behind it, in order, from the
  first: then a result carries how far back its call is, and a window that does
  not begin with a result contains the call of every result in it. For an answer
  that was not recorded only the order of the results is left, which is what
  keeps them from standing between another call and its results. `Calling` is
  the same about the answer whose calls are being carried out. From these
  `HistoryInv` follows for conversation and sessions, and `DroppedIsArchived`.
  - `EndsAreKept` assumes `CallsFit`: one answer makes fewer calls than a window
    keeps messages. Otherwise the window can consist of results only, all of
    which the filter for orphans drops, the newest message among them. The code
    does not bound the calls of an answer; models make a few, and
    the windows keep 15 or 20 messages unless `COMPACTION_KEEP` says less.
  - `RequestsAreSettled` and `IdleBotIsRestorable` assume `NoCuts`: the user
    gives neither `compact` nor `rollback`, which may cut between a call and its
    result. Their inductive invariant `SettledIInv` exempts the one answer whose
    calls are still being carried out (`Pending`).

- `TelegramBotProofs`: the four invariants and three action properties of the
  bot and the channels, from one invariant, `BotIInv`. Its core is about numbers:
  `Offsets` (the offset, what Telegram has forgotten and the batch lie within
  what was sent, the batch beyond the offset), `BeforeTheBatch` (every text
  before a member of the batch is in the batch or was taken up), which is what
  makes it safe that a permission prompt polls with the same offset, and
  `InOrder`. `Honoured` is about presses over all lives: the offset has passed
  every press that was honoured, or a restart has forgotten it and the press will
  be delivered before any text, when no prompt is open. `Disarmed` (after
  `/turbo off` the marker is gone, or this life has read it before), `Kept`, `InTheChat`, `NotTakenAway`, `RoutedBehind`, `FetchedAhead` and
  `Polled` are the parts for Turbo, sessions, delivery and channels.

- `AgentMeshProofs`: `MeshInv` and `AnswerIsOwn`, for any number of agents.
  - That nothing leaks needs `Links`: what an agent holds while its main thread
    is outside the life of a started mesh (nothing), that the listener serves
    the `peer_fd` or what `agent_mesh_stop` has closed under it, that a descriptor
    somebody still has in a variable is his or nobody's, so that `connect` cannot
    hand out its number again, and that a queued connection is in one queue, once.
  - That answers are matched needs `Owned`: a connection never has more than two
    users (`Pairs`), and a frame on it belongs to one of them (`Mine`): its id was
    given out, and if it is the id waited for it carries the question being
    asked. A reply inherits this from its request, a new question takes an id
    no frame has, and a process that dies and starts its ids anew finds its
    wires empty. `Counted` ties the ids to the number of consults.

- `WorkersProofs`: `SpeculationInv`, `CwdAgrees` and the three action properties of
  the tools, for any set of calls and any number of candidates, from one
  invariant, `Plain`:
  - `Typed` and `Control`: what the program counter says of the stack and of the
    call. A subagent or a worker stands on the main harness, never on another, and
    a file tool that got as far as reading is not in plan mode. With this
    `FailureChangesNothing` and `PlanModeHolds` are arguments about single steps.
    Nor is it a worker's: `g_workspace_root` does not move with
    `dispatch_worker_task`, so the jail refuses a write below `/tmp`, and what a
    worker changes it changes by its shell;
  - `Located`: the process is in a directory that exists, and in that of the
    topmost harness if this exists, at every step. `DirectoriesAgree` is its
    case between two calls; a harness that comes back into its own after a
    subagent or a speculation is what makes the rest of it necessary;
  - `AtWork`: a worker stays in the tree of its candidate and has only the
    tools it was given;
  - `Speculation` and `BestSoFar`: which worktrees exist and are registered at each
    stage, that the way home stays open, and that `best` is the smallest change
    among the candidates that passed so far, the earliest of equals;
  - `Strict`: with strict permissions and nobody to ask, the stack stays at one
    frame and a call that runs was one the gate lets through unasked.

  Most actions leave most of the state alone; `Steady` and `Shift` are the frame
  lemmas that carry each part over such steps. `PlanModeHolds` and
  `SpeculationIsSound` assume `Landlock`, and the latter adds `Untouched`: until a
  merge nothing outside the candidates' worktrees has changed, unless a worker
  strayed. The hypothesis is
  needed: on a kernel without Landlock the code runs the shell unconfined, and a
  command in plan mode or in a candidate's worktree can write to any tree.

Model-checked only:

- liveness under fairness (`EveryCallReturns`, `EveryTurnEnds`,
  `EveryCompletionReturns`, `EveryMeshCallReturns`, `EveryTextIsTakenUp`), which the
  prover cannot do;
- `AssembledAsSent` and `ScavengedOnce` of `ModelGateway`, which are about what folds
  over the lines of an answer compute, an induction over data.

Every other property of a passing run is stated by a theorem.

## Not modelled

- Task board, cron, memory, skills, manifests, dream sweep: each operation is one
  or a few SQL statements or a scan of files, with no state outside the database.
  Read in passing: `cron_tick` puts every job 60 seconds ahead whatever its
  schedule (`belya_agent.c:1993`).
- The company simulation: a fixed script of prints and SQL statements. It updates
  the tasks 1 to 6 whatever ids they were created with (`belya_company.c:297`).
- Contents of messages and prompts, request bodies, rendering, JSON and front
  matter parsers, the terminal interface, the vendored line editor, the scripts
  and the benchmarks.
- Which text has which of the features that the permission rules look for.
- Tools that only read: search, web, git status and diff.

The notes of the components in `PROJECT.json` say what is left out of the modelled
parts.

## What could come next

- The task board and the cron table beside the daemon that ticks them: the one
  part left out that more than one process writes to.
- `AgentHistory` with a token budget below the default, where the thresholds of
  saving and compacting are both a percentage of it.
- A speculation started by a subagent, once the code has a use for it.
