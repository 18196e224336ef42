# TLA+ models and proofs of rusty-pi

Rusty-Pi is a terminal coding agent. A prompt becomes a *run*: the agent asks a
language model, executes the tools the model calls, appends everything to a
session that is a JSONL file, and streams events to a frontend that may cancel
it at any time. The code is asynchronous Rust on tokio: one controller task owns
the session and the run's future, and producers, output forwarders, pipe readers
and blocking file writes are tasks and threads beside it.

This directory holds TLA+ modules for the parts of it where order matters, TLC
configurations that check them on small instances, and proofs for TLAPS of the
theorems that matter most, for every value of the constants. `PROJECT.json`
lists components, runs, mutants, hazards, findings and theorems, and maps every
definition to the lines it models.

Run everything from this directory:

    tlc -workers 2 -config AgentLoop.cfg AgentLoop
    tlapm SessionControllerProofs.tla


## 1. The system

Paths are below `src/rusty-pi/src/`.

| Component | Code | State it keeps | Operations | Status |
|---|---|---|---|---|
| Agent event contract | `agent/events.rs`, `agent/engine.rs` | none; the order of events of a run | the variants of `AgentEvent` | modelled |
| Agent engine | `agent/engine.rs`, `agent/types.rs` | run counter, cancellation token, round, accumulated response, batch of calls | `allocate_run_id`, `run_allocated`, `run_inner`, `execute_tool`, `finish_aborted`, `abort` | modelled |
| Provider stream | `ai/providers/*.rs`, `ai/stream.rs` | producer task, channel, request token; bytes, frames and calls not yet complete; accumulator | `do_stream`, `do_codex_stream`, `build_messages`, `build_input`, `recv`, `shutdown`, `push`, `build` | partly: no URLs, headers or schemas |
| Codex authentication | `ai/auth/openai_codex.rs`, `ai/providers/openai_codex.rs` | credentials file, token of the provider | load, refresh, save, device login, browser login | modelled |
| SessionController | `coding_agent/session_controller.rs` | activity, active run, stop flag, replies owed, snapshot cache | eight requests, settlement, shutdown, drop | modelled |
| Session tree | `agent/session/session.rs`, `memory.rs`, `types.rs`, `storage.rs` | entries, labels, leaf | `append_*`, `move_to`, `clear`, `get_branch`, `build_context`, listing | modelled |
| JSONL storage | `agent/session/jsonl.rs` | the same, and a file | `create`, `open`, `append_entry`, `set_leaf_id` | modelled |
| PromptSession | `coding_agent/prompt_session.rs` | skills, templates, context files, system prompt | construction, reload, added context, expansion of prompts | modelled |
| Skills, templates, system prompt | `coding_agent/skills.rs`, `prompt_templates.rs`, `system_prompt.rs` | none | discovery, ignore files, collisions, arguments, placeholders | partly: no front matter, glob matching, wording |
| Bash tool | `coding_agent/tools/bash.rs` | process group, readers, reaper, output, directory | `execute`, drop of its future | modelled |
| Write and edit | `tools/write.rs`, `tools/edit.rs` | the file mutation queue | `execute`, application of edits | modelled |
| Read, truncate, mime | `tools/read.rs`, `truncate.rs`, `mime.rs` | none | pages of a text, heads and tails | partly: no images |
| Ratatui frontend | `main.rs`, `tui/app.rs`, `tui/command_driver.rs` | draft, history, activity and run shown, transcript blocks, tool index, selection, driven command | keys, `update`, effects, draining of events, `drive_command` | partly: no scrolling, no rendering |
| Terminal guard | `tui/terminal_guard.rs`, `main.rs` | raw mode, alternate screen, cursor | `new`, `restore`, drop | modelled |
| Print frontend | `frontends/print.rs` | run waited for, its outcome, interrupt and output error | `drive_print_run_with_interrupt` | partly: no formatting |
| REPL and single shot | `coding_agent/repl.rs` | none of their own | prompts, commands, end of input, shutdown | modelled |
| Command system | `coding_agent/command.rs` | cancellation token of a command | the built-in commands | modelled |
| CLI and start-up | `main.rs` | none | arguments, configuration, choice of a session | not modelled: once per process |
| Output formatter | `format/` | none | wording, colours | not modelled |
| Mock provider, test support | `ai/mock.rs`, `test_support.rs` | none | test doubles | not modelled |

How they interact:

    frontend --requests(mpsc)--> SessionController --owns--> run future (Agent)
       ^  \<---oneshot replies---      |   ^                    |      |
       |                               |   \--AgentEvent(256)---/      |
       \------SessionControllerEvent---/                               |
                                             provider stream (256) <---+
                                                 ^ producer task       |
                                             bash, read, write, edit <-+
                                                                       |
                                             Session -> JSONL file <---/

The controller polls requests, agent events and the run in this order of
preference (a biased select). The run's future owns the `PromptSession` and
hands it back when it returns. Cancellation is a token shared by the run, the
request it makes to the provider and the tool it executes.

What is hard in it:

- cancellation may arrive between any two steps of the run, while a tool runs,
  while the provider is being contacted or while an event waits for room;
- terminal events travel through a channel while the run's result travels
  through its future, and both must be settled before the next prompt;
- a bounded channel connects two parties that the same task polls;
- shutdowns, dropped handles and an aborted task meet runs in every phase;
- the producer of a response, the forwarder of a tool's output and the threads
  of a shell call must not outlive what they serve, also when a future is dropped
  at an await;
- a response is bytes that are cut anywhere, and may break off;
- appending an entry takes several steps, one of which nobody waits for, and the
  process can die in between; the same holds of a refreshed login;
- two calls may edit one file, each with awaits between its read and its write;
- a frontend learns of the controller's state through a queue that it drains now
  and then, and decides on keys by what it shows in the meantime; and it must give
  the terminal back on every way out.


## 2. The modules

| Module | What it is |
|---|---|
| `RunContract` | abstract: the order of the events of one run and its result |
| `ProviderStream` | the producer task, channel and request token of one response, seen from the engine |
| `ResponseDecoder` | what either producer does with the bytes of the body; implements `ProviderStream` |
| `AgentLoop` | the engine: runs, rounds, batches of tools, cancellation; implements `RunContract` |
| `AgentLoopProofs` | that it does, cancellation, requests, session and events, proved |
| `SessionController` | the controller task and its clients, over `RunContract` |
| `SessionControllerProofs` | types, ownership, activity, replies, snapshots, the use of the contract, the stream of events, aborts and the end, proved |
| `SessionTree` | abstract: entries, leaf and labels under the operations of `Session`, with the branch, the context and the listing |
| `SessionStore` | the JSONL storage with its writes, failures, crashes and `open`; implements `SessionTree` |
| `SessionStoreProofs` | rootedness, caches and listing of the tree, the refinement, and what was acknowledged is kept, proved |
| `BashTool` | calls of bash with their threads, processes and channels |
| `BashToolProofs` | types, what a call leaves behind and its result, proved |
| `FileContract` | abstract: write and edit take effect at once or not at all |
| `FileTools` | write, edit and read with the mutation queue; implements `FileContract` |
| `FileToolsProofs` | types, locks, lost updates and the refinement of files, proved |
| `EditText`, `ReadPage` | the text algorithms of edit, read and truncation |
| `PromptSession` | the resources of a session and the expansion of prompts |
| `SkillDiscovery`, `TemplateText` | which skills are found, and what a template becomes |
| `CodexCredentials` | processes that share one login |
| `CodexCredentialsProofs` | types, kept logins and fresh tokens, proved |
| `Transcript` | the blocks that the Ratatui frontend makes of a run's events, over `RunContract` |
| `TranscriptProofs` | the order of a run's events, types, blocks, selection and size of the transcript, and the editor, proved |
| `InputEditor` | the multiline editor of the Ratatui frontend, its viewport and history |
| `TerminalGuard` | the modes of the terminal and how they are left |
| `CommandSystem` | slash commands as sequences of requests, over `SessionController` |
| `TuiFrontend` | the event loop of the Ratatui frontend, what it shows and honours, its command driver and its ways out |
| `LineFrontend` | REPL, single shot and the print driver |
| `Frontends` | the program: one of the two frontends with the controller |
| `FrontendsProofs` | what is shown, what is settled and the snapshots, in the whole program, proved |
| `MC*` | instances for TLC |

What uses what:

    RunContract <--implements-- AgentLoop --instance--> ProviderStream <--implements-- ResponseDecoder
       ^    ^
       |    \--extends-- Transcript
       \--instance-- SessionController <-- CommandSystem <-- TuiFrontend, LineFrontend
                                                             ^   |             |
                                          TerminalGuard <----|---/             |
                                                             \-- Frontends ----/
    SessionTree  <--implements-- SessionStore
    FileContract <--implements-- FileTools --> ReadPage, EditText
    PromptSession --> SkillDiscovery, TemplateText
    BashTool, CodexCredentials, InputEditor: on their own

### RunContract

The promise of the comments on `AgentEvent` and `Agent::run`: `RunStarted` first,
then progress and tools one at a time, then exactly one of `RunFinished`,
`RunAborted` and `RunFailed`, the last one exactly when the future returns
`Err`. Two modules meet in it. `AgentLoop` implements it
(`AgentLoop!KeepsContract`), and `SessionController` knows the run only through
it: its variables `runPhase`, `token`, `runLog`, `runResult` are those of the
contract, and the controller is shown to call the run as the contract allows
(`DrivesContract`). Tools are left out of the controller's view of the run
(`Calls <- {}`), since it forwards every event without looking at it.

### AgentLoop and ProviderStream

`pc` is where the future of the current run stands; a step ends where the code
awaits or reads the token. `append_user` is `run_allocated` up to
`RunStarted`; `request`, `starting`, `opened`, `recv`, `shutdown` and `joining`
are one provider request of `run_inner`; `batch`, `tool_start` and `tool` are its
loop over calls and `execute_tool`; `aborting`, `finishing` and `failing` are
`finish_aborted` and the two other ends. The producer, the tool, the forwarder
of its output and the canceller take steps of their own. Every append to the
session may fail. Message text is abstracted to the fact of a delta, tool
arguments to a number, and the messages of the session to role, calls and stop
reason. `DeepSeekItems` and `CodexItems` are what the two providers make of a
message on the wire, and `Sent` says that either carries its calls.

### ResponseDecoder

The server says frames; each becomes data and a separator on the wire, and the
connection delivers them in chunks that end anywhere, within a separator or a
character. The producer reads chunks, takes complete frames from its buffer and
turns them into events; calls are put together from pieces, by index (DeepSeek)
or by item (Codex). Codex opens a call with a field for its arguments, which may be
empty, hold all of them or be missing; in the last case the code starts from
`"{}"` (`Braces`) and appends what comes to it. The body may break off or end early,
and the token may be cancelled at each await. The two protocols share the
reading of chunks and differ in separators, in what a frame does and in what the
end of the body means. `KeepsStreamContract` says that all this is a producer of
`ProviderStream`, which is what the engine is checked against.

### SessionController

`pc` is where `run_controller` stands: `idle` (awaiting a request), `announce`
(between the reply to an accepted prompt and its events), `select` (the biased
select with a run active), `polling` (the run's future being polled),
`stopping`, `stopped`, and `aborted` for a task that was dropped. The bias is
modelled: `ForwardEvent` is possible only with no request ready, and `PollRun`
only with neither a request nor an event. While the run is polled it may emit
any number of events that fit into the channel, and pend. Clients await one
call at a time; a call is two steps, the check of the shared stop flag and the
send, because the task can stop in between. The request channel has 256 places;
with one outstanding call per client it does not fill, and its bound is left
out. The channel of frontend events is unbounded. `asked` is history for the
properties.

### SessionTree

The tree that `Session` builds in a storage that never fails, which is
`InMemorySessionStorage`. One action per operation; `move_to` with a summary is
two appends, so it is two actions with `owed` between them, and the second can
be refused. Entries that differ only in payload are of one kind. `Walks`, `Path`
and `Branch` are `get_path_to_root` and `get_branch`; `Context` is
`build_context`, which cuts the branch at the latest compaction; `Listing` is the
order of `/tree`. `append_compaction`, `build_context`, `move_to` and `clear` are
operations of the library that the program itself does not call.

### SessionStore

`append_entry` of the JSONL storage, step by step. The file is a sequence of
pieces (header, entries, newlines, torn writes). `append_json_line` writes the
JSON and then the newline to a `tokio::fs::File`, which answers a write as soon
as it is handed to the blocking pool and waits for it at the next write (this is
tokio's documented behaviour; the repository pins tokio 1.53.0). So the append
is acknowledged when the JSON has reached the file, and the newline is still
under way: it can arrive later than the next entry's JSON, or be lost with its
error. `create` writes the header the same way, but not in append mode. A crash
keeps what the file has, loses what is under way, and may tear the write in
progress. `Reopen` is `open`: it refuses a file with a line that does not parse,
and otherwise rebuilds entries, labels and leaf. Between a crash and `Reopen` the
tree's variables stand for what had been acknowledged.

### BashTool

Calls of `execute` follow each other, since a session's directory is handed from
one to the next. Six parties interleave: the future (`pc`: `loop` awaits the
select, `emitting` the room for a chunk of output, `dropping` is the `Drop` of
the guard that owns the threads), two readers, the thread that reaps, the shell
with a descendant that may outlive it or leave its group, and the forwarder.
Lines are abstracted to their kind: text, a line that is not UTF-8, and the line
with which the appended `echo` reports the directory, alone or glued to output
that did not end in a newline. Command, timeout and descendant are the
environment's choice. The exit code is that of the trailing `echo` where the
code makes it so, and a shell killed by a signal has none.

### FileContract, FileTools, EditText, ReadPage

`FileContract` says what write and edit promise: one step changes the file, or
none does, and what an edit writes is the text with the named, disjoint regions
replaced, described without the algorithm. In `FileTools` a call takes the lock
of its path, awaits, looks at the token, and writes in two steps, truncating
first; `before` is the text that a write in progress replaces. Read takes no
lock. The text work is that of `edit.rs`: byte order mark, line ends, exact then
normalised search, overlap and uniqueness, replacement from the back.
`ReadPage` is a page of `read.rs` with `truncate_head`, and the tail and its note
that `bash.rs` takes with `truncate_tail`. A character is one byte there.

### PromptSession, SkillDiscovery, TemplateText

`load_skills` walks the places in order, once for links resolved and collisions;
files are a disk that others change at any time between operations. `Candidates`
is the search of a place, with one ignore matcher for all its directories, so that
what is found depends on the order in which they are listed. Which entries a line
matches is a constant. The system
prompt is derived from skills, context files and the selected tools whenever the
code derives it. `InvokeSkill` and `InvokeTemplate` are `/skill:name` and
`/template arguments`. A template's body is a sequence of pieces that knows which
placeholders there are and where a cut by characters in a string of bytes matters;
the number of a placeholder has one digit, and a brace that is opened is closed.
`WordsInTheirPlaces` compares the result with what the words the user typed should
have become, said by their numbers. Names of skills have no blank: the code only
warns of one (`skills.rs:209`), lists the skill, and `/skill:` cannot name it.

### CodexCredentials

Every process has at most one thing under way: a refresh before a request, a
save, a login. The server takes each refresh token once. Saving truncates the
file and fills it. `lost` is history: logins that a step has dropped, which are
those of a crash, a cancelled run, an answer that got lost, a failed save and a
login over another.

### Transcript

`RunContract` is extended, and each event is reduced in the step that emits it:
events reach the reducer in order and complete, which is
`SessionController!EventsDelivered`. A block keeps its kind, call and state,
and for the properties a number and the runs whose text it holds. `Reduce` is
`handle_agent_event`; `Enforce` is `enforce_block_limit`, which drops the oldest
blocks and moves the positions in the tool index and the selection;
`FinishTool` and `ShowCancelled` add a block without a look at the limit, as the
code does. Between runs the user may select and messages of commands arrive.

### InputEditor

A text of narrow and wide characters and line ends, with a cursor, the preferred
column of vertical moves, the viewport that follows, and the history with the
draft that Up puts aside. A resize moves the viewport with it.
Byte offsets are counted in characters: the code takes them from `char_indices`.

### CommandSystem, TuiFrontend, TerminalGuard, LineFrontend, Frontends

A frontend is the controller's only client, so `Clients` is the singleton of it,
and the modules extend `SessionController`. A command is its sequence of
requests (one script per built-in command); `Remaining` says what an answer
leaves of it, `Begun` what happens without an argument, and `GivesUp` where it
looks at its token.

`TuiFrontend`: `at` is where `run_tui` stands, from entering the terminal
(`starting`) to the program's end. Its loop handles a key, awaits the answer if
the key made a request, and then drains the controller's events; a command is
driven in a loop of its own that reads keys but drains no events. So what it shows
(`ui`, `shown`) follows the controller with a delay. The draft is a Boolean:
whether there is something that Enter would submit. What the text is gets chosen
when it is submitted. A panic unwinds through the guard (`unwinding`).

`TerminalGuard` is the terminal and what the guard has entered of it. It enters
in order, undoes on a failure half-way, restores everything however single steps
fail, and restores once; `Join` is the explicit restoration, drop is the other.

`LineFrontend`: `standing` is where the REPL or its driver stands. One receiver
is shared by all drives, so a drive first sees what earlier ones left. A failing
output and an interrupt cancel the run, and the driver goes on until the run
has settled.

`Frontends` is `main.rs`: one of the two is started (the other's place stays
`"absent"`), with every step of the controller and its run in between. The
controller ends with the program.


## 3. The runs

| Run | States | Shows |
|---|---|---|
| `transcript` | 183 382 | what a consumer may conclude from the order of events (`StrictOrder`); the transcript shows the open call and mixes no runs (`BlocksFaithful`), and the selection stays on its block |
| `agent_loop` | 1 510 489 | the engine keeps the contract, cancellation takes hold and ends the run with no task left behind, requests carry the results they need, the session agrees with the events |
| `controller_life` | 293 023 | ownership and activity, delimited and complete events, shutdown, aborts, use of the contract; every call is answered and a cancelled run settles |
| `handles_gone` | violation | a run is never polled again once all handles are dropped (finding) |
| `session_store` | 951 401 | the JSONL storage implements the tree; what was acknowledged is kept; the tree is rooted, its listing complete, branch and context change only as asked |
| `frontends` | 569 695 | what is shown follows the controller; drives, commands and the terminal are settled when control goes back; snapshots are fresh; what the user waits for happens |
| `bash` | 456 041 | no thread or process is left behind, the result is what happened, and a call whose shell is gone ends |
| `file_tools` | 62 541 | write and edit are atomic and no update is lost, no lock leaks, pages, tails and edits are true to the text |
| `responses` | 1 209 982 | frames, text and calls come out as they were said, and the producer is one of `ProviderStream` |
| `prompts` | 136 512 | the first place wins, the prompt is current, a template is its text with the words in their places |
| `credentials` | 292 310 | a login is lost only where a step drops it, a token found fresh is accepted, calls settle |
| `editor` | 112 907 | the cursor is in view and finds its way back, edits are local, the draft survives the history |

Every property of a passing run has a mutant: a plausible mistake in one mapped
definition that makes TLC find the property violated. Several properties are
conjunctions of named parts that ask one question (`OwnershipTruthful`,
`ResultTruthful`, ...); the parts are stated and
commented next to each other.
Type invariants are stated in the modules; those that section 4 names are
proved, and the others say nothing that the properties would not.

Beside the listed runs there are configurations to try by hand: each of those
named in section 5 shows one further disagreement.

Bounds, and why they are enough:

- `transcript`: two runs, logs of seven events over two calls (a whole tool, a
  second one and the terminal event), seven blocks pushed into a transcript of
  three: a tool's block can be dropped while it runs, and a selected one too.
- `agent_loop`: two runs (what one leaves for the next), two rounds (the round
  limit, and a batch that is followed by a request), two calls per response
  (a batch that is cut short), one delta and one chunk of output, a stream channel
  with one place (so that the producer waits for room).
- `controller_life`: two clients with two calls and one, so a prompt, its
  cancellation and a shutdown or second prompt in every order; up to three runs;
  an agent channel with one place, so the run waits for the controller. The first
  client makes only the requests that decide the life of a run (the constraint
  `FirstAsksForRuns`), the second any request. What a client asks for is its own
  choice, of which no fairness is assumed, so the constraint takes nothing from
  the liveness properties but the behaviours in which it asks for more.
- `frontends`: four calls and two runs. One call is always kept for the shutdown,
  so three are left for prompts, cancels and commands; `/model` needs three. Two
  runs give a drive that sees the leftovers of an earlier one. Two models, so a
  switch changes something. At most one step of the terminal fails, and a panic is
  looked at before the controller has announced anything: what it unwinds through is
  the guard alone.
- `session_store`: three entries and two faults of any kind, so a crash after a
  failed write, or two crashes around an append. Identifiers are interchangeable
  (symmetry). They run out, so these runs may stop.
- `bash`: two calls (a directory changed by one is the start of the other), one
  line per call and pipe, channels with one place, so that readers, future and
  forwarder all come to wait; a descendant that holds the pipes, escapes or dies.
- `file_tools`: two calls on one file, six texts and nine lists of edits that
  between them meet every rule of an edit (repeated text, blanks, quotes, CR LF,
  mixed line ends, byte order mark, neighbouring and overlapping regions) and every
  way a page can end: two lines or four bytes, the agent's limit, an overlong line.
- `responses`: two deltas of text (so that order matters), two calls of two pieces each
  (so that a call may be half said, and the pieces of two may alternate), up to four
  frames of any kind, or seven of calls and the end: two whole calls for DeepSeek,
  one in pieces and one in its field or without arguments for Codex, in any of the
  protocol's orders; a frame is said while at
  most one unit is on the wire, so a chunk may end anywhere in a frame or reach
  into the next; a channel with one place.
- `prompts`: a user directory, a project directory with an ignore file that names
  a file twice and a subdirectory with one that reaches into its sibling, and a link
  from one place to the other; two changes by others. Four bodies with each kind of
  placeholder, among them number 0 and numbers beyond the last word, and five lists
  of up to three words with blanks, quotes and an empty word.
- `credentials`: two processes, one of them with a token in its environment,
  three credentials: the first, a refreshed one and a login's.
- `editor`: three characters in the text, two in the history, two terminals with
  room for two or three columns and one or two lines.

Fairness. The runtime polls a task that was woken, so the run's future, the
forwarder and the controller's task are weakly fair. A producer that was
cancelled returns, since each of its awaits selects on the token. A tool that
was cancelled returns: `AgentTool::execute` asks this of its implementations, and
`BashTool!CallEnds` shows it of the one that could fail to. A client between its
check and its send goes on. Nothing is assumed of a provider or a tool that was
not cancelled: each may stall for ever. In `SessionController` the run, once
cancelled and polled again and again, starts and ends (strong fairness, since it
is enabled only while it is polled); this is what `AgentLoop!CancelEndsRun` shows
of the engine. In `Frontends` the frontend's own steps are weakly fair: the TUI
polls the terminal with a timeout, and the driver's select takes what is ready.
Nothing is assumed of the user or of the output. In `BashTool` the future's
branches, the threads and the forwarder are weakly fair; the branch that sees the
token is strongly fair, because the select is unbiased and picks at random among
what is ready, while output may make it come and go. Nothing obliges the shell
or a descendant to end, or a timeout to be set. In `CodexCredentials` a process
goes on, a request gets an answer or an error, deadlines pass and a callback that
does not come times out; nothing is assumed of the user who logs in, and nobody
has to age. The other modules state no fairness and no liveness.


## 4. What is proved

All proof modules follow one pattern: an invariant that is inductive, `Init`
implies it, every step keeps it, and the theorem follows by temporal reasoning.
Nothing is assumed beyond the assumptions that the modules name, so the theorems
hold for any clients, requests, calls, processes, entries and bounds. Where a
theorem states a property of a run, the run shows it on a small instance and has
a mutant that breaks it.

- `AgentLoopProofs`, from `LoopAssumption`: any number of runs, rounds, calls and
  chunks.
  - `LoopTypes`, with `Typed`: which counters, flags and producers go with which
    place of the run;
  - `LoopKeepsContract`: the engine implements `RunContract`. Besides `Typed` it
    takes `LogPlace`, which ties the last event of the log to the place: the log
    is empty until the prompt has been appended, a tool is open in the log exactly
    while one is executed or an append for it has failed, and only a run whose
    token is set is on its way to `RunAborted`;
  - `LoopStrictOrder`: the order of events. It is not looked for in the loop: the
    contract's own invariant (see `TranscriptProofs`) is kept by every step of the
    contract, and each step of the loop is one;
  - `LoopCancelTakesHold`: once the token is set at most one more tool is started,
    and no task outlives its response or tool. `CancelPlace` adds that a run that is
    about to start a tool whose check came before the token has started none since:
    this is the one that the property allows;
  - `LoopRequestsCarryResults`: `SessionPlace` says what the run's messages look
    like at each place, in a batch that the calls left over are those that have no
    result yet;
  - `LoopTranscriptMatchesEvents`: results in the session and finished tools in the
    log are the same, in order, up to the last append, which may fail after its
    event was sent (`MatchPlace`).

- `SessionControllerProofs`, from `ControllerAssumption`:
  - `ControllerTypes`: type correctness, which includes that the agent channel
    never holds more than its capacity;
  - `ControllerOwnershipTruthful`, from `ControllerOneOwner` and
    `ControllerActivityTruthful`: the session is owned by the run exactly while
    one is active, and the reported activity is true. They are inductive with
    `PlaceOfRun` and `ActivityOfPlace`, which tie the place in `run_controller`
    to the phase of the run and to the activity;
  - `ControllerDrivesContract`: every step of the composition is a step of
    `RunContract` or leaves the run alone; with what `TranscriptProofs` shows of the
    contract this carries the order of events to whatever the controller forwards;
  - `ControllerCallsAreHeld`: a caller that awaits is in the queue or among the
    shutdown replies, in one of them, once;
  - `ControllerCacheFresh`: snapshots agree with the session (the property that
    `frontends` checks);
  - `ControllerEventsDelivered`: what a frontend receives. `StreamInv` says of all
    events sent so far, and of those that wait in the agent's channel, that runs
    are numbered in order, that every event of a run follows its prompt with
    nothing of another run between, that a run's terminal event is yet to come, in
    the channel or forwarded, and never two of these, and that messages between
    runs find every run before them ended. Whether the event in the channel is
    still to be forwarded is what ties the stream to the place in `run_controller`;
  - `ControllerOnlyAskedRunsAbort`: a run is reported aborted only after someone
    asked for it or for shutdown; it is inductive together with the same of the
    events that wait in the channel, on `StreamInv`;
  - `ControllerEventsOrdered`, with `StreamOrder`, which is what a frontend that
    follows the stream relies on: when a prompt is announced or refused, or an error
    is reported, every run announced before has ended; a run emits nothing behind
    its end; runs are numbered upwards; an error comes behind a prompt with no other
    between. It needs that the end of a run is the last of its log (`LogEndsRun`),
    and that the task knows of an end that it has forwarded;
  - `ControllerShutdownAnsweredLast`: after a caller has been told of the shutdown,
    nothing more is sent (`EndInv`);
  - `ControllerBusyMutatesNothing`: an action property, while a run is active no
    request changes the model or the context of the session, and no caller is told
    that it did.

- `SessionStoreProofs`, from `StoreAssumption`: for any number of entries and
  faults, crashes and torn writes included,
  - of `SessionTree`, which the module looks at as the tree of the store, the types
    and `TreeIsConsistent`, from `TreeIsRooted` and `TreeCachesPointAtEntries`. The
    last two need each other: a move hangs its entry below the cached leaf, a
    summary below what `move_to` owes, and both must be entries (or, for a
    summary, the root's name);
  - `StoreImplementsTree`: each step of the storage is one of `SessionTree` or
    leaves its variables alone; `StoreTreeConsistent` follows with the theorems of
    the tree;
  - `StoreAcknowledgedKept`: a file that opens holds what was acknowledged, in
    order, and at most the one entry whose append was under way;
  - `StoreEveryEntryListed`: `/tree` lists every entry exactly once. The listing is a
    recursive function, from the last entry to the first; `ListingRows` shows that it
    exists and what its rows are, and `ListedFrom` says of row `j` that the entries
    from the `j`-th on are in it, each once and below an entry before the `j`-th.
    `HangLists` carries that from one row to the next, by the rootedness of the tree.
    The induction is by a least counterexample (`LeastOf`, from `WFMin`, which takes
    a set and no operator). The listing is then injective and onto the entries, and
    so no longer than they are.

  The invariant adds to that of the tree what the append under way is
  (`JobStands`: an entry that the tree would take now), that labels and leaf are
  those that `open` would read (`CachesReplayed`), and what a file without a torn
  piece holds at each place (`FileTells`: the entries, and the one under way from
  the moment it is written; after a crash, with or without it). The entries of a
  file and the labels of entries are defined by the places they stand at, not by
  selection and folding, so that they can be reasoned about.

- `TranscriptProofs`, from `TranscriptAssumption`, first of `RunContract`: the
  properties of a run's events (`ContractStrictOrder` and the parts it is made of),
  for any set of calls and logs of any length. `LogFollowsPhase` is what has to be
  added: the log is empty before `RunStarted`, and the open call is the one the last
  event is about. Then, along the steps of the contract,
  `TranscriptBlocksFaithful`, `TranscriptSelectionStays` (an action property) and
  `TranscriptBounded`, the limit that `enforce_block_limit` keeps. A good transcript
  (`Good`) numbers its blocks upwards without a gap, has its index and its
  selection at blocks of the right kind, and mixes no runs; `Dropped` and `Grown`
  relate a transcript to the one before, and each event of the run is such a
  change. `ToolsShown` says which call the index must know, `EndsWith` that the
  last block is of the run that is going on, and `Fits` how many blocks beyond
  the limit the two additions without a look at it can make.

  The same module proves the editor, from `EditorAssumption`, for any characters,
  texts of any length and terminals of any size: `EditorCursorPlaced`,
  `EditorEditsStayLocal` and `EditorDraftKept`. In `EditorInv` the strengthening is
  `Settled`: a preferred column is kept only while the cursor stands at the furthest
  place of its line that this column allows, so that a move back finds the same
  place. It rests on lemmas about lines (a place is in one line, and line numbers
  count the line ends before it), about widths, which grow with every character,
  and about beginnings and ends of texts. The wrapped lines are recursive functions,
  and `Walked` shows, by the least length without one, that such a function is what
  its definition says.

- `CodexCredentialsProofs`, from `CredentialAssumption`: `CredentialsLoginKept` (a login
  that the server still honours is in the file or in the hands of a process, or one
  of the named steps has dropped it) and `CredentialsFreshTokenAccepted`. Types say
  here that whatever a process is about to save was granted to it (`AnswersPlaced`);
  `FoundFresh` says that a token found in the file had a minute left when it
  was looked at, and has not aged more than that since.

- `BashToolProofs`, from `BashAssumption`: any number of calls, lines and places in the
  channels.
  - `BashNothingLeftBehind`: `LeftInv` says what a call owns at each place, in
    particular that its group has been killed before anything is dropped, and
    that the shell is reaped once the reaper is done;
  - `BashResultTruthful`: what was shown is the beginning of the output
    (`ShownInv`); each line that was written is in a pipe, in the channel, held
    for want of room or in the output, in order (`FlowInv`); only a shell that has
    ended has named its directory (`Reported`), and the exit code on its way is
    that of a shell that was waited for (`TellInv`). The attempt at this proof found
    that `Outcome` was a `CASE` whose guards overlapped, which says nothing of which
    one is taken; it now has the order of the code.

- `FileToolsProofs`, from `FileAssumption`: any number of calls and files.
  - `FileLocksAreReleased`: a call is in the queue of its file exactly while it
    has asked for the lock and not left, once, and the one that works is the
    first (`QueueInv`);
  - `FileNoUpdateLost`, the step to the refinement: what a call has read, it still
    finds when it writes, and what it has computed is an outcome that the tool
    allows for it (`WritesStand`). No other call can write in between, since the
    writer is the first of the queue;
  - `FilesKeepContract`: every step of `FileTools` is one of `FileContract` or leaves
    it alone. Its hypothesis is `EditsFaithful`: what `apply_edits` makes of a text
    is what replacing the spans at once gives. That speaks of folds and of
    recursion over texts, and TLC checks it for all texts and edits of the run.

- `FrontendsProofs`, from the assumptions of the controller and the frontends and from
  `RequestsAssumption` (the frontend's requests are among those the controller is
  given): the whole program, for any models, prompts, runs and channel capacity.
  The invariant is `ProgramInv`: of the controller everything that its proofs have
  (`ControllerInv`), that there is one frontend, and of each of the two where it
  stands and what it knows.
  - `FrontendsShownTruthfully`, by `ViewFollows`: an activity of the agent is shown
    exactly from the announcement of a run to its end among the events *drained so
    far*. With the order of the stream, a run that is shown and no longer active has
    its end among the events yet to be drained;
  - `FrontendsSettled`: `TuiPlaced` says that a command which has ended has no call
    under way, `TerminalPlaced` which modes the terminal has on each way out, and
    `LinePlaced` and `DriveFollows` that a line frontend which is not driving leaves
    no prompt in the queue and no run active, that a driver has seen the end of its
    run exactly when it is among the events consumed, and that an error of the
    controller yet to be consumed can only be found by a driver behind the end of
    its run, so that it never takes one that is not its own;
  - `FrontendsCacheFresh`, `FrontendsTypes`.

  Steps of the controller and of the frontend interleave freely. What a step of the
  controller may do to a frontend is said once (`StepAppends` of the events it adds,
  `NoRunBegins` and `NotAccepted` of the run and the answer), and the proofs about a
  frontend use only that.

Only model-checked:

- liveness (`CancelEndsRun`, `CallsAndRunsSettle`, `AwaitedHappens`, `CallEnds`,
  `CallsSettle`), which is out of the prover's reach;
- `BranchGrows`: the context is filtered with `SelectSeq`, of which the prover knows
  nothing, and the branch it is filtered from is defined by recursion over parents;
- what the recursive functions on texts compute for every input (`EditText`,
  `ReadPage`, `TemplateText`, `SkillDiscovery`);
- what edits, pages and tails make of texts (`TextsAccountedFor` of `FileTools`);
- for now, the properties of `ResponseDecoder` and `PromptSession`.


## 5. Findings

`handles_gone`: with a run active, dropping every handle makes the closed request
channel win every turn of the biased select. The run is never polled again, and
the task spins (`session_controller.rs:569`). `PROJECT.json` quotes the text that
the code disagrees with.

Further disagreements, each shown by a configuration that TLC finds violated. They
go with the modules `MCSessionController`, `SessionTree`, `MCSessionStore`,
`BashTool`, `MCResponseDecoder`, `CodexCredentials` and `MCInputEditor`, in the order
of the table.

| Configuration | Property | What it shows |
|---|---|---|
| `MCControllerFailureReported.cfg` | `FailureReportedOnce` | `terminal_seen` is read before the channel is drained, so a failed run yields `RunFailed` and a `ControllerError` (`session_controller.rs:599`, `616`) |
| `MCSessionTreeNoBranch.cfg` | `EveryLeafHasABranch` | `move_to(None, Some(summary))` hangs the summary below `"root"`, which is no entry; from then on the session has no messages (`session.rs:107`) |
| `MCSessionStoreJoined.cfg` | `OneEntryPerLine` | lines are not flushed, so two entries can end up on one line, and the session cannot be opened (`jsonl.rs:133`, against 6-7) |
| `MCBashToolDropFinite.cfg` | `DropIsFinite` | dropping a call waits for its readers, and a descendant that has left the group and holds the pipes keeps them, though the comment on `Drop` says that both joins become finite |
| `MCResponseDecoderRemaining.cfg` | `RemainingCallsEmitted` | calls left when a body ends without a finish reason are not emitted, though the comment says so (`deepseek.rs:490`; the flag at 493 is still unset) |
| `MCCodexCredentialsEnv.cfg` | `EnvTokenFirst` | a stored credential is used before `OPENAI_CODEX_TOKEN` (`openai_codex.rs:238-258`, against 69-72) |
| `MCInputEditorDelete.cfg` | `DeleteDeletes` | Delete before the last character does nothing (`next_boundary`, `app.rs:178`, against `docs/tui.md:26`) |

Met while modelling, and modelled as the code has it:

- engine: a transport error of DeepSeek ends the producer without an `Error`
  event, and the run finishes as if the response had stopped normally
  (`deepseek.rs:349`, `387`); a Codex body that ends without `completed` sends no
  `Done`. A response that stops for tool use without a call asks again with an
  unchanged history until the round limit. Calls of a response that stopped at
  the length limit, and those of a batch that was cut short, stay in the session
  without results.
- DeepSeek text is torn where a chunk ends within a character; arguments that do
  not parse become the empty object (DeepSeek), or the call is dropped (Codex).
- a Codex call whose arguments field is missing and whose arguments come afterwards
  is dropped, since they are appended to `"{}"` (`openai_codex.rs:428`, `461`); the
  response still ends in ToolUse, because `has_tool_calls` is set before the
  arguments are parsed (474). `CallsFaithful` allows this for these calls (`Spoilt`)
  and for no others.
- bash: the exit code is that of the trailing `echo`; a shell killed by a signal
  is reported as a success; a report glued to output stays in it and the directory
  is not followed; a line that is not UTF-8 ends its reader; whether a background
  process survives the call depends on which of two branches sees the end first.
- files: a fuzzy edit normalises the whole file; two names of one file take two
  locks; a read may see a file that is truncated and not yet filled. A read with
  limit 0 is told to continue where it was. Occurrences are counted without those that
  overlap an earlier one, so an old text may occur twice and pass as unique
  (`edit.rs:137`, against 20); `UniqueAt` counts the same way. The note under a tail can say "lines
  1-N of N" when only the last newline was too much.
- prompts: the first ignore line that matches decides, also against a later
  negation; the lines of a subdirectory stay in force for the siblings that are
  searched after it, and one with `**` matches in those whose name begins like its
  own (`skills.rs:451`, `320`), so that the order of a listing decides what is loaded;
  an empty word in quotes is lost and the words behind it move up, though the parsing
  is to be bash-style (`prompt_templates.rs:60`, against 42-44), so that the default
  for an empty argument (126) is only reached by a missing one; a skill is read again when it is invoked; an unknown `${...}` does not
  stay literal (`prompt_templates.rs:158-159`).
- credentials: a run cancelled during a refresh loses the rotated token; errors of
  a save after a refresh are ignored; the requests of a login have no timeout.
- TUI: the activity shown lags behind the controller, and Enter clears the draft
  before the prompt is answered, so that a prompt refused as busy is gone
  (`tui/app.rs:725`, against `docs/tui.md:13`); the property `BusyKeepsDraft` of
  `TuiFrontend` says what the text promises. Ctrl+C does nothing while the
  transcript has the focus (`app.rs:585-604`, against `docs/tui.md:28`); the
  status line keeps the model of the start after `/model` (`app.rs:501-504`); the
  message of a cancelled command does not enforce the block limit
  (`app.rs:771-785`). The terminal stays in raw mode while the program waits for
  its controller.


## 6. Not modelled, and what is left

Left out for good: rendering and wording, the parsing of the command line, HTTP,
URLs and schemas, PKCE and the parsing of tokens, images, the diff that an edit
shows, front matter and glob matching of skills, the choice of a session file at
start-up, the test doubles; two processes that write the same session file. The
history that a provider accepts is the provider's affair, so a batch that was cut
short is followed within its own run only. Of the TUI: scrolling (its position is
kept from the bottom, and a row beyond 65 535 wraps), the snapshot asked for at
start-up, and the focus. Messages keep role and calls, not text.

The controller knows of `PromptSession` only that a prompt expands or is unknown,
that a context file is added and that a model is switched; `PromptSession` looks
at what these do. `AgentLoop` has one tool for all, which may be any of those that
have modules.

Next, in this order:

1. `PromptIsCurrent` of `PromptSession`, and that `ResponseDecoder` is a producer of
   `ProviderStream`.
2. Scrolling of the transcript, and the focus.
