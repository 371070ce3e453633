# A TLA+ verification project for CardMind

CardMind is ESP32-S3 firmware (`src/firmware/CardputerAssistant`) for a pocket
assistant: chats and projects on a microSD card, a model that may call tools
after the user confirms them on the device or in a browser, SSH sessions and
transfers, speech, and a second firmware image, MicroPython
(`src/micropython`), that runs approved scripts and installs updates. This
directory holds TLA+ models of what it keeps and in which order it changes it,
TLC configurations that check them on small instances, and proofs that TLAPS
checks for every instance.

Paths below are relative to `src/firmware/CardputerAssistant/src` unless they
end in `.ino` or start with `micropython` or `docs`.

## 1. Inventory

### How the system runs

* One Arduino loop runs everything in CardMind: the screen, the keyboard, the
  web server's handlers and the HTTP calls. The only other tasks are the SSH
  worker of `web_console.cpp` and the speaker's task of the M5 library. So
  little interleaving of threads exists; what does exist is **interleaving in
  time**: a handler ends, a reset comes, another image boots, a handler of
  another screen reads what the first one left. Non-blocking calls of libssh2
  are the third kind: between two of them the user may cancel, and the server
  may still carry out what was asked.
* Two firmware images share the flash and never run together. They talk through
  NVS (`cardmind_py`), fixed files on the card, and the selected boot partition.
* All durable state is either an NVS value (one key is atomic, two are not) or a
  microSD file on FAT. A reset or loss of power can fall between any two effects
  on either, and any call can be refused (card removed, replaced, full).

### Components

| component | state it keeps | operations | what makes it hard, what makes it correct |
|---|---|---|---|
| `sd_storage` | one file with `.tmp`, `.bak`; volume identity; JSONL index files | atomic write, recovery, copy, removal of trees | power loss between renames; the reader must see the previous or the next document, never neither |
| `project_chat_storage` | per chat: append-only history, bounded tail, metadata, pending-append marker, draft | append, clear, save, delete, page, load with recovery | one append is seven effects on five files; all or nothing after recovery |
| `project_storage` | projects, chat and project index, counters, links, the active project | create, edit, duplicate, delete, link, select | each fact is on the card twice or three times; every start compares them and closes storage when they differ |
| `storage_migration`, legacy `chat_storage` | legacy chats, manifest | staged migration, validation | interrupted at each step; nothing lost, nothing twice |
| `project_bundle` | none of its own | export, import | partial import |
| `file_workspace` | Shared files, bookmarks | write, append, edit, upload, copy, rename, delete, undo | many writers, one protocol; a link must not outlive its file |
| `pending_tool_call` | one record `pending_tool.json`; `resumablePendingIdThisBoot` in RAM | build, save, claim, revalidate, deny, refuse, clear | what runs is exactly what was shown; nothing runs twice |
| `tool_router`, `tool_policy`, `tool_catalog` | none (policies in NVS, project, chat) | plan, route, approve | each refusal must leave the record in a state some later step accepts |
| `tool_activity` | two journal generations, sequence numbers | start, finish, finish persisted, load recent, rotate | a finish must meet its start after rotation and after a reset |
| `api_client` | message list of one completion, staged request | tool loop, streaming, retries | what is shown is all of the answer; required tools really ran |
| context (`text_utils`, `CardputerAssistant.ino`) | window in RAM, summary and its count on the card | fit, drop, summarize, regenerate | counts that drift from what was summarized |
| `python_mode` | NVS `cardmind_py` | stage, recover, finalize, clean up | the boundary between images |
| MicroPython `boot.py`, `cardmind_supervisor.py` | the same namespace and files | one-shot run, manual workspace, CardMind update | never replay; always come back; never select half an image |
| startup recovery (`CardputerAssistant.ino`) | none of its own | `consumePythonRunAtStartup` | must accept each state a reset can leave |
| `ota_update` | staged image, request in NVS | check, download, verify, stage | a failed or unverified image must not be run |
| `provider_profiles` | two generations of records per profile in NVS | create, update, default, delete, migrate, provision | multi-key changes without a transaction |
| `storage`, `provisioning`, menus | NVS settings | device menus, Wi-Fi picker, web settings, portal | several copies, several editors |
| `ssh_client` profiles and keys | NVS values by position | save, delete, select, install key, migrate | secrets of one profile must not reach another |
| `ssh_client`, `sftp_tool` transfers | request on the wire, staged remote file | upload, write, move, download | cancelation races the server's answer |
| `web_console` SSH worker | shared client, flags under a mutex | the task and its handlers | the true concurrency |
| `web_console` session | token, times, failures | login, lockout, expiry, logout | a clock that wraps |
| `voice_input`, `stt_client`, `tts_client` | `/voice.wav`, `/tts.pcm`, three buffers | record, transcribe, speak, pause | retries and a buffer the speaker still plays |
| `SerialDiagnostics.ino` fixtures | ownership records, files, trust, projects | set up, verify, clean up | must remove all that is theirs and nothing else, after any reset |
| `crash_journal`, `ui`, `web_search_client`, `document_reader`, `offline_tools`, text and TLS helpers | a log, or nothing | I/O and pure functions | - |

`PROJECT.json` lists every component with its sources and status.

### Interactions

A prompt is stored by `project_chat_storage`, cut to the context budget, and
sent by `api_client`; a tool the policy wants confirmed becomes a record of
`pending_tool_call`. Approval (device or browser) goes through `tool_router`,
which claims the record, writes the activity journal and either runs the tool -
on a Shared file of `file_workspace`, over an SSH profile of `ssh_client` - or,
for `python_run`, lets `python_mode` stage a request and restart into
MicroPython. The supervisor runs the script, leaves a result and restarts into
CardMind, whose startup finishes the activity, attaches a message to the chat,
and clears run value, record and files. Every file involved goes through
`sd_storage`; every request uses the default profile of `provider_profiles`,
whose revision is part of what a pending call is bound to.

### How the modules follow these lines

| module | takes for a step what is modelled in |
|---|---|
| `PromptTurn` | a request to the model (`Completion`), a chat write (`ChatHistory`), the record's replacement (`AtomicFile`) |
| `OneShotRun` | the record's replacement (`AtomicFile`), the journal's line (`ToolActivity`), an append (`ChatHistory`) |
| `ChatHistory` | metadata, marker and index (`AtomicFile`), the index with its rollback (`ProjectStore`) |
| `ProjectStore` | a document (`AtomicFile`), a chat's history (`ChatHistory`) |
| `Workspace` | recovery and bookmarks (`AtomicFile`) |
| `DeviceSettings` | the update of the API profile (`ProviderProfiles`) |
| `UnicodeFixture`, `CardFixture`, `SharedFixture` | the ownership record and the project index (`AtomicFile`) |

What justifies a step is in each case a property checked of the module named:
`ImplementsRegister`, `ImplementsChatLog`, `IndexesAreTrue`, `ProfilesAreAtomic`.

## 2. What is modelled

Common to the modules: one action is one durable effect with every in-memory
check before it, so a reset falls between any two effects; a refusal is an
action of its own with what the error path undoes; variables marked *history*
in a module record what happened, for its properties. A formula that is no property of a run but that a
reader would expect, because a document states it, is kept beside the ones that
hold, see section 5.

### `AtomicRegister`, `AtomicFile`: one file on the card

`AtomicFile` is `writeAtomicJsonSdFile`, `commitAtomicSdFile`,
`removeSdFileIfPresent` and `recoverAtomicSdFile` of `sd_storage.cpp`, one
action per call on the card. State: the three names (`target`, `bak`, `tmp`),
the next call (`pc`), and the C++ locals that survive a call (`goal`,
`hadTarget`). `tmp` can be `Torn`: writes, flush and close report nothing. A
removal is `clearPendingToolCall`. `Crash` is possible in every state, `Refuse`,
`RefuseEarly` and `CommitRollback` are the error paths, told apart by what each
of them undoes. `AtomicRegister` is the abstract promise: a register that an
operation either changes to the requested document or leaves, at a moment
between request and answer; a crash ends the request without an answer. The
refinement mapping reads the register as `Recovered`, what
`recoverAtomicSdFile` would make of the card.

Assumed of the card: `rename` and `remove` are indivisible and durable when they
return.

### `OneShotRun`: one approved Python script through two images and a chat

`pc` names the next durable effect of whichever image runs. Each action is one
durable effect with every in-memory check before it; so a reset falls between
any two effects. The variables are the durable state
(`pend`, `frozen`, `run`, `sd`, `openWeb`, `boot`, `audit`, `chat`, `source`),
the RAM id `approvable`, and two history variables (`exit`, what a result says;
`launches`, how often a script was started).

| actions | code |
|---|---|
| `Ask`, `Approve`, `Deny`, `Acknowledge`, `ReplaceTerminal`, `ClearPending` | `pending_tool_call.cpp`, handlers of `web_console.cpp` and `CardputerAssistant.ino` |
| `Prepare` ... `SelectPython`, `Cancel`, `StagingRefused` | `approvePendingProjectToolCall` (`tool_router.cpp`), `stagePythonRun` (`python_mode.cpp`) |
| `Reply`, `ReplyRefused` | `continuePendingToolDecision`, `continueWebPendingDecision` |
| `EnterManualPython`, `AcknowledgeWeb` | `activatePythonMode`, `acknowledgePythonHandoffRequest` |
| `PreselectCardMind`, `Claim`, `Execute`, `WriteResult`, `PublishResult`, `CompleteRun`, `SupervisorRefused` | `_execute_one_shot`, `_persist_result`, `boot.py` |
| `Startup...`, `Attach...`, `MarkWebReturn`, `EraseRun` | `consumePythonRunAtStartup`, `finalizePythonRunHandoff` |

Abstracted: a document is the id of the call it belongs to, or `Torn`; size and
SHA-256 of the script are the script's version; messages carry only which text
they are. Writes of `pending_tool.json` are one step because `AtomicFile` proves
that they are. The chat is one sequence. Calls of other tools are not in this
module: only one record exists at a time, and those tools end within a boot.

### `ChatLog`, `ChatHistory`: the five files of a chat

`project_chat_storage.cpp` keeps a chat in `history.jsonl` (every message,
append-only), `tail.jsonl` (the last messages, the model's context),
`chat.json` (count and revision), a line in the project's index, and, during an
append, the marker `append.json`. `ChatHistory` has one variable per file; `pc`
is the next durable effect of the operation in progress (`op`).

| actions | code |
|---|---|
| `Start`, `Recover`, `Check` | `recoverPendingAppend`, which every operation starts with; then the reads that decide what it does (`loadProjectChatMetadata`, `readProjectChatMessages`, the preflight of an append) |
| `StoreMarker`, `StoreHistory`, `StoreTail`, `StoreMeta`, `StoreIndex` | the effects, in the order `Following` gives for append, recovery, clear, save and the rebuilding of a missing tail |
| `AppendRejected` | `updateTailAfterAppend` reads the appended records back |
| `FlushShort` | every write succeeded, the file is shorter |
| `Interrupt` | a reset, or a refused call that ends the operation with its error |

A line file is its records and how its last line ends: with a newline, without
(`open`), or cut (`torn`); `joined` says that some line holds two records, `away`
that the file is under its `.bak` name (readers of these two files do not call
`recoverAtomicSdFile`). Metadata, marker and index line change in one step, as
`AtomicFile` proves; the index and the project's counters are one step here
(`ProjectStore` has their parts). The tail limit counts messages; the code's second
limit, on bytes, would only shorten the window. `faulted` records which faults have happened, so that
one run checks what holds under all of them and what holds without some.
`Faults` says what may be left
half done: `tornAppend` (a prefix of the appended bytes after a refused write or
a reset), `shortFlush` (`File.flush` and `File.close` report nothing),
`cutClear` (a clear stopped between two files).

`ChatLog` is the promise: an append adds all of its messages or none, a clear
removes all or none, and what is reported successful took effect once. The
mapping reads the log from the history file, without the records of a marked
append that is there in part: those no reader can reach, because
`recoverPendingAppend` refuses.

### `ToolActivity`: the journal of tool runs

`tool_activity.cpp` writes one line when a tool starts and one when it ends, into
two generations of a file. State: the two files, the RAM of the module (`next`,
`initialized`, `active`), the run value in NVS that outlives two restarts (`owed`,
the terminal line the startup will have to write), the append in progress
(`op`, `pc`), and three histories: what was reported as written (`begun`, `ended`)
and which faults have happened (`faulted`).

| actions | code |
|---|---|
| `Initialize`, `StartupRefused`, `Recover`, `Settle` | `setup` and `consumePythonRunAtStartup` (`CardputerAssistant.ino`), `initializeToolActivityJournal`, `finishPersistedToolActivity` |
| `Start`, `Finish` | `executeAuditedToolCall` (`tool_router.cpp`), `startToolActivity`, `finishToolActivity` |
| `HandOff`, `HandOffAmbiguous` | `approvePendingProjectToolCall` when `stagePythonRun` succeeded, or failed with the run value stored |
| `Remove`, `Rename`, `AppendLine` | the effects of `rotateBeforeAppend` and `appendActivity` |
| `AppendShort`, `AppendRefused` | an append that is shorter than reported, or refused |
| `Crash`, `Restart` | a reset at any effect; the user restarts an idle device |

Each line counts as one against `MaxLines` (the code counts bytes); a missing file
is the empty one; sequence numbers are bounded, so their exhaustion at 2^64 is
left out. The status of a terminal line stands for all it reports. `Callers` are
who may start a tool: `prompt` is every chat request, all of which are refused
while a pending record exists, so while a run value does; `toolTest` is the serial
diagnostic `TOOLTEST`, which does not ask. `OneShotRun` takes for granted that the
journal accepts the end of a run; this module says when it does.

### `PromptTurn`: a question, its tool calls and their confirmation

A prompt is stored, sent, answered in rounds; a call that needs the user's
confirmation becomes the one record on the card and the request ends. Both
surfaces are here, as a parameter of the task, because they share the record and
the chat but keep their own `context` and offer different ways out.

| actions | code |
|---|---|
| `Submit`, `Retry`, `Request`, `Failed` | `submitPrompt`, `requestPendingPrompt` (`CardputerAssistant.ino`), `handlePrompt`, `handlePromptRetry` |
| `Plan`, `Refuse`, `Run`, `Written`, `Executed`, `Audited` | `resolveChatToolRequestPlan`, `routeProjectToolCall`, `executeAuditedToolCall` (`tool_router.cpp`) |
| `Confirm`, `Approve`, `Deny`, `ClearRecord`, `Current` | `pending_tool_call.cpp`; the record is claimed before the tool runs |
| `Offered`, `Refusable`, `Execute`, `Permitted`, `Dismissible`, `AllowForChat`, `Acknowledge` | what each surface offers for a record and does about it |
| `SetPermission`, `ClearChat`, `Rename`, `ChangeTarget`, `ChangeProvider` | what the user may do while a call waits: each changes something the call was bound to |

Abstracted: two classes of tools, "write" (replaces a file) and "ssh"; what a
tool acts on is a version; a layer of permissions is Off, Ask, Allow or Inherit.
A pending call blocks every prompt. The web console has a way out of each
(`WebHasAWayOut`), the device of all but one kind (`StuckOnlyByProfile`; section 5, 9), which was asked
on the device and which the web console can dismiss.

### `Completion`: one answer of the model

`api_client.cpp` from the question to the answer: the request staged in
`/assistant/model-request.tmp` and posted from there, the event stream, the
retry of a failed attempt, the calls between rounds, the repeated request when
the model has not used a tool the question requires, and the continuation after
a confirmation. A piece of text is named by its turn and its place, so a piece
shown twice, out of order or by a failed turn can be told. Network, server,
model and the user's cancelation may strike anywhere.

| actions | code |
|---|---|
| `Begin`, `Stage`, `StageRefused`, `NoMemory`, `Post`, `NoAnswer`, `Retry` | `requestCompletionTurn` with its staging and its attempts |
| `Text`, `CallPart`, `DoneLine`, `Lose`, `Close`, `Judge` | `SseStream` and what `WholeTurn` accepts as a turn |
| `Cleanup`, `TurnFailed`, `AskAgain`, `Answered`, `NotEnough`, `TakeUp` | the end of a turn in the tool loop |
| `Run`, `RunFailed`, `Await`, `Resume`, `Dismiss` | the call's execution, or the way over a pending record |

The server is taken to send nothing behind `[DONE]`. True of the code, and no
contradiction to `AnswersAreWhole`: text that arrives behind an error in the
stream is shown although the turn fails; a cancelation in the middle of a line
may be reported as malformed JSON; an answer is given up when its staged request
cannot be removed; the answer after a confirmation is only the text behind it.

### `ContextWindow`: what of a chat a request carries

`log` is the raw history, `counted` and `covered` what the summary's count says
and what the summary was made from, `window` the device's copy of the tail.
`Fit` and `Dropped` are the operators of `text_utils.cpp` on sizes.
`SubmitPrompt`, `Retry`, `Resume`, `Fail`, `Answer`, `RegenerateSummary`,
`ActivateChat`, `ClearChat` and the opening and closing of the web console are the
actions. The device keeps an answer in its window that the card refused to
store: `lost` says so, and `NothingIsSentTwice` is not claimed then. A
continuation after a decision never compacts.

### `ProjectStore`: projects, chats and links over many files

`card` is every document of the store as its revision; an operation is a plan,
a sequence of replacements with the ones that take them back (`Save`, `Upsert`,
`AddChat`, ... are operators that give a plan; `Write`, `Refused`, `Late`,
`Reset` carry it out). `Valid` is what every start demands. The handlers of the
device and of the web console (`SwitchAndDelete`, `WebDeleteProject`, ...) are the
actions that choose a plan.

`hurt` names what an earlier fault left half done, so that a property says for
which faults it holds. What it is weaker for is what the code does: the web
console deletes the active project or chat before it selects another ("order");
the metadata written by `saveProjectChatMetadata` is not taken back when the
index is refused (`behind`); a refusal behind a replacement ("late") and a tree
removed halfway ("half") close storage at the next start.

### `Workspace`: the Shared files

`card` has for each name the file, its `.tmp` and its `.bak`; `op`, `pc` and
`had` are the operation in progress and its locals. Every writer goes through
`Prepare`, `Stage`, `Fill`, `Backup`, `Publish`, `Clean` of `file_workspace.cpp`,
except the upload of a new file, which is written in place. `links`
and `marks` are changed with the file, or the file is taken back
(`Unmark`, `LinkRefused`). `partial` and `BackupLeft` name the two exceptions:
a new upload that was cut off stays as a part, and a backup whose removal was
refused (the operation is reported as failed although it replaced the file) comes back
when the file beside it is deleted or renamed. Two refused renames strand a
backup; an editor's save does not look whether the file has changed since.

### `SftpTransfer`: one controlled operation over SFTP

A request is asked, answered or given up; a request given up stays in `wire`,
and the server may carry it out at any later time. `canceled` and `late` are the
user and the deadline. The four jobs share the staged file protocol: create
exclusively, write, close, rename; on any failure the file is unlinked if it is
ours, and the session closed if an answer is outstanding. The properties are about what
the caller is told: "failed" promises that nothing will change any more,
"removed" that the staged file is gone. A cancelation with the rename unanswered
is reported as an unknown outcome.

### `SshProfiles`: profiles and keys in NVS

Each value of namespace `cardmind_ssh` is a variable of its own, tagged with the
profile it belongs to; an operation is a plan computed from what was read first.
`Shift` moves the profiles behind a deleted one, `FreeSlots` and `Cleanup` deal
with keys no profile refers to, `Migrate` with what older firmware left. A step of a
plan says what a refusal does: `Others` leaves out what the `&&` of a profile's
fields skips, and only of that profile; `ReadBack` is the comparison behind a
deletion (`Verified`); the removal of the old profile may be refused halfway (`Half`).
Known limits, excepted by name and nowhere else: a refused write while a single old profile is
put into the list loses it and the key of older firmware (`MigrationRefused`, in `LegacyKeyIsKept`
alone); what stops the profiles from loading is a deletion, a creation or such a
migration that did not complete, and no other save (`SavesNeverLock`). With one fault no
profile is ever a mix of two. With two it can be (`Overlaid`): a creation that goes
on behind a refused write, over what an earlier interrupted one left. The run has one fault; with
two (5.8 million states, too long to repeat here) the same properties held. `docs/limitations.md:36` speaks
of eight profiles, the code has five (`kMaximumSshProfiles`).

### `WebSshWorker`: the terminal's task and the handlers beside it

The one module about threads. The task's actions are `Begin` ... `End`, one per
access to shared state or per call of the client; handlers that find no task are
one action, others have a step per access (`Poll`, `Read`, `Look`, `PollClose`,
`Use`). Both may be anywhere when the other moves; the task never holds the lock
over a call. `late` marks a stop that came after the task's last look. Such a stop is
lost (section 5, 13), so `StopIsHonoured` leaves it out; what it may leave is checked: a
stage that is true or "Stopping" (`StageIsTruthful`), and a session that is marked as a terminal or
as waiting for trust (`NothingIsOrphaned`), over which no attempt starts and which the next stop closes.

### `WebSession`: login, lifetime and lockout

`millis()` is a clock modulo `Wrap`; `Age` and `Ahead` are the unsigned and the
signed difference. `idle` and `sinceLock` are the true time gone by, to compare
with. The loop of the console passes in each tick, so an expiry cannot be missed
by half the clock's range. A deadline of 0 is "in the past" only for half of
the clock (section 5).

### `ProviderProfiles`: API profiles in two generations

A change is written into the idle generation and takes effect with its selector
byte; the schema marker does the same for the migration. A plan is a set of writes; its phases
and the keys (`Rank`) give the order they are carried
out in, one by one, by `Write`, `WriteFails` (refused, or of unknown outcome, then
re-read) and `Finish`; `Boot` is `initialize` with its inspection; `CleanupFails`,
`RetryMigration` the paths for what could not be removed. `Authority` is what a
request would use. Left out: NVS that cannot be opened or read.

### `DeviceSettings`: the settings and their editors

`nvs`, `ram` and `copy` are the three places a setting lives. A save is one put
per entry in the order of `saveSettings`. `told` and `asked` record what each field was
reported to be and what unsuccessful saves asked for, which is what a stored
value may then be: a save that is refused or cut off leaves the entries written
so far (a new SSID with the old password is possible), and a refused save of the web
console becomes live when the console closes. `stale`: when the settings cannot
be read again after the console, the next edit on the device undoes what was
saved there.

### `FirmwareUpdate`: from the release to the partition

`ota_update.cpp` downloads to `update.tmp`, publishes as `update.bin`, verifies
the digest and stages it in NVS; the supervisor writes the partition, verifies,
clears the request and selects CardMind. `trouble` is a card that fails the supervisor
halfway: then `boot.py` selects a half-written image. `leftover` is a request
staged before a reset and applied at the next Python start although it was
canceled: with the same size, an unverified image is written, because the digest
is compared after the partition has been overwritten. Both are excepted by name.

### `Voice`: recordings, transcription and speech

A take is a number of samples. A document is its chunks, each with a number of
segments, which is 0 for a blank one; the audio of a segment is `Pieces` buffers.
`After` is the piece that has to be heard after a given one.
`SpeakerPlays` is the speaker's task: it may lag behind by the two buffers it
holds, while `Fill` overwrites the third. Retries (`TryAgain`, `Again`), pauses, Esc,
refusals and resets fall anywhere. A short Esc during the upload ends only that
attempt; the key's validity is remembered across a changed key; a reply without
length that ends early is taken as whole; a recording survives a full card or a
refused removal (`kept`).

### `UnicodeFixture`, `CardFixture`, `SharedFixture`: the diagnostics that leave something behind

`P2UNICODE...`, `P2LARGE...` / `P2ATOMIC...` and `P2SHARED...` of
`SerialDiagnostics.ino` make directories, files, links, projects and a trusted
host, with a record of what is theirs, so that a cleanup can go on after a reset.
The user may add, edit and take away things between two commands. Each has the
same two questions: does an undisturbed cleanup leave nothing (`Settles`), and
does what is the user's stay (`OthersStay`). `SharedFixture` names two resets it
does not recover from (`Stuck`).

### `MCServices`: modules without common state in one run

Twelve of the modules above share no variable with each other. `MCServices`
instantiates them side by side; `service` chooses at the start which one a behaviour
is about, and the others keep their initial state. So the run is the union
of twelve state spaces and not their product: there is nothing a product would
show. Its properties are the modules' own, named again.

### Mutants

Operators named in `PROJECT.json` under `mutants` stand before the definitions
they would replace. They are plausible bugs, kept so that each property can be
seen to fail; no specification uses them.

## 3. What is checked

| run | instance | distinct states | shows |
|---|---|---|---|
| `services` | see below | 1.1 million | each of the twelve services keeps its promise |
| `one_shot_run` | 2 calls, 2 script versions, 2 disturbances | 1.1 million | no replay, a run value has an owner, the approved script is what runs, back to CardMind, complete means readable, truthful messages, one answer in its place, durable return to the web console |
| `one_shot_run_live` | 2 calls, 1 version, 2 disturbances, fairness | 166 thousand | a claimed call is cleared or in a named blocking condition |
| `prompt_turn` | 1 prompt, 1 repetition, 2 rounds, 1 edit, 1 fault | 1.9 million | confirmed calls run once, on what was shown, within every scope's policy and are accounted for; rounds are bounded, answers follow their questions, the web console always has a way out, the device unless the API profile changed |
| `chat_history` | 2 messages, appends of 1 or 2, tail of 2, at most 4 messages and revision 5, 2 disturbances, all faults | 925 thousand | inductive invariant, refinement of `ChatLog`; unless a clear was cut, what loads is the log and what succeeded is listed; without faults the chat always loads again |
| `project_store` | 2 projects, 2 chats (1 of them old), 1 file, 3 operations, 1 fault | 2.2 million | refused writes are undone to what the next start accepts; no index names what is not there; links keep their file; the migration commits only the whole |
| `tool_activity` | 2 tools, 4 runs, 2 shown, files of 3 lines, 2 disturbances, two faults, fairness | 242 thousand | the journal stays readable and shows what ended as it ended; as long as no line was cut, the last runs are shown and an owed end is accepted and in the end recorded |
| `web_ssh` | 2 profiles, 2 host keys, fairness | 13 thousand | one user of the client, trusted hosts only, secrets and connections end with their purpose, stops and stages are truthful, what a lost stop leaves is marked, every attempt and every closing ends |
| `ssh_profiles` | 2 profiles and the legacy one, 1 fault | 826 thousand | credentials stay with their profile, referenced and legacy keys stay readable, the selection keeps its meaning |
| `provider_profiles` | 2 slots, 2 URLs, 2 keys, 3 operations, 1 fault, 1 reset | 693 thousand | what is in force is the old or the new whole, and as told; never corrupt; no key left behind; a revision tells every change |
| `one_shot_attached`, `context_summary` | 1 call; 6 messages | - | disagreements 1 and 2 of section 5 |

The services of `services`, each alone:

| service | module | instance | states | properties |
|---|---|---|---|---|
| `atomic` | `AtomicFile` | 3 documents, no bound | 425 | `IInv`, `BothCopiesDuringCommit`, `ImplementsRegister` |
| `sftp` | `SftpTransfer` | all jobs, no bound | 2454 | `ReportsAreTrue` in `FilesAreAsTold`, `NothingElseIsTouched` in `OthersStay` |
| `web` | `WebSession` | 2 browsers, a clock of 6 ticks | 61 thousand | `SessionsAreGuarded` |
| `context` | `ContextWindow` | 4 messages of 2 sizes, budget 3, tail 3 | 46 thousand | `RequestsAreRight` |
| `files` | `Workspace` | 2 names, 2 documents, 2 operations, 1 fault, 2 resets | 209 thousand | `FilesAreWhole` in `FilesAreAsTold`, `NothingElseChanges` in `OthersStay` |
| `firmware` | `FirmwareUpdate` | 4 releases, 2 sizes, 2 faults, 2 resets | 38 thousand | `UpdateIsSafe` |
| `unicode`, `large`, `shared` | the fixtures | 1 or 2 faults, 2 resets, 1 edit | 60 thousand | `CleanupsSettle`, `OthersStay` |
| `settings` | `DeviceSettings` | 2 saves, 1 fault, 1 reset | 112 thousand | `SettingsAreAsTold` |
| `voice` | `Voice` | 2 takes, documents of 2 chunks of 0 to 2 segments, 2 attempts, 1 fault, 1 reset | 392 thousand | `VoiceIsFaithful` |
| `answer` | `Completion` | 4 kinds of question, 2 attempts, 2 rounds, 1 fault, 1 reset | 184 thousand | `AnswersAreWhole` |

A property of several conjuncts is one named formula per concern; its conjuncts
are named and commented in the module, and a counterexample shows which of them
fails.

**Bounds.** `MaxDisturbances`, `MaxFaults` and `MaxResets` bound the refusals and
resets of a whole behaviour. Two are needed where a refusal leaves something behind and a reset meets
it, or a reset falls in the recovery from a reset (`OneShotRun`, `ChatHistory`,
`ToolActivity`, `FirmwareUpdate`, the fixtures, `Workspace`); where one fault ends an operation
with all its traces in the state, one is enough and the history variables carry it
on (`ProjectStore`, `SshProfiles`, `ProviderProfiles`, and the services that have `Few` of them).
`MaxSaves` bounds the saves of `DeviceSettings`: two let one editor save over what another has.
The proofs of section 4 hold for every value of these bounds. Two calls are needed for anything one call leaves to the next,
two versions for a script edited between approval and run. Four messages against
a tail of two make windows that drop old messages and windows that hold all of
them; appends of two can be cut between their records. Four runs, eight lines,
against files of three and a window of two make two rotations and numbers that
fall out of both generations. Three operations on projects make
create, fill, delete; two operations on files make a second that meets what the
first has left. Two rounds make a confirmation in the middle of an answer and one at the limit.
The clock of `WebSession` wraps after six ticks, with a lock of one and a lifetime of
two, so that both lie within half of its range, as in the code. Releases of equal
and of different sizes are both among the four. Four pieces of a segment against
three buffers make a buffer be used again while the speaker may still hold two.

**Deadlock** is checked where the system runs for ever; the configurations whose
bounds use up everything that can happen say `CHECK_DEADLOCK FALSE`.

**Fairness.** `OneShotRun!FairSpec` has weak fairness on each step of a handler, of
the supervisor and of the startup, on the boot itself and on restarts (a user who is
blocked restarts the device). The firmware is one loop without preemption, so a
handler that can take its next step does. None is assumed of the user's
decisions, of edits, refusals or resets. In `ToolActivity` the fairness is on the
startup, on the writes, on the end of a tool (network and SSH calls have
timeouts) and on a restart while an end is owed. In `WebSshWorker` it is on the
task (every call of the client has a timeout, and FreeRTOS schedules it), on a handler
that has begun and on the console's last wait for the task. Because `disturbances` is bounded, a
disturbance does not recur for ever, which is the assumption that power and the
card eventually stay.

## 4. What is proved

The theorems hold for every value of the constants that the assumptions of the
modules allow: any documents, calls, chats, profiles, keys, names, releases and
browsers, any limit and clock, and any number of operations, refusals and resets.

| module | about |
|---|---|
| `OneShotRunProofs` | `OneShotRun`: the run, then the messages |
| `ChatHistoryProofs` | `ChatHistory`: the files, what is read from them, the refinement of `ChatLog` |
| `ToolActivityProofs` | `ToolActivity`: readability, owed ends, what is shown |
| `WebSshWorkerProofs` | `WebSshWorker` |
| `PromptTurnProofs` | `PromptTurn` |
| `ServicesProofs` | `AtomicFile` and its refinement of `AtomicRegister`; `FirmwareUpdate`, `WebSession`, `DeviceSettings`, the three fixtures and `Workspace`, as `MCServices` puts them together |
| `ConversationProofs` | `ContextWindow`, `Voice` and `Completion`: what a request holds, what is written and spoken, what an answer is made of; `SftpTransfer`; that nothing else changes |
| `ProviderProofs` | `ProviderProfiles` |

The argument is the same everywhere. None of the properties is inductive; the
state they constrain does not say enough of the step that is under way. The
inductive invariant adds, as named parts, what each step may rely on from the
checks before it. It was checked with TLC first (of `UnicodeFixture` in half a million arbitrary
states, reachable or not), then one lemma per action shows
that it is kept, and the property follows from it in every state or step.

* `AtomicFile`: `IInv = TypeOK /\ StepInv`. `StepInv` says where `bak` and `tmp` are
  already gone, that `tmp` is the goal once verified, that `hadTarget` tells
  whether `bak` holds the old document. From it follows, step by step, the refinement: a write
  becomes visible at `CommitPublish` or, for a file that existed, stays the old one through `bak`.
* `OneShotRun`: `IInv` is the type invariant and named parts about the record
  behind a run value, the files behind a run state, the boot partition while a
  claim exists, and what a step in either image implies.
  `AtMostOneLaunch`, `RunHasOwner`, `ApprovedScriptRuns`, `NoReturnToPython`,
  `CompleteHasResult` and `WebReturnDurable` follow from it. For the messages of the chat
  (`TruthfulMessages`, `OneAnswerInPlace`) `MessageInv` is inductive beside it: a message belongs to a call
  that was asked (`MessagesOfAsked`) and has its place behind it (`Position`), a call without an
  answer still has its record or its run (`Unanswered`), an answered one is on the
  way to be cleared (`AnswerEndsRun`), and what a message reports of the device is
  what `launches` and `exit` recorded (`Evidence`). Assumed: a missing result is no result (`ResultAssumption`).
* `ChatHistory`: `IInv` says that message numbers are consecutive, that without
  a marker the history ends where the metadata says, that with one it ends
  between the marker's two counts. The metadata
  alone does not bound the history, so neither the refinement nor the revision
  property is inductive. Numbers are stated relative to the first record
  (`Consecutive`), which needs no induction over the file. `HistoryImplementsLog`
  proves the refinement action by action: the log changes
  when the last record of an append is written, or when a clear commits its empty
  history, and nowhere else; setting and removing the marker keep it
  (`MarkerKeepsLog`). For the readers, `ReadInv` says as long as no clear was cut that the list
  counts what the metadata does unless an operation is about to (`CountedInv`), that the tail is
  the end of what was committed (`TailInv`), and what a load holds before it
  returns (`ReadyInv`); `WholeInv` says that with nothing left half done each file ends
  with a whole line and the tail is the end of the history except while it is due. From them follow
  `ReadsAreConsistent`, `SuccessIsListed` and `WholeNeverLocked`. `RevisionBindsMessages` is about the
  revision a pending tool call is bound to: while it stays, so do the count and the messages it covers. What an
  append writes first is not counted yet (`WriteCoversNothing`); a clear, which empties first, is the exception.
  Assumed: `Absent` is neither a marker nor an operation.
* `ToolActivity`, if prompts alone start tools (`"toolTest"` is not among the `Callers`; disagreement
  8 shows that it breaks the journal): `IInv` says that the numbers on
  the card are below the next one, that none is higher than one whose end is owed, and that a line about to be
  written may follow every line there is. `JournalAlwaysReads` holds
  under every fault. `WholeFinishAlwaysAccepted` holds until a line is cut (disagreement 7)
  and needs `WholeInv`: the line that still needs its
  end is the last of the journal, and only a full file is rotated. `EndedInv` adds that an end that was reported is not
  contradicted by what is still to be written, and gives `ShownAsEnded`. `BegunInv` adds that a number with fewer than `Keep`
  others above it is still in the journal; a rotation keeps it only if a
  file holds enough lines, so `RecentAreShown` assumes `MaxLines >= 2 * Keep - 1`
  (two lines per run; the code shows 16 runs, `kMaximumRecentActivities`, and a file
  of 16384 bytes holds at least 31 lines of at most 512 and their newlines).
* `WebSshWorker`: `IInv` ties the task's program counter to the handle and to the
  shared flags (`WhereTheTaskIs`), bounds how far the session may be at each step
  (`SessionFits`), says that a key which is shown to the user waits with no task
  beside it (`Waiting`), that past the decision `known_hosts` holds the key of this session (`Vouched`),
  what a handler in progress found (`Handlers`), and when a stop is still pending or which stage a lost one leaves (`Stops`). `SessionIsSafe`
  and `BrowserIsTold` follow for any interleaving of the task, the handlers and the network.
* `PromptTurn`: `IInv` says that the record on the card is the one the request
  continues (`Holding`), that a claimed call has not run and acts on what was
  shown (`Claimed`, `Once`), that the question is the last message until it is
  answered, which a waiting record tells by the revision (`Asked`), that turns and
  requests are numbered upwards (`Numbered`), and that the rounds cover the
  calls that ran (`Counted`). The last is about cardinalities of the calls of a
  request and carries the bound of rounds over any number of confirmations.
  The round limit, the single run of a call and the order of the chat
  (`ToolsRunAsDecided`, `TurnIsOrderly`) need all of it. That the web console can dismiss what keeps
  the device needs `OneAsker`, which `IInv` keeps in turn: contexts remember only numbers that were given, and
  the two surfaces never the same one.
* `ProviderProfiles`: a plan leads to a store (`Goal`) that does not depend on the order of
  its writes, because no key is written twice but for one that is cleared first. Which keys decide
  what is in force depends on the store itself (`InForce`); in a good plan (`GoodPlan`) exactly
  one write touches them: the writes before it leave the keys in force alone, the writes
  after it those in force in the goal (`Aside`). So a write keeps the plan good and what is
  in force the old or the new (`OneWrite`), whichever write is next. What remains is that each
  operation starts with a good plan, to a store with a default and no identifier
  twice (`GoodStore`) and with nothing older than a request has seen (`NewerThan`). A
  reset may leave any part of a plan behind: the plan of the next operation is good in every such store.
* The services. A step of `MCServices` is a step of each service or leaves it alone
  (`Frames`), so each is proved of its own actions and all theorems are about the
  specification that TLC checks.
  * `FirmwareUpdate`: what has been found out of the files call by call
    (`FirmwareStages`), and, for the half-written partition, that its request and
    file are still there and the supervisor on the way to it (`HalfIsOnItsWay`). A
    handed over request is that of the file unless it was left over (`RequestIsOfTheFile`).
    The sizes of releases are those `MCServices` gives them (`v \div 4`: some are equal);
    the proof uses of them only that they are natural numbers.
  * `WebSession`: as long as a session may expire, the difference of the readings of
    the wrapping clock is its age (`AgeIsKnown`), and the end of a lock
    lies ahead by less than half of the clock (`LockIsAhead`).
  * `DeviceSettings`: what each copy in RAM holds of a field was reported or asked for
    since (`StoredIsGood`, `RamIsGood`, `CopyIsGood`, `FormIsGood`), for as long as that copy will still be
    saved, and how far a save has come (`SaveIsOnItsWay`). Which copies these are
    depends on the editor; that no editor writes back an outdated copy is the proof's point.
  * The fixtures: the record comes before what is made and goes after it (`LargeRecord`,
    `SharedRecord`, `UniStanding`), what is there at each step, and that a
    command which goes on found nothing of the user's (`LargeOthers`, `SharedOthers`, `UniOthers`). For the host's
    key, `UniTrust` has the order of trust and record. One theorem per fixture
    (`LargeIsCleaned`, `SharedIsCleaned`, `UnicodeIsCleaned`), `FixturesAreCleaned` for all,
    with the two places where `SharedFixture` is `Stuck` excepted (disagreement 15).
  * `SftpTransfer`: what the staged file and the destination hold at each call
    (`StagedAsCalled`, `DestinationWaits`), what the one request that was given up on can
    still do (`GivenUp`), what a report excludes (`Reported`).
  * `Workspace`: everything is stated against the card as it was when the operation began (`before`): what
    was asked before the first change (`AskedFirst`), what each of the three names
    of the file holds at each step (`ReplacedAsCalled`, `MadeAsCalled`), the
    bookmarks (`MarksAsCalled`), and what a restart would find at any time
    (`StoredIsOldOrNew`). `FilesTrue`, `ToolsLeaveOthers` and `NothingElse` assume `QuietFlush = FALSE`, as the run does: a card
    that reports a flush it has lost makes `Workspace` publish a cut document (disagreement 11).
    The transfers need no such assumption (`TransfersLeaveOthers`).
  * `ContextWindow`: the window is a part of the chat in its order, and its end unless
    something was lost (`WindowIsOfChat`); a request is of this chat, ends with its prompt and fits
    (`RequestIsOfChat`). The loop of `fitContextWindow` is modelled by what it finds, the least
    index from which the rest fits (`FirstRetained`); that there is one (`LeastNatural`) is by the well-foundedness
    of the naturals.
  * `Voice`: for the text, the recording on the card is that of the last take, closed
    before it is sent, and the draft is of takes that are over (`TextInv`). For the speech
    (`SpeechInv`), the place of the task tells which piece has to be heard next (`PlaceOfSpeech`), the file
    holds the segment from its beginning (`FileOfSegment`), and the buffers the speaker holds are the ones before
    the next, with the pieces that follow the last one heard (`BuffersInOrder`).
    It is stated for any number of buffers' worth of audio, chunks, segments and attempts.
  * `Completion`: what was shown and what is kept back is what was said, unless text was lost and the turn
    is no good (`TextIsShown`), pieces are in the order they came in (`TextInOrder`), the calls are
    counted by the rounds and the one taken up is whole (`CallsInOrder`), what is
    no longer required was done by a call that was made (`RequiredWasMade`), and the
    request on the card is that of the turn (`RequestOnCard`).

Assumed of the constants of the services: versions are positive and there is an oldest, which
is the installed one (`ServicesAssumption`); a lifetime is shorter than the clock's range and a lock
not longer than half of it, as at most 8 h and 30 s are against 2^32 ms; what a path
may hold can be told apart (`ContentsAssumption`); documents have positive lengths and there is a
longest (`LengthsAssumption`); the tail of a chat that is kept, the pieces of a segment, the
chunks of a document and the attempts at a request are at least one. TLC evaluates all of them.

Assumed of `ProviderProfiles`: there is a slot, and URLs and keys are positive numbers, 0 being
that there is none (`ProviderAssumption`).

Model-checked only: `IndexesAreTrue` and `CommitsEverything` (`ProjectStore`) and
`ProfilesKeepTheirOwn` (`SshProfiles`). Both modules carry out plans that are sequences
of writes, put together and flattened: what
that computes for every sequence is induction over data, which is out of the prover's reach. The liveness properties
(`ClaimedEndsOrBlocks`, those of `ToolActivity` and `WebSshWorker`) stay with TLC
too, since neither fairness nor ENABLED can be reasoned about. `SuccessLeavesOneCopy`, `RunHasOwner`,
`CompleteHasResult` and `RevisionBindsMessages` are in no configuration because their theorems say more.

## 5. Disagreements found

Two are runs that expect a violation, with the line of the documents in
`PROJECT.json`:

1. **`OwnAttachmentAccepted`** (`OneShotRun`): a reset between erasing the run
   value and clearing the record makes the next startup reject the message that
   the previous one attached; then the record blocks every prompt
   (`docs/traceability/P5_TRACEABILITY.md:252`).
2. **`CountedIsSummarized`** (`ContextWindow`): the summary's count advances over
   messages that were left out before the request and are in no summary
   (`docs/user-guide.md:42`).

The others are stated beside the properties that hold and fail when named as an
`INVARIANT` or `PROPERTY` of the module's configuration:

3. `OneShotRun!AnsweredFailureAccepted`: a pre-run failure that the model has
   answered, then a reset before the record is cleared: rejected at every boot.
4. `OneShotRun!OrphansNeverBlock`: files left by a refused cleanup make the
   recovery of the next claimed and interrupted call fail.
5. `ChatHistory!AppendedChatLoads` (`Faults = {"tornAppend"}`): a write refused at
   the last newline leaves a record the recovery accepts; the next append
   continues on that line, reports success, and the chat no longer loads.
6. `ChatHistory!NeverLocked` (`Faults = {"cutClear"}`): a clear stopped between its files leaves a
   chat that nothing can load, clear or delete.
7. `ToolActivity!OwedFinishAccepted` (`tornAppend`): each retry of a cut append
   rotates the journal; the second rotation deletes the running line that the
   owed end belongs to, and no later startup accepts it.
8. `ToolActivity!JournalReads` with `"toolTest"` among the `Callers`: a diagnostic run
   started while an end is owed makes the recovery write a lower number behind a
   higher one, and every later read fails.
9. `PromptTurn!DeviceHasAWayOut`: once the API profile has changed, the device offers Allow and
   Deny, refuses both, and does not offer to discard the call (`CardputerAssistant.ino:2701`).
10. `ProjectStore!OpensAfterImport`: `docs/projects-workspace.md:79` lets an imported project
    link files to be "recreated or relinked"; storage does not open after it.
11. `Workspace!EditsAreChecked` with `QuietFlush = TRUE`: an edited window is not
    reopened and checked before the exchange (`docs/projects-workspace.md:67`).
12. `SshProfiles!EveryDeletionLasts`: the profile of older firmware can come back after its
    deletion was answered with success.
13. `WebSshWorker!EveryStopIsHonoured`: a stop between the task's last look and the end of the task is
    answered and lost (`docs/ssh-sftp.md` promises that closing ends the session).
14. `WebSession!LockIsFromFailures`: `loginLockedUntil` is 0 after a start, so every login is
    refused for half of the clock's range, from day 25 to day 49, although nobody has failed
    (`web_console.cpp:1680`; `docs/web-console.md:182`).
15. `SharedFixture!AlwaysSettles`: the first cleanup after a test cut off before its file had content,
    and the deletion of a linked project cut off halfway, leave a fixture that every later
    cleanup refuses.

`ClaimedEndsOrBlocks` names exactly conditions 1, 3 and 4 (`Blocked`): no other
state keeps a claimed call for ever.

## 6. Plan

1. Proofs of `SshProfiles` and `ProjectStore`, with plans as sets of writes, as
   `ProviderProfiles` has them: where a plan leads, and which of its writes takes effect.
2. `Completion` as the detailed form of the one step `PromptTurn` has for a
   request, with the refinement shown.
3. The volume identity of `sd_storage` and the recursive directory operations of
   SFTP.

## 7. Not modelled

* The contents of HTTP, TLS, SSH, audio and JSON; screens, menus and formatting:
  pure data, or I/O without state shared between steps. Where a conversion decides
  control (what a whole turn of the stream is, what a prompt asks for, which messages fit) the
  module has the decision.
* Pure functions with host tests (`tool_policy_codec`, `ssh_terminal`,
  `ssh_command_output`, `offline_tools`, most of `text_utils`): nothing of them
  depends on order or failure.
* `crash_journal`: a log of two generations that no code reads back.
* Of `SerialDiagnostics.ino`, the commands that measure or try code modelled elsewhere
  within one call; of the supervisor, the workspace's own pages.
* Generated page, build tools and tests.

`PROJECT.json` gives the reason per component.
