# Teardown Chat: a TLA+ model

This directory holds the formal model of *Teardown Chat* (`src/TDU`), a DLL that
is loaded into the game Teardown, draws a chat window over it and talks to a chat
server over a WebSocket.  The modules are translated from the C++ source; each
action's comment names the code it stands for, and `PROJECT.json` maps every
definition to its lines.

1. [Inventory](#1-inventory): the system's parts, threads and hazards
2. [Modules](#2-modules): what each module models and how it corresponds to the code
3. [Runs](#3-runs): what TLC checks, with which bounds and fairness
4. [Proofs](#4-proofs): what TLAPS proves, and along which argument
5. [What the checks found](#5-what-the-checks-found)
6. [Not modelled](#6-not-modelled)
7. [Plan](#7-plan)

## 1. Inventory

### Threads

| thread | created by | runs |
|---|---|---|
| main | the game | the window procedure, `Chat::Draw` once per frame, `ChatInit`, `Websocket::Open`, `Websocket::Send`, `RunCommand` |
| worker | each `Websocket::Open` (detached) | `openWS`: sleep 5 s, a client of its own, its `io_service`, and so every handler of its connection |

There is no lock in the program's own code.  What both kinds of thread use is
unprotected: `Chat::Messages`, `scrollToBottom`, `WSConnection`, `Chat::uuid` and
the configuration file.  The vendored client library does lock: `send_queue_mutex`
around a connection's queue, `connection_mutex` around its pointer, and the
compare-and-swap gate of `ScopeRunner`.

### Components

| component | code | state | operations |
|---|---|---|---|
| message history | `Chat.cpp` | `Messages`, `scrollToBottom` | `SendLocalData`, `SendLocalMessageUnformatted`, the row loop of `Draw` |
| chat window | `Chat.cpp`, `InputHooks.cpp` | `p_open`, `inputOpen`, `focusInput`, `popupOpen`, `g_FreeCursor`, ImGui's IO | `Draw`, `hWndProc`, `hSetCursorPos` |
| markup and layout | `helper.cpp` | the parser's positions; segment and line being drawn | `TextToSegments`, `RenderMultiLineText` |
| session | `Websocket.cpp` | `WSConnection` | `Open`, `Send`, `openWS`, `handle_open/close/error/message` |
| send queue | `client_ws.hpp` | `send_queue`, `closed` | `send`, `send_close`, `send_from_queue` and its completion |
| read loop | `client_ws.hpp`, `client_wss.hpp` | `in_message`, `fragmented_in_message` | `connect`, `handshake`, `upgrade`, `read_message`, `read_message_content` |
| handler gate | `utility.hpp` | `count` | `continue_lock`, `~SharedLock`, `stop` |
| identity and configuration | `helper.cpp`, `Websocket.cpp` | the file, `uuid`, `keepChatOpenOnEnter` | `PullConfig`, `UpdateConfig`, registration, `setuuid` |
| commands | `Chat.cpp`, `helper.cpp` | `Commands` | `RegisterCommand(s)`, `RunCommand`, the four callbacks |
| start of the chat | `Chat.cpp`, `helper.cpp`, `Websocket.cpp` | the flag of `call_once` | `ChatInit`, `CheckForUpdate`, `GrabLatestVersion` |
| bootstrap | `CWHook`, `UpdateHook`, `GLHooks`, `Loader` | hooks, `g_Game`, `g_Wnd`, ImGui's context | hooks of the game's functions |
| game interface | `tdf_*`, `Types.h`, `Memory.h`, `Lua*` | the game's | wrappers of the game's functions |

### How they interact

- The first window that the game creates installs the hooks; a frame reaches `Draw`
  through `hwglSwapBuffers`, and the first frame runs `ChatInit`: update check,
  configuration, commands, first connection, each only if the one before went well.
- The window procedure sets the flags that the next `Draw` acts on.  `Draw` reads
  the history, parses each row with `TextToSegments`, draws it with
  `RenderMultiLineText`, and hands the user's line to
  `Websocket::Send` or to `RunCommand`; `/reconnect` calls `Websocket::Open`.
- `Websocket::Open` asks the current connection to close and starts a worker.  The
  worker's handlers publish the connection in `WSConnection`, register the user
  (`registeruser` or `checkin`), append to the history, store the uuid that the
  server sends, and clear `WSConnection` at the end.
- Inside one connection, the read loop calls those handlers, and the send queue
  serialises frames from both threads.  Each completion passes the handler gate
  first; destroying the client closes the gate.  In this program the worker runs all
  handlers of its connection and then destroys the client itself, so the race that
  the gate guards against does not arise here: `ScopeRunner` shows that the library
  keeps its promise for any use, and no hazard of the program is listed for it.

### What is hard

The hazards are listed one by one, at their lines, in `PROJECT.json`.  They fall
into a few kinds: unprotected data used by main and workers; an old connection's
handlers running after a new connection was opened; a mutex and an atomic flag
that are each right alone and wrong together; bytes that arrive with the upgrade's
response; a file that is truncated and written in two steps; flags set between two
frames; positions left over from half a bracket pair; a registration that travels
through a pointer somebody else may have changed; a server that stores an identity
unasked; keys whose release reaches only one of the game and ImGui; a detour that is
attached again while it is attached.

## 2. Modules

| module | models | abstract specification | proofs |
|---|---|---|---|
| `ScopeRunner` | the handler gate, one atomic operation per step | | `ConnectionProofs` |
| `MessageHistory` | append against the row loop, one access to the vector per step | `BoundedLog` | `MessageHistoryProofs` |
| `SendQueue` | the queue, its mutex, the write under way and its completion | `FifoSender` | `SendQueueProofs` |
| `Websocket` | the session: `Open`, `Send`, workers, handlers | | `ClientProofs` |
| `Client` | `Websocket` and `Identity` on the same threads | `Identity` | `ClientProofs` |
| `Identity` | configuration file, registration, end of the process at any step | | `IdentityProofs` |
| `ReadLoop` | connecting, the upgrade, and frames read byte by byte | `FrameReader` | `ConnectionProofs` |
| `ChatWindow` | window messages, frames and ImGui's answers | | `ChatWindowProofs` |
| `Markup` | `TextToSegments`, one character per step | | `MarkupProofs` |
| `Layout` | `Markup`, then `RenderMultiLineText`, one line per step | | `MarkupProofs` |
| `Commands` | `ChatInit`, the input line and `RunCommand` | | |
| `Bootstrap` | the game's windows and the detour of its update | | |
| `Startup` | `Bootstrap` and `Commands` on the main thread | | `StartupProofs` |

`MCReadLoop`, `MCMarkup`, `MCClient` and `MCStartup` only define the sets of frames,
messages, files, versions and names that their runs use.  A definition whose comment begins with "Mutant" is not part of a
specification: it is a plausible mistake in the code, used to make sure that the
property named beside it in `PROJECT.json` fails when the mistake is made.

Conventions shared by the modules:

- `pc[t]` is where thread `t` is; a label stands for the statement it is about to
  run.  Every access to shared data is a step of its own.
- Two conflicting accesses in progress at once are undefined behaviour in C++.
  The model then may go on as if one came first, or set `status` to "undefined",
  after which no step is possible and nothing is claimed.  An exception that leaves
  a handler sets "terminated".
- Variables marked *history* record what happened for the properties' sake; no
  guard of a code action reads them.  Variables or constants marked *bound* limit
  the runs; the theorems hold for every value of them.

**ScopeRunner** (`utility.hpp:434-477`).  `Load`, `Retry`, `Acquire`, `GiveUp`
are the loop of `continue_lock`, `Release` is `~SharedLock`, `CloseGate` the
exchange in `stop`.  A weak compare-and-swap may fail spuriously, which `Retry`
allows.

**MessageHistory** (`Chat.cpp:24-48, 174-205`).  `Check`, `Erase`, `Push`, `Flag`
are `SendLocalData`: the size is tested, the oldest message erased, the new one
pushed, the scroll requested.  `BeginFrame`, `TestRow`, `TestScroll`, `ClearScroll`
are the frame of the row loop; when the loop is over, what it has drawn is forgotten.
A row looks `Messages[i]` up anew for each of its
fields, and each of these reads is a step: `Stream` (177-179), `ReadMessage` (181),
`ReadUsername` (182), `ReadColor` (183), `StampFound` or `NoStamp` (189), `ReadStamp`
(190).  Between any two of them a worker may erase or push.  Lines 179 and 189 make
two accesses each and are one step each; the module's header says why that loses
nothing.  A message is its number and its kind: with or without a timestamp, or with
a text, name or timestamp that does not convert (`fields`).  An element that has gone
is undefined behaviour (`RowGone`); a field that is not there or does not convert
throws out of `Draw` and ends the process (`ReadThrows`), which also happens when 189
finds a timestamp in one message and 190 reads it from the next.

**SendQueue** (`client_ws.hpp:136-256`).  `CallSend`/`CallSendClose`, `Lock`,
`Emplace`, `Kick` put a frame in the queue and start a write if the queue was
empty; `Complete`, `CompletionLock`, `Erase`, `NextWrite` or `Clear` are the
completion.  `TestClosed` and `SetClosed` are two steps because the code loads and
stores the atomic separately.  `Stop` is the destruction of the client, after which
a completion returns without touching the queue ("abandoned").

**Websocket** (`Websocket.cpp:32-127`).  A worker names its connection.
`TestConnection` and `UseConnection` are the two reads of `WSConnection` in `Send`
and `Open`; between them a worker may clear it.  `Publish`, `Announce`, `Drop`,
`Tell` are the handlers, statement by statement; `handle_error` clears the pointer
twice.  The inside of a connection is the send queue's and the read loop's
business: here it accepts, is lost, or closes.

**Identity** (`helper.cpp:275-336`, `Websocket.cpp:42-66`).  `Pull` and `Parse` read
the file at start, `Collect`, `Truncate`, `WriteBack` save it.  `Parse` assigns the
settings one by one, so that a file with a valid uuid whose second setting is no
boolean leaves its uuid in memory although the start fails.  `Announce` chooses
between `registeruser` and `checkin`.  `ReceiveUuid` and `Assign` are the handler of
`setuuid`: it may arrive on any connection that is being read, at any time, asked for
or not, and whatever string it carries is stored, also one that `validUUID` would
refuse, and the empty one.  `awaiting` (the connections over which a registration
went) is no guard of any step; only the fairness of the server refers to it.  `End`
may happen at any step; `UserEdits` between runs.  The text of the file is abstracted
to its two settings.

Handing a registration to `Send` and its way over a connection is `Ask`: it may get
lost, and with overlapping connections it may go over another one.

**Client** (`Websocket.cpp:32-127`, `Chat.cpp:121-133, 225`).  Each action is one of
`Websocket` together with what it does to the identity, or the other way round:
`HandleOpen` publishes the pointer, then reads the uuid, then calls `Send`;
`Transmit` is the delivery of a frame, with `Asked` for a registration;
`HandleUuid`, `ReadEnds` and `HandleEnd` are what a connection receives and how it
ends.  `handle_open` reads the uuid twice, for its choice and for the frame, and
another connection may store one in between.  `carried` is the uuid in the frame a
thread has made; a `setuuid` may replace the identity before that frame leaves.  `ImplementsIdentity`
says that the composition does to file and memory only what `Identity` allows, so
that `Identity`'s theorems carry over.  The program is started once here; restarts
are `Identity`'s own run.

**Commands** (`Chat.cpp:57-133, 211-231`, `helper.cpp:339-446`).  `BeginDraw` runs
`ChatInit` in the first frame: `CheckForUpdate`, `PullConfig`, `Register`, in that
order, with the two early returns.  `EnterLine` is the input line; `Found`, `Other`
and `LoopEnds` are one round of the loop of `RunCommand`.  A line is its name, the
number of spaces behind the name, and its words; `Split` is what `boost::split` makes
of them.  A version is the triple of its numbers and `Cleaned` the number that is
left when the dots are removed.

**Bootstrap** (`CWHook.cpp:28-50`, `UpdateHook.cpp:22-52`, `GLHooks.cpp:27-84`).
`CreateGameWindow` calls `HookUpdate`, which scans for the game's update function and
detours it; `CallUpdate` and `ReturnHooked` are `hUpdate` before and after the call of
the original.  Detours is external and modelled by what it does: attaching turns the
pointer into a trampoline, attaching again to the same function gives a trampoline
that leads to the first detour.  `CanDraw` is `hwglSwapBuffers`, which tests nothing;
`GameShowsFrame` is the assumption about the game that it shows a frame only between
two updates and in a window for which it has called `glewInit`.

**Startup** puts the two on the main thread: frames and hooks do not interleave
inside each other.

**ReadLoop** (`client_wss.hpp:53-152`, `client_ws.hpp:437-685`).  `Connect` and
`ConnectFails` stand for the chain resolve, connect, handshake, request, response;
`Upgrade` takes any number of the bytes already sent along with the response;
`ReadHeader`, `ReadLength`, `ReadContent` and `Handle` read and dispatch frames
with the arithmetic of `num_additional_bytes`.  A byte carries its frame's number
and its place in the frame, so that reading at a wrong place is seen ("garbled").
`calls` records which of the program's handlers ran.

**ChatWindow** (`InputHooks.cpp:37-103`, `Chat.cpp:141-268`).  `KeyDown`, `KeyUp`
and `Button` are one call of `hWndProc` each, early returns included; `Frame` is one
`Draw`.  `SysKeyDown` and `SysKeyUp` are `WM_SYSKEYDOWN` and `WM_SYSKEYUP` (Alt, and
keys while Alt is down): `hWndProc` has no case for them, so they fall through to
lines 96-102, which tell one side only.  `KeyUpElsewhere` is a release that another
window gets.  `unseen` holds the keys whose last release was one of these two.  ImGui is external: whether the mouse is over a window, and which widget a
click hit, is any choice consistent with what ImGui was told.

**Markup** (`helper.cpp:94-212`).  One action per kind of character, `Finish` for
the end.  A segment is the range of the message it stands for and the positions and
lengths given to `substr`, that is, what it shows: the properties speak of what is
shown and not only of the range.  Colours and copied strings are left out.  `text.at(i + 1)`
past the end throws, which ends the scan ("thrown").

**Layout** (`helper.cpp:31-90`).  `DrawLine` draws what fits and skips the blanks and
one newline behind it; `DrawRest` is the case that nothing fits: a new line is begun,
and since the second call of `CalcWordWrapPositionA` has the arguments of the first,
it gives the same answer, and the rest of the segment is drawn without wrapping.  How
much fits is any number of characters.

## 3. Runs

| run | instance | properties |
|---|---|---|
| `scope_runner` | 3 handlers, 2 callers of `stop` | nobody inside after `stop` returned; the counter is exact; `stop` returns |
| `message_history` | main, 2 workers, limit 3, 5 posts, with and without timestamp or a readable text | no erase from an empty vector; rows in order; the fields of a row come from messages that never go back, and none from a message that an earlier row used; implements `BoundedLog`; the newest message is drawn |
| `send_queue` | main and io, 3 frames | one write at a time; no lost wakeup; the buffer written is the queue's front; implements `FifoSender`; frames leave |
| `send_queue_close` | the same | *violated*: a close frame is sent once |
| `session` | main, 2 workers; the server gives a uuid or the empty string at any time; 2 files and none | the pointer never outlives its connection; a connection that was alone is usable; announcements carry what they were chosen for; implements `Identity`; every attempt is reported; a new user gets an identity |
| `session_unable` | main, 2 workers | *violated*: "unable to send" only when there is no connection |
| `identity` | 2 workers, a valid, an invalid and the empty uuid, 3 starts | the file keeps what was last written; file and memory agree; a refused file is left alone; only a new user is registered |
| `read_loop` | 8 frames to choose from, 3 sent | exact byte count; reads in step; handlers in order; implements `FrameReader`; frames are handled |
| `chat_window` | Return, Esc and Alt, all flags | no key that is released as an ordinary key is stuck; a press goes to one side; focus is served |
| `chat_window_t` | T, Return and Esc | *violated*: T opens the window |
| `markup` | messages of up to 4 pieces, 24 characters | positions in range; no character lost, none shown by two proper segments; every pattern found with its text and data; the message is drawn to its end, every character once |
| `startup` | 2 windows, 5 versions, lines of up to 2 words | the game's update is reached; the detour leaves; outdated programs stop; a refused start stays offline; every line is answered as typed |

Why the bounds are enough:

- *Threads.*  Main and two workers give every pair of roles that can conflict: main
  against a worker, and an old worker against a new one.  The safety properties are
  proved for any number.
- *History.*  The limit is 3, the smallest that three threads allow, with 5 posts: the
  vector fills and is erased from twice, two threads can stand between the check and
  the erase while main is inside a row, and a row can be put together from three
  messages.  `EraseSafe`, `OrderOfRows` and `OrderOfFields` prove the rest for any
  number of threads and posts.  The server's lines have a timestamp or a text that does
  not convert, main's have none: with these, each outcome of a read occurs.
- *Frames.*  Three frames are one in flight, one waiting and one submitted in
  between; or two fragments around a control frame.  The frames chosen have no, a
  2-byte and an 8-byte extended length, and every kind; `Upgrade` may end inside any
  of them.
- *Starts.*  Three starts: one that writes the file, one that ends inside a write,
  one that reads what is left.
- *Markup.*  Four pieces out of brackets, halves and whole pairs put every kind of
  leftover position before every kind of bracket; three pieces with blanks and newlines
  put them before, inside and behind a segment.  The theorems hold for any length.
- *Start.*  Two windows, since what can go wrong needs a second one before the first
  update.  The versions differ in each of the three parts, and one has a part of two
  digits.  The words are a command's name, a short and a long user name.
- *Files and strings of the client.*  Missing, refused, and a file with an identity.  A
  string that `validUUID` would refuse differs from an identity only when the file is
  read again, at the next start: it is in `identity`, which has three starts, and not in
  `session`, which has one.
- *Keys.*  Return opens the input and submits the line, Esc closes it, and under Alt
  both come as system keys.  T differs from Return only in the editor and has its own
  run.

`CHECK_DEADLOCK FALSE` is given where the system may stop: the process may end, the
server may stop sending, a bounded number of calls is used up, the stack overflows, or
a message has been drawn.  `scope_runner` checks deadlock; its `Terminated` step is the state in which
every call has returned.

Fairness:

- `ScopeRunner`: threads run on.  A weak exchange that could succeed is not refused
  spuriously for ever.
- `MessageHistory`: threads run on, and the game keeps drawing.  Nothing makes
  anybody post.
- `SendQueue`: threads run on; a mutex that is free again and again is obtained in
  the end (strong fairness of `Lock` and `CompletionLock`); the operating system
  completes every write, one way or the other.
- `Websocket`: threads run on, and (`NetworkAnswers`) an attempt to connect ends.
  The second is a promise of the network, not of the code: the client sets no
  timeout, and without it `AttemptReported` does not hold.
- `Client`: as `Websocket`, and the server answers a registration (`StoreUuid`, fair
  only where one was asked for): a promise of the server that `IdentityObtained`
  needs.  A `setuuid` that nobody asked for may come or not.
- `Startup`: calls return, and the game calls its update again and again.  The second
  is strong fairness, because frames and updates alternate on one thread.
- `Layout`: the loop runs on.
- `ReadLoop`: the io thread runs a read whose bytes are there.  `ServerSends` is not
  fair.
- `ChatWindow`: the game keeps drawing.  The user need not do anything.

## 4. Proofs

`ConnectionProofs`, `MessageHistoryProofs`, `SendQueueProofs`, `ClientProofs`,
`IdentityProofs`, `MarkupProofs`, `StartupProofs` and `ChatWindowProofs` each prove an
inductive invariant, one step per action, and derive the theorems from it.  They assume
only the named `ASSUME`s of the modules.  `ConnectionProofs` holds the proofs of the
handler gate and of the read loop, each about its own specification (`GateSpec` and
`Spec`); the two share no variable.

Every safety property and every refinement that a passing run checks is proved here for
all values of the constants; what the runs add is liveness.

| theorem | states | inductive argument |
|---|---|---|
| `ConnectionProofs!StopExcludes`, `CountExact` | after `stop` nobody is inside; the counter is exact | the counter is the cardinality of the set of running handlers until it is -1, and it is -1 only when that set is empty |
| `MessageHistoryProofs!Overshoot`, `EraseSafe` | at most `Limit - 1 + Writers` messages; nobody erases from an empty vector | a thread that decided to push has a place reserved below the bound (`Reserved`), one that decided to erase still finds a message for itself (`Backed`) |
| `MessageHistoryProofs!Refinement` | the history implements `BoundedLog` | each step is a post, a forget, or a stutter, given the two facts above |
| `MessageHistoryProofs!OrderOfRows`, `OrderOfFields` | a frame draws rows in order, none twice; the fields of a row never go back in the history, and no row uses a message of an earlier one | the messages held are the last ones posted, in order, and the number of those dropped never falls: what stands at place `i` is at least `Behind + i` from then on (`Contiguous`, `Drawn`, `Current`) |
| `SendQueueProofs!SingleWrite`, `NoFrameForgotten`, `BufferAlive` | one write; no lost wakeup; the buffer is the front | the "permission to write" is one token that is with the operating system, in the completion queue or in the completion; in the middle of a critical section token and queue disagree by exactly what is still to be done (`Agree`) |
| `SendQueueProofs!Refinement` | the queue implements `FifoSender` | the same invariant, with acknowledged frames removed from the front |
| `SendQueueProofs!OneClose` | a thread sends at most one close frame | the line of frames sent and still to be sent only grows at its end (`LineStep`, from the refinement); a thread about to add a close frame has set `closed` and has none in the line, because every close frame in the line implies `closed` (`CloseInv`) |
| `ClientProofs!PointerLive`, `SoleUsable`, `ClientPointer` | the pointer never dangles; a connection that was alone is usable | a worker that was never alive beside another has had the pointer to itself since it published (`SoleAlone`) |
| `ClientProofs!IdentityRefinement` | the client implements `Identity` | the identity moves only while the session runs, and without overlap at most one worker is connected, so a request sent over another connection than the asker's is sent only when connections overlapped (`IdentityControl`) |
| `ClientProofs!Announcement` | a registration carries no identity, unless its worker was alive beside another; a check-in carries one, unless the server gave the empty uuid | where a worker is in the session fixes where it is in the identity (`Place`); between the two reads of the uuid only another connection can store one, and an identity is replaced by another but never taken away, unless the server gives the empty one (`Announcing`) |
| `IdentityProofs!Kept`, `Current`, `RefusedKept`, `OnlyNewRegister` | the file keeps what was written; file and memory agree; refused files are left; only a user without an identity is registered | where each thread is determines what it is about to write (`Control`, `NewConfigCurrent`); an identity that the file had stays in memory in some form (`IdentityStays`) |
| `ConnectionProofs!CountOfBytes` | `num_additional_bytes` is exact | lengths of the buffer before and after each read, for frames of any length |
| `ConnectionProofs!HandlerOrder` | `on_open`, then messages, then one ending | `pc` says which handlers have run |
| `ConnectionProofs!HeadersFound` | headers and payloads are read where they begin | the frames sent are laid out one behind the other in the stream, and what lies ahead of the program is that stream from the place it has come to (`Starts`, `LaidOut`, `Position`); each read moves that place by what it took (`TakeLaidOut`, `ReadPlaced`) |
| `ConnectionProofs!Refinement` | the read loop implements `FrameReader` | by the same invariant the bytes handed to `Handle` are the payload of the next frame (`PayloadHandled`), whether or not the buffer held more |
| `MarkupProofs!PositionsInRange`, `NothingLost` | no position leaves the message; every character is shown or is markup of a pair, and none is shown by two segments that are plain or proper pairs | the parts that the segments stand for follow each other without a gap, because a segment is pushed from `prevEndPos` to `textBeginPos - 1`, which `InRange` keeps in order (`Parted`); a plain segment shows all of its part, and a pair nothing else if the length of its text was set behind its own "[" (`Inside`, `AfterBracket`, `UpToDate`) |
| `MarkupProofs!PatternsAreFound` | every `[text](data)` without brackets inside is a segment with exactly this text and data | in the middle of a pattern the parser remembers this pattern, whatever it remembered before (`InText`, `BeforeData`, `InData`) |
| `MarkupProofs!DrawingKeepsMarkup`, `NothingSkipped` | the drawing leaves the segments alone; what it has passed was drawn once, or is a blank or newline at the end of a line | everything drawn lies before `textStart` (`Behind`) |
| `StartupProofs!Reached` | the game's update is reached through at most one detour, unless a window was created while the last one's detour was in place | without overlaid windows there are zero or one detours, one detour means the pointer is trampoline 1, and an update that entered a detour finds it in place (`OneDetour`) |
| `StartupProofs!StaysOffline`, `Answered` | a refused start has no commands and no connection; each line has the one effect it calls for | where `ChatInit` is determines what exists; in the loop no earlier command had the line's name (`Scanned`) |
| `StartupProofs!Outdated` | a program stops as outdated exactly if the server knows a newer version, for parts of equal width | the number without dots orders aligned versions as the tuples are ordered (`AlignedOrder`) |
| `ChatWindowProofs!NoKeyStuck`, `PressGoesToOne` | no key is down for the game or ImGui that is up, unless its release came as a system key or went to another window; no press goes to both | each branch of a press tells at most one of the two, and only that key (`PressTells`); a release as `WM_KEYUP` takes it from both |

Type correctness is a theorem of each of these specifications.  It,
`MessageHistoryProofs!Overshoot` (the history exceeds its limit by at most one message
for every thread but one) and `SendQueueProofs!OneClose` are proved only; the runs check
what is built on them.  The longer inductive invariants (`InStream`, `InOrder`,
`CloseInv`) were model-checked on the instances of `read_loop`,
`message_history` and `send_queue` before they were proved.

Assumptions worth knowing: `MessageHistory` assumes that the limit is at least the
number of threads (`Chat.cpp:13` sets it to 200, and the threads are a handful);
`Identity` and `Client` assume nothing of the server: neither what it stores nor when;
`SendQueue` and `Websocket` assume nothing of the network.

Only model-checked, not proved: the liveness properties `StopReturns`, `NewestDrawn`,
`FramesLeave`, `AttemptReported`, `IdentityObtained`, `EveryFrameHandled`, `FocusServed`,
`MessageDrawn` and `HookLeaves`, because the prover reasons neither about fairness nor
about ENABLED.  That `Identity`'s theorems carry over to `Client` follows from
`IdentityRefinement` by substitution; the prover does not cite theorems through
INSTANCE, so they are not restated for `Client`.

## 5. What the checks found

- **Two close frames** (`send_queue_close`).  `send_close` tests `closed` and sets
  it in two steps.  Main (`/reconnect`) and the connection's thread, answering the
  server's close, can both pass the test, although the comment at
  `client_ws.hpp:242` says that close is sent only once.  The theorem
  `SendQueueProofs!OneClose` bounds the damage: each thread contributes at most one.
- **A message refused although connected** (`session_unable`).  `handle_close` and
  `handle_error` clear `WSConnection` without asking whether it still is theirs.
  After a reconnect, the late end of the old connection makes `Send` tell the user
  that there is none.
- **T does not open the window** (`chat_window_t`).  After a click on the close
  button `p_open` is false and `inputOpen` still true until the next frame; a T in
  between counts as a letter of the input.  `README.md:24` says that T opens it.

Behaviour that the models make explicit and that no document of the repository
speaks of, so that no property claims anything about it: `WSConnection` and
`Chat::uuid` are read and assigned concurrently; a row of the history may be put
together from four messages, and throws when the timestamp that line 189 found has
moved away before line 190; `setuuid` is obeyed at any time and whatever it carries, so
that a frame may leave with an identity that was replaced since, and a malformed uuid
in the file stops every later start; a message that ends in `]` after a
`[` makes `text.at` throw; a pair with an empty part (`a[](b)c`) shows the whole message
once more, and a pair whose text length is left over from an earlier one
(`[ab](c[)d`) shows text that follows it; Alt, or a key released under Alt, stays down
for the game or for ImGui if a click opened the input after the press; malformed data
from the server ends the process; a scroll
request between test and clear is lost; `freeCursor` stays set when the input is
closed by a click or by Enter; Return before the game's first update dereferences
null; two overlapping connections may both register, and a registration may travel
over another connection than the one that made it; `[x]([)` is shown as a link whose
text and data come from different places; a second space behind a command's name
counts as an empty argument, so that `/setuser  bob` has too many; versions are
compared without their dots, so that 1.10.0 is newer than 2.0.0; a second window
before the game's first update makes the detour call itself until the stack is full; a
segment whose first word does not fit on the line is drawn without any wrapping; an
update check that cannot be read counts as up to date.

## 6. Not modelled

- *`GrabLatestVersion`'s request*: the answer is any version, or unreadable.  It is
  made on the render thread and blocks the frame, in the model as in the code.
- *Failures of the file system*: `ofstream` reports nothing when it cannot open or
  write the file, and `UpdateConfig` does not ask.  The model's writes succeed, unless
  the process ends in between.
- *The arithmetic of `RunCommand`'s positions* (`Chat.cpp:69-83`): `Split` says what it
  yields.
- *Style, fonts, colours, generated JSON text, `OpenURL`*: looks, text and a call of
  the shell, without state.
- *Log, cursor and Lua hooks, pattern scan, exports*: attached once, or a search in the
  game's image, without an effect on the chat.
- *Lua functions and entity API, shared types*: wrappers around the game's state and
  its memory layouts.  `small_vector` is only ever read: no code of the program makes
  one grow.
- *The proxy, timeouts and `max_message_size` of the client*: the program leaves them
  at the defaults that disable them.  (With a limit set, `read_message_content` would
  report an error and a close for one connection, which `HandlersInOrder` excludes
  only because the default limit is never exceeded.)
- *Vendored code*: `json.hpp` (25 447 lines), `httplib.h` (7 628), Lua 5.1.4 (about
  17 000), and the server half of the WebSocket library.  It is most of the
  repository's lines and none of its own logic: JSON and HTTP are called as functions,
  Lua is compiled in as the game's own version for its API, the server is not used.
  What the program sees of it (an answer that parses or not, a frame that arrives or
  not) is in the modules above.

## 7. Plan

What is left, in this order:

1. *Identity in the client*: restate `RegistersOnlyNew` and `FileIsCurrent` for
   `ClientSpec` with the pointer's own condition for "no overlap" (`contended`).
2. *Scroll request*: state which newest line is not scrolled to when a request falls
   between test and clear.
3. *Abstract specifications*: prove of `FrameReader` that the delivered messages are the
   payloads sent, and of `BoundedLog` that it holds the newest entries.
