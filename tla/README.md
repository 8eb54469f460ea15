# A verification project for exifmodern

exifmodern is a Python reimplementation of ExifTool: a library and a command
line that read and write metadata in some two hundred file formats. Most of its
417,000 lines are decoders and generated tables: pure functions of bytes. What a
test hardly reaches is elsewhere: in how a written file gets to the disk, in the
sessions that keep a process alive between commands, in the server that runs
commands for several clients in one process, and where a rewrite moves bytes that
other bytes point to. This project models those parts in TLA+, checks them with TLC
on small instances, and proves what matters most with TLAPS for instances of any
size.

Paths below are relative to `src/exifmodern/` of the repository.

## Inventory

| Part | State it keeps | Operations | What is hard | Correct when |
|---|---|---|---|---|
| File transactions, `file_transaction.py` | target, backup, temp and rollback files in one directory | three writers, two fsync helpers, one restore | other processes between two system calls; failures of any call; exceptions that are no `OSError`; kills; power loss | the target is never partly written; a returned call is durable; the original survives; a raised call did all or nothing; nothing is left behind |
| Stay-open session, `public_interface/batch_protocol.py` | buffered text, pending arguments, pending value option, stack of includes, waiting-for-switch flag | `feed`, `poll_eof`, `finish_argfile`, `shutdown` | text cut anywhere; includes with text behind them in the same chunk; switches from inside includes | exactly the ordered commands run, in order, and all of them |
| Stay-open drivers and hosts, `public_interface/stay_open.py` | current source, stack of sources, the poll supervisor's event; opened files of the replay | read, push, switch, return, sleep, SIGCONT; replay | two stacks, the host's and the session's, that must agree; end of file that is no end; signals; two drivers for one protocol | as above; the loop ends exactly when the text says so; no signal is lost; both drivers run the same commands |
| JSON-line server, `public_interface/server_mode.py` | `_CLI_CAPTURE_LOCK`, `sys.stdout`, `sys.stderr`, a thread per connection | read line, run command, respond, time out | process-wide streams shared by threads; exceptions outside the lock; clients that go away | each response holds its own request's output; streams are restored; every request is answered in order or its connection ends |
| Write output routing, `public_api/models.py`, `public_interface/output_policy.py` | the output paths of a request, bytes made, changed paths | classify, reserve names, read, write, erase the source, emit | check-then-act against other processes; failures between write and erase; two sources with one output | no file is overwritten; a source goes only after its output is there; the reported paths are true |
| Write executor, `public_api/write_executor.py`, `import_write_executor.py` | changed paths and diagnostics of a request | per path: read, compute, write | one path of several failing; edits of others between read and write | a failed path stops no other; the result says which |
| QuickTime writers, `formats/quicktime/*_writer.py`, `sample_chunk_offsets.py`, `atoms.py` | the data so far, the atoms encoded, the mdat chunks found | rewrite, encode, compute deltas, repair | absolute offsets into media that moves; 64-bit headers that shrink; several steps, each on the result of the last | every sample stays where the tables say, or nothing is written |
| Staged write API, `api.py` | immutable request objects | build, validate, write | temporary file of an in-memory write | sequential |
| Write plans, `write_plan.py` | ordered actions | plan | none | sequential data |
| Read graph, `read_graph_runtime/` | nodes still to visit | visit, decode | bounds of the traversal | each node once |
| Command line, `public_interface/entrypoint.py` and others | none between commands | parse, dispatch | none | stateless |
| Safe expressions, service records, other formats, composites, data packages, traversal | read-only data or none | pure functions | none that state exploration reaches | tested against ExifTool |

How they interact: the command line, the stay-open loop and the server all end in
the same `main(argv)`. A write command goes through the executor (or the routing,
with `-o`) and, per file, through one of the three writers of
`file_transaction.py`; for a QuickTime file the bytes it writes come from one of
the three QuickTime writers. The stay-open loop calls its host and its session in
turn and has to keep their stacks in step, and sleeps through its supervisor, whose
signal handler runs inside the loop's own thread. The replay shares the session's
parser and nothing else. The server's threads share the process's
streams and nothing else.

The hazards found on the way are in `PROJECT.json`, each at its line, with the
property that would catch it or the reason why none does.

## Modules

| Module | Models |
|---|---|
| `FileTransaction` | the three writers of `file_transaction.py` on a POSIX file system |
| `AtomicReplace` | what the writers promise: a register, replaced in one step |
| `MCFileTransaction` | instances: a process per writer |
| `FileTransactionProofs` | types, and the target that is always whole |
| `FileTransactionCallProofs` | what the calls promise: the register, durability, the original, all or nothing, clean-up |
| `WriteOutput` | `write_metadata`, in place and with `-o`: which paths are written and erased, by several processes |
| `MCWriteOutput` | thirteen kinds of request |
| `WriteOutputProofs` | theorems about each process of `WriteOutput` by itself |
| `WriteOutputApartProofs` | theorems about processes whose outputs are apart |
| `QuickTimeRewrite` | the QuickTime writers and the repair of sample chunk offsets |
| `MCQuickTimeRewrite` | twelve layouts of a file, and the plans of the three writers |
| `QuickTimeRewriteProofs` | theorems about `QuickTimeRewrite` |
| `StayOpenSession` | `PersistentStayOpenSession` and its parser, as functions on a record |
| `StayOpenLines` | what a session promises: a reader that obeys one line after the other |
| `DiskPollSupervisor` | `StayOpenDiskPollSupervisor`: the sleep at the end of a file, and SIGCONT |
| `StayOpenLoop` | `run_stay_open_process_loop` over `FileStayOpenInputHost` and the supervisor, with a client that appends and signals |
| `StayOpenReplay` | the default driver of disk ARGFILEs, which reads them once |
| `StayOpenReference` | the commands a set of files orders, read as one text |
| `MCStayOpenLoop` | small ARGFILEs, and the promise of `StayOpenReference` as properties of both drivers |
| `StayOpenParserProofs` | lemmas: what the parser makes of a text, however it is cut |
| `StayOpenLoopProofs` | the loop, its host and its session implement the reader of `StayOpenLines`, and the default driver follows the same reader |
| `JsonLineServer` | `server_mode.py`: threads, lock, streams |
| `JsonLineServerProofs` | the streams; order and contents of the responses |

### FileTransaction

One action is one system call of a writer, or a few that touch only files nobody
else can see, so that another writer, a failure or a power loss fits between any
two. `dir` is the directory: the target, its `_original` backup, and the temp and
rollback names of each process (they carry `os.getpid()`). Names lead to inodes;
`content` and `synced` belong to inodes, so a writer that holds a file open keeps
writing to it when the name moves. `snaps` are the directories a power loss may
leave: all since the last fsync of the directory. `pc[w]` is the writer's next
system call, and the actions follow the code in order:

    Begin -> Check -> OpenTemp -> FillTemp -> SyncTemp
      write, overwrite_original  -> Commit
      create_backup              -> CheckBackup -> MoveToBackup -> Commit
      copy_back                  -> SaveRollback -> OpenTarget -> FillTarget -> SyncTarget
    -> Utime (in place) -> SyncDir -> UnlinkTemp (-> UnlinkRollback)

Every step can fail with `OSError` (`Fails`; `NotFound` when the state itself
makes it fail), and `Handler` says which `except` or `finally` comes next:
`UndoBackup` after a failed commit, `RestoreOpen` and `RestoreFill` after a failed
copy-back. `Interrupted` is an exception that no `except OSError` catches,
`Killed` ends a process without its `finally` clauses, `PowerLoss` loses unsynced
contents and falls back to a snapshot. A partly written file holds `Torn`; the
bytes themselves are model values. `Utime` changes nothing the properties see and
stays because it can raise after the commit.

`found[w]` and `solid[w]` are what a call found at the target and whether that was on
disk; `OkIsDurable` needs both. A call that returned leaves its data on disk, and with
`create_backup` the file it replaced as the backup. That file is renamed and never
synced again, so the backup is as durable as the target was: it may be torn after a
power loss if the target was what a failed copy-back had restored
(`restore_file_from_backup` syncs the directory and not the file, a hazard of the
list). `TypeOK` says beside the types that a writer holds a file open exactly during
the steps that write to it (`Writing`, the bodies of the `with` blocks).

What the model leaves out: the values of times and permissions, directories that
are missing, platforms without `O_DIRECTORY`, and a system call that fails after
part of its effect (the torn states before the last byte stand for that).

### WriteOutput

A process carries out one request of `write_metadata`. `Classify` is
`classify_public_write_output_route`: no output may exist, be its source, or, with
tokens in the template, be named twice. `EffectivePaths` expands the template with
the copy counters of `output_policy.py` (`NextUnused`: the first name that is free
and not reserved). It is stated as the one member of `Expansions`, the functions
from sources to paths that satisfy this, and not by recursion, so that it can be
proved about. Then the routes differ as in the code:

    rewrite, one literal name for several sources:
        per source CheckTarget -> ReadSource -> WriteOutput -> EraseSource
    rewrite, extract:  ReadSource of all -> WriteOutput of all -> EraseSource of all
    sidecar:                                WriteOutput of all -> EraseSource of all
    to stdout:         ReadSource of all -> EraseSource of all -> EmitBytes
    in place:          per source ReadInPlace -> WriteInPlace, and on after a failure

A file is the image it holds and the processes whose edits it contains, which is
what the properties tell apart. Writing one path is one step, as `FileTransaction`
shows it to be for the rename-based writers; a failed write may leave the file
written (its directory's fsync failed) or not. `WriteFails`, `ReadFails`,
`FailInPlace` and a kill are bounded by `MaxFaults`. A source that another process has
moved away since it was read is no fault: an in-place write checks for it and the path
gets a diagnostic. The extract route catches no `OSError` when it reads: the request
ends with an exception (`"raised"`) and not with a result. A template is a function from
sources to candidate names; making the bytes is one step.

`NothingLost` and `NeverOverwrites` hold for processes whose output names are
`Apart`: the check for an existing output comes long before the write, and two
processes that pick the same `%c` name write it both (a hazard of the list).
`OverwritesItself` is the other exception: only the rewrite route has a literal
variant that asks again before each source, so two sources with one literal
extract or sidecar name overwrite each other.

### QuickTimeRewrite

A file is its top-level atoms, each with its place and the identity of its payload,
and its stco/co64 tables. Every stage of a rewrite copies the atoms in order,
resizing `moov` and `meco` and dropping or appending XMP, so one walk (`WalkAtom`,
`DropAtom`, `EndWalk`) stands for all of them. It encodes 8-byte headers only, as
`encode_quicktime_atom` does, which is why media with 64-bit sizes moves even when
nothing is resized. `FinishStep` is the end of a step: only a broad delete
(`-all=`) that saw a table repairs, with the checks of
`repair_sample_chunk_offsets_after_rewrite` (`CanRepairAll`); the result is the
data of the next step. A plan comes to its writer: the executor (one step, never a
repair), the fan-out (one step; a stage that cannot do its part gives the data
back), the setup writer (several steps). `BeginStep` refuses what
`HasUnsupportedOffsets` finds, `Raise` stands for every `ValueError`: an atom whose
8-byte header would not hold its size (`Encodable`), or, when the walk reads the
atoms, one too short for its own header.

Left out: what is inside `moov` except for its size and its tables; the values
written; rotation; the `iloc` and CTBO ledgers of HEIC and CR3, which the model
only knows as offsets that are refused.

### StayOpenSession, StayOpenLines, StayOpenLoop, StayOpenReference

Text is a sequence of line contents and `NL`. The parser looks at a line only
once its end is there, so a cut inside a line is the same as one before its
`NL`; a chunk may otherwise end anywhere. The session is a record with the fields
of `StayOpenParseState`, the stack of includes, the waiting flag, and the history
`runs` of commands with their ready markers; `Feed` and `FinishArgfile` are the
methods of the same names. `parse_stay_open_stream` first makes frames of all
complete lines and `_process_frames` then obeys them; since the parser stops at
an argfile control and no frame depends on a later one, both are done line by
line: `Take` puts the next line or line end into the buffer, `Accept` obeys a line
whose end is there, and once a control has stopped the update `Take` only buffers.
`TakeAll` takes a text in turn (a recursive function, so that it can be proved
about), and `Settle` does what is left to the session: push the parent, or
forget everything. `The` picks the one member of a set: it has TLC evaluate a
session once where it is used often. `Command` starts with `CommonArgs`; the effects of a trusted
configuration on the arguments and the lexing of a line are abstracted (the replay
reads with universal newlines and takes a lone carriage return for the end of a line,
the loop does not; lines here have one kind of end).

A command may raise (`Raising`, external: which ones do is the command line's). A
refused command ends in `parser.error`, and its `SystemExit` is caught in batch mode
(`entrypoint.py:2220`) and by the server (`server_mode.py:205`), but neither by the
session nor by the loops over it. So it ends the session as the protocol errors do, in
the middle of the frame and with no ready marker (`Run`), and what was ordered behind
it is never run; `StayOpenReference` and `AllOrdersObeyed` say the same.

The loop is `ReadChunk` and `ReturnFromArgfile`, each with the host's reaction in
`Follow`: push (refusing the current file and a missing one), switch, stay, close,
or raise; and at the end of a persistent file `ReachEof`, `PollEof` (whose update
the code does not look at) and `Sleeping`. `ClientWrites` appends to the main file
at any time, between the read that found the end and the sleep too.

`DiskPollSupervisor` is the sleep: take the Event's lock and test it, wait, leave,
clear, go back to read. `SigCont` is the handler, which Python runs in the loop's
thread between any two of these steps. If the interrupted step is inside the Event
(`Locked`), the handler waits for the lock of its own thread, for ever: the model
goes to `"stuck"`, and `AllOrdersObeyed` names that as its exception. The Event is
the standard library's, modelled from what `sleep` and `notify_cont_signal` call.
A loop over `time.sleep` (the top-level `-@ -`) is the case without signals.

`StayOpenReplay` is the driver that disk ARGFILEs get by default: it reads what the
files hold now and ends. It shares the parser (`Accept`), but obeys the frames in
code of its own: an include is a recursive call that hands the command in progress
in and gets its state back, a switch returns through all of them to the driver, which
refuses a file it has opened before. The calls in progress are a stack (`calls`), and
one step, `ProcessChunk`, is the next chunk of the innermost or its return
(`EndOfChunks`); `Replayed` is the replay after so many steps, a recursive function,
so that it can be proved about. A file is read where it is opened; since only the
main file grows, and no other names it, to look its lines up later is the same.
`MaxDepth` stands for Python's recursion limit. `DriversAgree` says of each moment of
the loop that the driver, started on what is written then, comes to an end and runs
what the loop has run.

`StayOpenLines` is what the loop, its host and its session promise together, as an
abstract machine: a reader at a place of a file, with the includes below it, that
obeys the next line, or the end of an include, with `Accept`. It knows no chunk,
buffer or host. `Abstract` is the reader that a state of the loop amounts to (what
is buffered is not read yet), and `LineByLine` says that every step of the loop
takes this reader some lines further: none skipped, repeated or taken back.

`StayOpenReference` is the same promise by another route, to check `Accept` and the
order of commands too: obey the lines of a file, and the lines of an included file
where it is included, as one recursive definition.

### JsonLineServer

A thread per connection, in the steps of `_run_public_cli_captured`: take the
lock, redirect stdout, redirect stderr, run, restore both in reverse, release,
respond. `stdout` and `stderr` are the process's, as in the code; `out` and `err`
are the buffers of a request, and `saved` is what a redirection restores. A
request is one of six kinds, by what becomes of it; which, is chosen when its
line is read, and `kind` is that of the last command. An `"undecodable"` line makes
`_decode_request` raise what nobody catches, outside the lock. Any write of a response
may raise: the client is gone, or does not read until the time is up. `HandleError` is
`socketserver`'s: it prints a traceback to `sys.stderr` wherever that leads (in several
writes; one step stands for them, since a part of it in a response is as foreign as
all), and `ShutDown` then closes the connection.
JSON decoding and the start of the server are left out.

## Runs

| Run | Instance | Shows |
|---|---|---|
| `ft_concurrent` | 2 processes, rename-based writers, 1 failure of any kind, 2 calls | `TargetWhole`: never a torn or unsynced target, in any directory a power loss may leave; `TypeOK`: no file stays open behind a step; `AtomicSpec`: the writers implement `AtomicReplace` |
| `ft_backup` | 1 process with backups, 3 failures, 3 calls | `OriginalKept` over retries; `OkIsDurable`; `CleansUp`; `TargetWhole` |
| `ft_raise` | 1 process, all four kinds of call, no target at first, 1 `OSError`, 3 calls | `AllOrNothing` when a call raises, `CleansUp`; `OkIsDurable` after a copy-back that failed and was rolled back, too |
| `ft_rollback` | copy-back, 2 `OSError`s | violated: the rollback copy is deleted after a failed restore |
| `ft_backup_race` | 2 processes with backups, no failures | violated: the second replaces the first one's backup |
| `wo_routes` | 2 processes, any two of 13 requests, 5 paths, 3 failures or kills | `NothingLost`: a moved image is always whole somewhere; `NeverOverwrites`; `HonestResult`: the reported paths are true; `OthersWritten` |
| `qt_repair` | 12 layouts, executor, fan-out and two-step setup plans, metadata that shrinks by 12, stays, grows by 5, XMP of 3, 60 and 61 bytes | `MediaKept`: after a plan of broad deletes every offset into media points to the same byte of the same media; `EntriesFit`; `CleanNeverBlocked`: a file that the repair can handle is not refused, by a second step either |
| `qt_shift` | a fast-start file, the executor | violated: a tag write moves the media and repairs nothing |
| `so_nested` | nine sets of files, one command that raises, every cut, every pace of the client, signals at any time | `RunsAsOrdered`: no command early, twice or with arguments of another; `AllOrdersObeyed`: in the end all of them, and the right end; `StacksAgree`; `LineByLine`: the loop implements the reader; `ReplayAsOrdered`, `DriversAgree`: the default driver, started at any moment, ends and runs the same; `NoLostWakeup` |
| `so_desync` | an include named by an unterminated last line | violated: `StacksAgree`; the outer file's buffered commands are lost |
| `js_faults` | 2 connections, 2 requests each, all six kinds, crashes, timeouts and hang-ups | `StreamsRestored`; `ForeignOnlyFromEnded`: a response holds its own output, and at most the traceback of a connection that is over; `InOrder`; `Answered` |
| `js_traceback` | the same with four kinds | violated: a traceback in another client's response |

Every property of a passing run has a mutant of the code in `PROJECT.json` that
TLC finds to violate it.

Bounds. Two writers are enough for every order of two calls, and the only shared
names are the target and the backup; the proof covers more. Three failures of one
writer reach a kill between the two renames, a retry that fails and a retry after
that. The inodes of each instance are enough that none runs out (an `OpenTemp`
without a free inode would block; it was checked that none does). Two processes with two
sources each meet in every way that routing knows: one output name for two
sources, for two processes, an output that is a source; three faults are a failed
write, a failed erase and a kill. The files of `MCQuickTimeRewrite` have two media
atoms at most, which is what it takes to confuse them, one for each reason of a
refusal, and `Max32` is 68 instead of 2^32 - 1, so that a 5-byte growth moves an
entry past it; a `moov` that has less than 12 bytes does not shrink by 12; an XMP of 60
bytes is the largest that an 8-byte header can hold then, and one of 61 raises. The
stay-open
scripts have two levels of includes, which is where a stack can go wrong, and
each has a case of its own, named in `MCStayOpenLoop`; the command that raises comes
once inside an include, with the parent's commands behind it, and once at the end; no
script contains an
include cycle (the code nests without bound) or leaves a value option open at the
end of an included file (what it should mean is not said anywhere: the session
forgets it, the replay carries it over). `Counts` bounds how many lines one step may
obey in `LineByLine` and how many steps a replay may take: no script needs more than 20
(the theorems take every number). `MaxDepth` is 4, one call more than the deepest chain
of includes, so that only the file that includes itself meets it.
Two
connections show every interleaving of two redirections, and two requests each
show a buffer, a reply or a lock that is left over from the one before.

`CHECK_DEADLOCK FALSE`: calls, requests and scripts are bounded, a session ends
with `-stay_open False`, a connection with its last request, a rewrite with its
plan, a process with its request.

Fairness. `FileTransaction`, `WriteOutput` and `QuickTimeRewrite` have safety
properties only. `StayOpenLoop` assumes that the loop takes its next step (it is a
plain `while True` whose only wait is a 10 ms sleep) and that the client writes
what it has to write; it assumes nothing of signals. `JsonLineServer`
assumes that every thread takes its next step: main returns or raises, and a read or
a write ends at the latest after `read_timeout_seconds`. Weak fairness is enough for the
capture lock there because each client sends a bounded number of requests; Python's
lock promises no order, and a command that never ends starves everybody (a hazard
in the list, with no property).

## Findings

1. A copy-back whose restore fails deletes its rollback copy (`ft_rollback`).
2. The check for an existing backup is not atomic with the rename
   (`ft_backup_race`).
3. An include named by an unterminated last line leaves the session's stack and
   the host's different (`so_desync`).
4. The capture lock does not cover `socketserver`'s error output
   (`js_traceback`).
5. A QuickTime write that is no broad delete changes the size of `moov` and leaves
   the sample chunk offsets behind it as they were (`qt_shift`).

The texts they contradict are quoted in `PROJECT.json`.

## Proofs

`FileTransactionProofs`:

- `Typing`: `Spec => []TypeOK`, from `ConstantsAssumption` alone. It rests on
  `FreeIsFresh` (a free inode is no inode of the directory) and one lemma per
  kind of step.
- `TargetAlwaysWhole`: `Spec => []TargetWhole`, for any number of writers, calls
  and failures, assuming that no two writers share a process (`OwnPids`) and that
  only the rename-based writers are called (`RenameOnly`; a copy-back tears its
  target by design). `TargetWhole` is not inductive. `WholeInv` adds that the
  backup is whole as well, because `UndoBackup` makes it the target; that a file
  with a temp name is not also, in any directory a power loss may leave, a target
  or a backup (`Apart`), because otherwise filling it would tear them; and that a
  writer about to commit has synced what it commits (`WriterReady`). `WholeInv`
  was checked with TLC before it was proved.

`FileTransactionCallProofs`, on the same invariants:

- `ImplementsRegister`: `Spec => AtomicSpec`, from `OwnPids` and without backups
  (`NoBackups`: between the two renames of a backup the target is missing, which a
  register never is). `CallInv` says where such a call can be and what its temp file
  holds; then `Commit` is the replacement, `SyncDir` makes it durable, `Finish`,
  `Raise`, kills and power losses end a call, and every other step shows nothing,
  because the files it fills are, by `WholeInv`, in no directory as a target.
- `OkAlwaysDurable`: `Spec => []OkIsDurable`, for one caller (`OneCaller`; a second
  may replace the target at any time) of any of the writers, copy-back too.
  `DurableInv` follows the data of the call and the content it found through each
  step, up to both being in every directory that a power loss may leave; the content
  found may be torn on the way when it was not on disk (`solid`).
- `RaisedCallsDoAllOrNothing`: `Spec => AllOrNothing`, for one caller of any of the
  writers. `NamesInv` says that in every directory a power loss may leave the
  caller's temp and rollback names lead to files of their own, so that writing
  them changes no target; `StageInv` what the target, the backup and the rollback
  hold at each step, the steps of the undo and the restore included. Two hypotheses
  say where the code makes no such promise. `HandledFailures`: an exception that no
  `except OSError` catches strikes only calls without a backup or copy-back; between
  the two renames of a backup it leaves no target, in the middle of a copy-back half
  of one. `RestoreOnce`: a copy-back meets one failure; a second can strike its
  restore (finding 1).
- `OriginalAlwaysKept`: `Spec => []OriginalKept`, for one caller that always keeps a
  backup (`BackupOnly`) of a file that is there at first (`TargetExists`). A rename
  takes a name from one file only, and `CallerInv` shows that this is never the last
  name of the original: the backup's name is free when the target moves there, the
  target's when the temp file or the backup does.
- `AlwaysCleansUp`: `Spec => CleansUp`, for all writers, copy-back too, from
  `OwnPids`.

`JsonLineServerProofs`:

- `StreamsAlwaysRestored`: `Spec => []StreamsRestored`, from `ServerAssumption`.
  `StreamsInv` adds that a thread is between `Acquire` and `Release` exactly while
  it holds the lock, and where the streams lead at each of its steps.
- `ServerTypes`: `Spec => []TypeOK`, and `AnswersInOrder`: `Spec => []InOrder`.
  `OrderInv` counts: between reading a request and responding a connection has one
  response less than requests, while it reads as many; one that raises or has ended
  may be one short, or one over after the answer to a read that timed out.
- `OutputKeptApart`: `Spec => []ForeignOnlyFromEnded`. `OutputInv` says what the
  buffer of a request holds at each step of its thread, given `StreamsInv`; a
  connection whose traceback is printed is `Final`: it prints and answers nothing after.

`QuickTimeRewriteProofs`, from `QuickTimeAssumption` (atoms do not overlap, entries
fit to begin with), for any files, plans, growths and sizes:

- `Typing`: `Spec => []TypeOK`.
- `BroadDeletesKeepMedia`: `Spec => []MediaKept`, and `EntriesAlwaysFit`:
  `Spec => []EntriesFit`. `IInv` adds that the atoms of the data so far do not
  overlap, that what the walk has encoded lies in order below `pos`, and that the
  chunks it noted are pairs of an `mdat` and its copy (`MdatsPaired`). Then an
  offset is in at most one `mdat` (`Placed`), the repair finds that one and no
  other, and its delta takes the offset to the same byte of the copy.
- `CleanFilesAlwaysRepaired`: `Spec => []CleanNeverBlocked`. `CleanInv` says that in a
  setup plan of broad deletes on a `Clean` file the data of every step is `Clean`
  again, what the repair has written included, that the walk has noted every `mdat`
  it passed with the size and identity of its copy (`ChunksNoted`), and that the
  repair starts when the walk is complete. Then every entry is found in a chunk
  (`LeastExists` gives the first, which the code takes), and every check passes.

`WriteOutputProofs`, from `WriteOutputAssumption` (a template without tokens gives
one name for all sources), for any number of processes and failures:

- `Typing`: `Spec => []TypeOK`, and `ListsWhatWasWritten`: `Spec => []HonestResult`.
  `LocalInv` says of each process by itself which stages its route has, that there
  is a path and a content for each write to come (`Supplied`), that a literal route
  has one path (`Chosen`), and at each stage what is written and not listed
  (`Listed`): a failed literal read forgets its listed paths, and there is one.

`WriteOutputApartProofs`, of processes whose outputs are `Apart`:

- `NothingOverwritten`: `Spec => []NeverOverwrites`. `NamesInv` adds that a file with
  a name of a process's template was there at first or is its own, so that routing
  would still decide the same when the paths are taken anew, and that the next
  target is free (`Targets`).
- `MovesKeepImages`: `Spec => []NothingLost`. `KeepInv` adds that a path of an image
  holds that image or nothing, that no source read is also a target (`Copies`), and
  that the copy of a source is there when the source is erased (`Written`).
- `FailureStopsNobody`: `Spec => []OthersWritten`. `EditInv` adds that a file has a
  process's edit only when that process has written it, because a file that has the
  edit already is skipped.

These invariants were checked with TLC on the instance of `wo_routes` before they
were proved.

`StayOpenLoopProofs`, with the lemmas of `StayOpenParserProofs`, for any files,
cuts into chunks, clients and signals:

- `WakeupsKept`: `Spec => []NoLostWakeup`. `SleepInv` adds that from the read that
  found the end of the file until the wait, the Event remembers a signal, and that a
  sleeping loop's Event is not set.
- `ReadsLineByLine`: `Spec => LineByLine`, the refinement of `StayOpenLines`, where
  `Counts` is `Nat`. The parser's part is `Parsed`: a session that has taken the text
  of a file up to some place is the reader after the lines of it that have their end, with the rest in
  its buffer; it holds after every `Take`, for every text. `Kept` says the same of
  the includes in progress, frame of the session by source of the host, and
  `LoopInv` of the whole loop.
- `HostAndSessionAgree`: `Spec => []StacksAgree`, and `LoopTyped`: `Spec => []TypeOK`,
  from the same `LoopInv`.

- `ReadsWhatIsWritten`: at every moment the session is the reader of what is written
  by then (`WrittenSoFar`, of which `LoopInv` is stated): no command waits for, or
  anticipates, what the client writes later.
- `DriversRunAlike`: `Spec => []DriversAgree`. `Matches` relates a state of the replay
  to a reader of `StayOpenLines`, and `ChunkFollows` shows that a step of the one is a
  step of the other: so the replay `Tracks` the reader from the start of the main file.
  It ends (`ReplayEnds`) by Induction over the ranks of the files, from the highest
  down: a call of a file is left if every call of a file of higher rank is, because
  what remains of the file gets shorter (`NextLeaves`, `HigherLeaves`). Then the
  reader at the end of the replay and the one that the loop amounts to are on the same
  way from `Start`, and the former has nothing left to obey: so the loop's commands
  come first in the replay's, and if the loop has ended they are the same.

These all but the first have two hypotheses on the files. `EndedIncludes`: no included file
ends in an unterminated line that names an include or a switch. There the two stacks
part, which is finding 3. `MainUnnamed`: no line names the main ARGFILE. It is the
only file that grows while it is read; included from elsewhere it would end wherever
the client is just then, and what the commands are would be a matter of pace. The
files of `so_nested` satisfy both, which TLC checks (`FilesAssumption`). Which commands
raise is a constant of any value.

`DriversRunAlike` has two more, each where the drivers are known to part (two hazards
of the list). `OptionsClosed`: no included file ends in an option that waits for its
value, which the session forgets and the replay carries over. `Ranked`: the files
that name one another in an `-@` have ranks, up to `MaxDepth`, so that neither an
include nor a switch comes back to a file in progress; the host refuses the current
file only, and the replay refuses at Python's limit, after running what comes before
the include that many times. All files of `so_nested` satisfy these but one, the file
that includes itself, for which TLC shows `DriversAgree` all the same.

Induction over the numbers (how many tokens a text has, how many lines a reader has
obeyed) is the lemma `Induction` of `StayOpenParserProofs`: a set with 0 and with the
successor of each of its members holds every number, since among the intervals that
end in one that is missing there is a least one, by the well-foundedness of finite
sets.

Only model-checked: `RunsAsOrdered` and `ReplayAsOrdered`, because `StayOpenReference`,
the reference of both, is a recursive operator, which the provers do not support (what
they say of the two drivers together, `DriversAgree` says without it), and the
liveness properties `AllOrdersObeyed` and `Answered`. The runs that find a
violation show what is false, so there is nothing to prove of theirs.

## Not modelled

Readers, codecs, composites, rendering, generated tables and the writers of other
formats are pure functions of large inputs: a reference for them would be a second
implementation, and ExifTool is that already. Argument parsing and dispatch keep no
state. The staged write API, the write plans and the read graph are sequential over
immutable data, with no step at which something else could happen. Exit codes (the
maximum over the commands of a session) and the lexing of a line are data that no
property here tells apart.

## Plan

In this order:

1. Proofs: `OriginalAlwaysKept` for callers that mix the writers.
2. The server's life cycle: bind, unlink and shutdown of the Unix socket.
3. The offset ledgers of HEIC (`iloc`) and CR3 (CTBO), in the manner of
   `QuickTimeRewrite`.
4. The visit bounds of the read graph.
