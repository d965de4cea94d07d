# BusyScout: specification and proofs

BusyScout copies files to and from small Linux devices of which little more is
known than a Telnet login and a BusyBox shell. This directory holds TLA+
modules of its transfer core, the TLC configurations that check them, and the
proofs TLAPS checks. Paths are relative to the repository.

The question behind all of it: *a command can time out for the client and still
be run by the device, at any later moment, or never*. A transfer that retries,
falls back to another method, or cleans up has to be right for all of these.

## 1. Inventory

| Component | State | Operations | Module |
| --- | --- | --- | --- |
| printf push (`scout/push_printf.go`, `helpers/upload.go`) | job queue, `stopped`, `results`, workers; on the device: fragment directory, fragments, destination | begin, mkdir with retries, worker loop, upload lines, size check, join in batches, final check, cleanup | `PrintfPush` |
| reverse TCP push (`xfer/listener.go`, `helpers/src/fileloader.c`) | the select of `pushConnection`, writer, reader, deadlines; the fileloader; the TCP connection | accept, write, read reply, select, close; read header, open, copy, close, reply, drain | `FastPush` |
| reverse TCP pull (same files) | `AcceptAndPull`, the fileloader, the file | accept, read announcement, size and data, write local file; open, announce, send | `FastPull` |
| choice of method, life of the loader (`scout/mode.go`, `scout/scout.go`, `xfer/loader.go`, `xfer/push.go`, `xfer/pull.go`) | method, class of error, listener, loader directory and process | detect, upload and launch the loader, accept, serve, close and clean up, fall back | `Transfer` |
| Telnet session (`telnet/telnet.go`, `telnet/checked.go`) | reader's buffer, escape state, read deadline | login of `Dial`, `Execute`, `ExecuteChecked` | `TelnetSession` |
| printf pull (`scout/pull_printf.go`, `pullPrintf` in `scout/scout.go`) | one plain session, the local file | three encoders, decode, write the local file | `PullPrintf` |
| remote path check (`scout/remote_path.go`, `New` in `scout/scout.go`) | the chosen destination; on the device: what a path is | classify the given path, and the path inside it when it is a directory | `Transfer` |
| detection (`internal/detect`) | the fingerprint, one plain session, the helper at a fixed path | ask and parse (phase 1, probe of the system), upload, run and parse the helper (phase 2), derive time_t | `Detect` |
| loader and helper variants (`helpers/fileloader.go`, `helpers/helpers.go`), ELF reader (`helpers/src/elfreader.c`) | - | selection by ISA, byte order and libc; print an ELF header | in `Detect`; a choice in `Transfer` |
| addresses (`scout/files.go`, `xfer/subnet.go`), command line (`main.go`), test support (`testutil`) | - | parsing and printing | not modelled |

How they interact. `main` makes a `Scout` and calls `Push` or `Pull`, which
call `runTransfer` with a fast and a printf method; `New` has classified the
destination of a push before, in sessions of its own. The fast method opens a
session, uploads the fileloader through it with `UploadData`, launches it and
waits for it to connect back; the listener owns the loader directory and
removes it when it is closed. The printf push opens a session of its own for
its commands and one for every attempt of every fragment and for every size
check, from up to `threads` workers. Everything that changes the device goes
through `ExecuteChecked`; the printf pull and the detection use `Execute`. Phase 2
of the detection uploads its helper with `ExecuteChecked` and runs it with
`Execute`, in one session.

What is hard:

* **Late commands.** Closing a Telnet connection does not stop the shell behind
  it. The retry of a fragment, the removal of the fragment directory and the
  fallback to another method all race with commands nobody waits for any more.
* **The worker pool.** Workers stop on each other's errors; a worker that was
  told to stop has no error of its own; `results` is read only after the join.
* **The select of `pushConnection`.** The refusal of a device, the end of the
  write and the deadlines come in any order, and a reset may destroy the reply.
* **The fallback.** Only an error from before any data may be retried, while the
  fileloader of the failed attempt may still be about to connect.
* **The stream of a session.** After a timeout the next reply is preceded by what
  is left of the previous one; output may look like a prompt; the terminal
  query of BusyBox may come before or after the client goes on.
* **The file of a pull** changes between its size and its last byte.
* **The destination of a push** is checked in one session and opened in another,
  and what it is may change in between.
* **What a device says of itself.** `uname` and `/proc` speak of the kernel, the ELF
  header of the userland, defaults are guesses, and after a timeout an answer may
  belong to another question. Two detections share one helper path.

`PROJECT.json` lists these hazards at the lines where they bite, with the
properties that would catch them.

## 2. Modules

**`Upload`** (abstract): what a push promises about a destination. It is `idle`,
begins `writing`, and ends `ok`, `refused` or `broken`; the destination changes
only while writing, or after a broken end; success is reported only for contents
in `Complete`. Five detailed modules are shown to implement it, each with its own
`outcome`, destination and `Complete`: for `PrintfPush` any contents of the right
size (that is all the code compares), for `FastPush` exactly the file, for
`Transfer` the work of exactly one method, for `FastPull` the local file, and
for `PullPrintf` any contents (it has nothing to compare with).

**`PrintfPush`**: `pushPrintf` and what it calls. `pc` is the place of the main
goroutine, `wpc/job/attempt/line` those of the workers; `next`, `stopped` and
`results` are the two channels and the queue. `dirs`, `frag` and `dest` are the
device. A unit is one `printf` line; the file is 1, 2, ..., and 0 is a unit of
the old destination. A command that times out goes to `stale` (its session was
closed by the worker) or `mainq` (the main session goes on, in order), and
`StaleWrite` and `LateMain` run it whenever they like. `tainted` is the only
history variable: fragments that a stale command wrote after their last first
line was answered. The code cannot know of these and promises no more than a
size for them; the properties about contents are stated without them.
Abstractions: the size check of a fragment is one step (`wc` has no effect, a
late one is not kept); a failing `printf >` may or may not have truncated its
file. A `cat` reads its operands one after the other: when it cannot append one as a
whole (`MissFragment`; any beginning of it may be there) it goes on with the next and
its status tells after the last (`batch`, `missed`, `NextOperand`), so a batch may
leave a hole; it may also end at once, or be given up and run later (`AppendFails`,
`LateMain`).

**`FastPush`**: `AcceptAndPush` and `pushConnection` with the writer (`wpc`) and
reader (`rpc`) goroutines, and the fileloader (`dpc`). A deadline is a step that
may be taken whenever it is armed, so every race of an answer with its timeout is
in the model. `Reset` is what TCP does to a socket that is closed with unread
input; `LinkDown` is a cable. Error replies and their draining are steps of the
fileloader.

**`FastPull`**: `AcceptAndPull`, `do_pull`, and `Grow` and `Shrink` for the other
programs of the device. A message of the stream is a record; the window bounds
what is in flight.

**`Transfer`**: `runTransfer` with everything before and after the connection:
detection, loader directory, upload, chmod, listener, launch, accept, close,
cleanup, fallback. `FastPush`, `FastPull` and `PrintfPush` appear as steps that
write the destination and end. `mainq` again holds the commands that timed out.
`New` is its beginning: `kind` says what the given path and the path inside it are
on the device, `CheckGiven` and `CheckInside` classify them with the tests in the
order of `checkIsRemoteDirectory`, `target` is the path that is used from then on,
and `Replace` is another process that changes one of them at any time.
`OpenDestination` does what `open` and the shell do with whatever is there by then.

**`Session`** (abstract) and **`TelnetSession`**: a session answers a command only
with what the shell made of that command, after everything sent before.
`PrintfPush` (`Answered`) and `Transfer` (`Succeeds`) use this as an assumption;
`TelnetSession` shows it for `ExecuteChecked`, whose random marker frames make it
true also in a session that is used with `Execute` as well (`detect/phase2.go` does
both in one session), and shows where `Execute` does not have it. A token is a unit of the
stream: echo, output, output that looks like a prompt, frame, prompt, and the two
halves of the terminal query. `esc` is the state of `inEscape`: `Discard` and
`SkipUnit` go through it, the reads of `ExecuteChecked` do not, as in the code.
Whether a device asks for its terminal is fixed at the start (`asks`). The session begins with the login: `gate` says whether the login program or the
shell reads the lines, a device without a login starts at the shell, and a
refusal asks again until the deadline of `Dial` (`DialFails`). `ReadWelcome`
types the name after every "login:", also after one in the greeting, which the
shell then takes for a command (`RunStray`). The shell echoes a command when it
reads it: the echo of a command typed into the output of the previous one is
not modelled.

**`PullPrintf`** (extends `TelnetSession`): `PullViaPrintf` sends `base64`, `xxd -p`
and `od` with `Execute` in one session, the next one after any failure of the one
before, and writes the local file from the first answer that decodes. The constants
`Base64` and `Hex` are the units the encoders print of the file, named apart from
each other and from all else in the stream (`Others`); unit i of either stands for
unit i of the file. `text` is a diagnostic, which no decoder accepts. `StripPrompt` is
`stripPrompt`: it cuts from the last line that ends in `#` or `$`. Of these lines an
answer can only have `sign`, one that `ReadUntilBanner` does not take for a prompt. A
greeting may have one; that an encoder prints one, in a diagnostic, is assumed away.
`HexLike` are the units of the file whose base64 is hexadecimal digits ("AAAA", of
bytes that are zero): after a timeout such a rest of the base64 is decoded by the
decoder of `xxd` or `od`, to bytes the file does not have there (`Misread`, `Wrong`).
The other way round needs no case: base64 is the first of the encoders. An encoder
prints the whole file, a diagnostic, or a part of the file and a diagnostic
(`Prints`). `LoginStep` is the device while `Dial` logs in and when it reads a name
that was typed into the shell; a greeting is any sequence of `Others`. Encodings are
cut between units only: a hexadecimal tail is decodable when it is cut between two
bytes, a base64 tail at a multiple of four characters, which are the cases that matter.

**`Detect`**: `busyscout detect`. `dev` is the device: what its kernel says, the ELF
header of its `/bin/busybox`, its libraries and tools. `pc` is the command that is
next; `Ask` sends it and parses the answer into `fp`, the part of the fingerprint
that decides something. A text is a sequence of words, a word the set of the
strings in it that a parser looks for. The session is `TelnetSession` seen from
the parsers: `stream` holds the replies that are left behind by timeouts, and an
answer begins after its own echo only when nothing is (`Starts`), otherwise
anywhere before; `Interrupted`, `Unanswered` and `Broken` are the errors, with the
text that is returned beside them, because phase 1 parses that too. `shifted` and
`elf` are history: whether an answer was read at the wrong place, and which
sources have read the ELF header. Phase 2 works on `helper`, the state of
`/tmp/bs-helper`, which `OtherRun` changes at any moment. In the probe an answer is
parsed when it is read, as in the code; in phase 1 the code parses after the last
command, which is the same because no parser has an effect on the device and the
parsers run in the order of the commands; the one that does not (`/proc/version`)
has its text kept in `build`. Of the answers to the commands that only fill displayed
fields nothing is kept but what they leave in the stream.

**Proofs.** `PrintfPushProofs` and, on top of it, `PrintfContentProofs` are about
`PrintfPush`; `FastPushProofs`, `FastPullProofs`, `TransferProofs`,
`TelnetSessionProofs`, `PullPrintfProofs` and `DetectProofs` about the modules they are
named for; `PullPrintfProofs` rests on `TelnetSessionProofs`. The `MC` modules only
define the sets the configurations use.

Some modules define an operator marked "Mutant" before the action it changes: the
action as a plausible bug would have it. No specification uses them; with the
mutant in the place of the action the property named for it in `PROJECT.json`
fails, which shows that the property depends on the code it is about.

## 3. What is checked

| Run | Bounds | Shows |
| --- | --- | --- |
| `printf_push` | 2 workers, 2 attempts, 2 fragments (2 and 1 lines), batches of 1, 2 timeouts | `DestWrittenOnlyWhenVerified`, `DestIsOldOrInOrder`, `ExactUnlessTainted`, `ScratchGone`, `ImplementsUpload` |
| `printf_batches` | 2 workers, 3 fragments of 1 line, batches of 2, 1 timeout | `DestIsOldOrInOrder` for batches that miss a fragment, are interrupted or run late; `PushReturns` |
| `printf_leak` | 1 fragment, 1 timeout | violated: `EveryScratchGone` |
| `fast_push` | 3 units, window 2 | `DiagnosticSurvives`, `AcknowledgedIsSuccess`, `GoroutinesEnded`, `ImplementsUpload`, `PushReturns`, `LoaderEnds` |
| `fast_pull` | 2 units, buffer 2, window 2, 2 changes | `SuccessIsWhole`, `GrownFileIsItsPrefix`, `DiagnosticSurvives`, `ImplementsUpload`, `PullReturns` |
| `fast_pull_hang` | the same, no changes | violated: `InactivityIsBounded` |
| `transfer` | 2 loader lines, 3 timeouts, 6 kinds of path, 1 replacement | `SetupMeansUntouched`, `OnlyRegularDestination`, `LoaderDirectoryGone`, `ListenerClosed`, `ImplementsUpload`, `TransferReturns` |
| `session_checked` | with and without a login and a greeting, 3 commands, plain or checked, 2 timeouts, output with or without a look-alike of a prompt | `ImplementsSession`, `PlainKeepsOutput` |
| `pull_printf` | 2 units, the second with base64 of hexadecimal digits, 3 encoders, 3 timeouts, 3 greetings | `PlainOwnOutput`, `AnsweredIsWhole`, `SuccessIsOneTail`, `ImplementsUpload`, `PullReturns` |
| `pull_printf_tail` | 3 units, 1 timeout, no greeting | violated: `SuccessIsWhole` |
| `detect` | 21 devices, 2 timeouts, 2 interferences of another run | `ReportIsTheDevices`, `MuslVersionIsMusls`, `PhaseTwoOnlyAdds` |
| `detect_time_t` | one device, without `file` and `od`, no timeout, no interference | violated: `TimeTIsTheDevices` |

Why the bounds are enough. Two workers are the least that can stop, block or
overtake each other. Two fragments of which the last is short, one of them with
two lines, give a fragment that can be half rewritten and a boundary that is not
full; three fragments in batches of two give a full and a short batch, and a cat
that has one more operand after the one it misses. Two
attempts give a retry and its exhaustion. Two timeouts let a late command meet a
late command (in the transfer three: directory, launch and removal). The window
is smaller than the data, so writers block. The old destination is empty or of
the size of the file, the case a size check cannot tell. In `pull_printf` each of the
three commands may time out, so that the bound on timeouts never stops a step
and `PullReturns` is not an artefact of it; of its greetings one asks for the name
again, one looks like a prompt to both the session and `stripPrompt`; and the last unit
of its file has a base64 that reads as hexadecimal, so a misread rest ends in a success.
The devices of `detect` are a camera without tools and its variations in one or two
respects (`MCDetect`): each source of the ELF header alone and none, kernels of another width, overlapping keys of
`unameMap`, both byte orders, two C libraries side by side, and musl versions on
both sides of 1.2.0 and on it, in both spellings, and a kernel whose `/proc/version` names a
compiler for musl beside a version of something else. Two timeouts leave two replies
in the stream; two interferences let another run remove the helper and put a
part of its own there. The proofs of section 4 do not depend
on any of these.

Violations, each a disagreement between the code and what the repository says:

* `EveryScratchGone`: a timed-out `mkdir` that runs late leaves a directory after
  a successful push (`push_printf.go:130`; `README.md:139`, `push_printf_test.go:88`).
  `runLoader` has the same shape for its single mkdir (`loader.go:78`).
* `InactivityIsBounded`: `AcceptAndPull` has no read deadline (`listener.go:177`;
  `README.md:142`).
* `SuccessIsWhole` of `PullPrintf`: when an encoder times out, the next one is sent
  in the same session (`pull_printf.go:27`) and what is left of the first reply is
  returned as its output (`telnet.go:222`; `telnet.go:221` says what a timeout is
  for). A tail of the file, or nothing, is decoded and written, and the download
  is reported as complete (`README.md:117`: transfer errors are reported). With zero
bytes at the end of the file the rest of its base64 is even decoded as hexadecimal,
to other bytes; `SuccessIsOneTail` says that this is the worst that can happen.
* `TimeTIsTheDevices`: on a 64-bit kernel with a 32-bit userland, without `file` and
  `od`, the word size is the one `uname` gives, phase 2 does not run, and a 64-bit
  time_t is stated although musl 1.1.24 has told its version (`detect.go:82`, `phase1.go:466`; `detect.go:73-75`: only "with
  certainty, because a wrong answer is worse than none"; `phase1.go:464-465`: the
  helper confirms an ISA that is parsed from `uname` only). The device of the run has
  no tool that looks at an ELF header, and the property speaks of reports with a
  version of musl only: every command before that one has been answered.

## 4. What is proved

Each proof module proves its theorems for every value of the constants of the
module it is about, from nothing but the named assumption on them: numbers are
natural, bounds and sizes positive where the code's are, sets of outputs and
greetings sets of sequences. In each there is an inductive invariant, a conjunction of
named parts with one lemma per part or action, a theorem `Spec => []IInv`, and
the properties that follow from it.

### Push through the shell: `PrintfPushProofs`, `PrintfContentProofs`

For every number of workers, attempts, units, fragments per batch and timeouts:
`TypeCorrect`, `DestinationAfterVerification`, `ScratchIsRemoved`,
`PrintfPushImplementsUpload` from `Invariance`, where

    IInv == TypeInv /\ PoolAccount /\ QueueInv /\ ScratchInv

* `TypeInv` strengthens `TypeOK` by what keeps the types: the counters of retries
  and of joined fragments are below their limit where they are about to be
  incremented, and a fragment a worker holds has been taken from the queue.
* `PoolAccount` is the reason the join is safe. Every fragment taken from the queue
  is verified, or held by a worker that is still at it, or there is an error in
  `results`. A worker that sees `stopped` drops its fragment without an error,
  which is right only because `stopped` is closed *after* the error of the closing
  worker is in `results`; so "stopped, or about to be, means `results` is not
  empty" is part of the invariant. When all workers have ended and `results` is
  empty, every fragment is verified (`JoinMeansVerified`).
* `QueueInv` says what the late commands of the main session can be: a `truncate`
  or `cat` among them means that all fragments were verified and that the push
  has the error "join" and none from a fragment, which leads to a `broken` end;
  hence no late command can write a destination that was reported complete or
  refused. It also holds the size behind a success.
* `ScratchInv` orders the creation and the removal of the fragment directory: the
  directory in use was made by an answered `mkdir`, and an answer means that the
  queue was empty, so no `mkdir` is left behind it that could make the same
  directory again after the cleanup.

What is written, `DestinationIsInOrder` (`DestIsOldOrInOrder`) and `SuccessIsExact`
(`ExactUnlessTainted`), needs more, `ContentInvariance`:

    ContentInv == IInv /\ OwnerInv /\ BatchInv /\ JoinInv /\ LinesInv
                  /\ FragmentsInv /\ DestInv

* `OwnerInv`: a fragment has one worker at a time and none once it is verified, so
  nobody writes a fragment file that was found right.
* `LinesInv`: a worker at line l has written exactly the lines before it, unless an
  abandoned session has come between them (`tainted`).
* `FragmentsInv`: hence the verified fragments are whole; the parts of it about
  fragments that are joined are dropped when `cat` has removed them.
* `BatchInv`: of the commands that the join gave up at most the first is still to
  come, and it goes on inside the running batch and not before the fragment where
  the join has stopped. Without it the late batch could append at a wrong place.
* `JoinInv`: the fragment that is next is one of the running batch, and a batch that
  has missed something is the last: no other is sent and the push ends with an error.
* `DestInv`: the batches before the running one are there, and of it units in their
  order; as long as nothing was missed, all units before the fragment that is next.

A destination is described by an index into the file for each of its units
(`Beginning`, `InOrder`), not by a concatenation of fragments; so the appends need no
induction, and a hole is a step of more than one.

### Reverse TCP: `FastPushProofs`, `FastPullProofs`

`FastPushProofs`, for every size of file and of the socket window:
`FastPushTypes`, `GoroutinesHaveEnded`, `AcknowledgedIsReported`,
`DiagnosticIsReported`, `FastPushImplementsUpload` from `FastPushInvariance`.

    IInv == HostType /\ CallerInv /\ WriterInv /\ LoaderInv /\ ReplyInv /\ ReaderInv

The core is `ReplyInv`: as long as the connection is open and the reader at work,
what is before it in the socket is exactly what the fileloader has written and the
reader has not read, or nothing after a reset. With `ReaderInv` a reader that
has ended tells what the fileloader did (`gotOK`: it has the whole file, hence the
writer has sent it and cannot fail any more, whatever the order in which `select`
sees the two), and `CallerInv` that the verdict is on two goroutines that have
ended. Three of the four properties are then one line.

`FastPullProofs`, for every file, every size of the window and every number of
changes by other programs: `FastPullTypes`, `SuccessIsTheSize`
(`SuccessIsWhole`), `GrowthIsHarmless` (`GrownFileIsItsPrefix`),
`RefusalIsReported` (`DiagnosticSurvives`) and `FastPullImplementsUpload` from
`FastPullInvariance`.

    IInv == HostInv /\ LoaderInv /\ FileInv /\ CountInv /\ OrderInv /\ RefusalInv
            /\ InFlight /\ ContentInv

Messages are counted: those the workstation has taken and those in the stream are
together those that the fileloader has sent (`CountInv`), so the number of a
message says what it is (`OrderInv`), and message n + 2 is unit n of the file
(`InFlight`), or was one until the file was shortened. `ContentInv` says the same of
the buffer of the fileloader and of what was received.

### `TransferProofs`

For every size of the fileloader and number of timeouts: `TransferTypes`,
`SetupErrorsAreClean` (`SetupMeansUntouched`), `OnlyFilesAreWritten`
(`OnlyRegularDestination`), `DirectoryIsRemoved` (`LoaderDirectoryGone`),
`ListenerIsClosed` and `TransferImplementsUpload` from `TransferInvariance`.

    IInv == HostType /\ ResultInv /\ DirectoryInv /\ WriterInv /\ PathInv

`DirectoryInv` bounds the commands that are left behind: the step that ends the
fast path leaves at most one, the `rm` of the cleanup may be the second, and
nothing but the `rm` can be; so no `mkdir` can follow it. `WriterInv` says that only
a fileloader whose connection was accepted has a request, and that a transfer
with such a loader never ends with a `SetupError`: this is why the fallback finds an
untouched destination. `PathInv` carries the check of the path to the write.

### `TelnetSessionProofs`

`TelnetSessionImplementsSession`, the contract the other modules build on: for
every number of commands and of timeouts, every mixture of `Execute` and
`ExecuteChecked`, every output and every greeting, a checked answer is the output
and the status of its own command and comes when everything sent before has been
run. It follows from `TelnetSessionInvariance`.

    IInv == SessionType /\ ClientInv /\ (\E n \in Nat : Waiting(n)) /\ LoginInv
            /\ FramesInv /\ FramedInv

* `Waiting(n)`: the input of the shell is n lines that `Dial` has typed and the last
  commands in their order; those before them have been run. `Typed` is this n, and
  the queue of the abstract session what is behind it.
* `FramesInv`: frames in the stream are those of commands that have been run, which
  is what makes a marker fresh: before the shell comes to the command nothing in
  the stream can be taken for its frames.
* `FramedInv`: a client that waits for its marker has its command's output, whole
  and with its end frame, behind the one begin frame in the stream, or the command
  has not been run; a client within the body has the rest of it at the front of the
  stream. The stream is what the reader holds and what is on its way together, so
  filling the reader changes nothing and every read takes one unit; what is left
  behind by timeouts, logins and plain commands may be anything.
* `LoginInv`: before the shell is there nothing looks like a prompt, hence no
  command has been sent that the login program could take for a name.

`Typed` is written with `CHOOSE`, and `Oldest` as a function of the positions behind
it; a definition that filters the input would have to be unfolded by induction.

What `Execute` answers is the other half: `TelnetSessionTypes` (`TypeOK`),
`TelnetSessionPlainKeepsOutput` (`PlainKeepsOutput`) and, for sessions that are used
with `Execute` only on devices whose output never looks like a prompt,
`TelnetSessionPlainOwnOutput` (`PlainOwnOutput`), from

    AllInv == IInv /\ CounterType /\ PageInv

An answer of `Execute` has no frames, so it is right only because of where the client
stands in the stream. `PageInv` says so, as long as nothing has timed out and neither
a greeting nor an output looks like a prompt (`Smooth`): what the client has not read
yet is the end of one known sequence, the query that followed the last prompt and the
page of the command (echo, output, frames, prompt, query), and `place` is where in it
the client is.

* `DialPage`: before the first prompt there is one question on its way or one line in
  the input, never both, so `Dial` types no line that the shell could read later.
* `IdlePage`: between two commands nothing is left but the query.
* `SkipPage`: `SkipBytes` counts echo and the units of a query that `inEscape` does not
  know of. Where the escape state is wrong (a session with `ExecuteChecked`) it is so
  until the query has passed, and then at most the end of the echo is taken for output.
* `PlainPage`: the reply is the page from there to where the client is.
* `ExactPage`, for sessions of `Execute` only: the escape state is right, so `SkipBytes`
  ends with the echo.

`EscapeAfter` is a recursive function over the buffer; only a buffer with at most one
query is ever folded while `PageInv` holds, and for any other that the value is a
Boolean is enough (`EscapeAfterIs`). This, and other facts about all natural numbers below
a bound, are shown by a least counterexample (`Least`, from the well-founded order
of the natural numbers), since the rule of induction cannot be instantiated.

### `PullPrintfProofs`

For every file, both its encodings, every greeting and every number of timeouts:
`PullTypes`, `PullImplementsUpload`, `PullOwnOutput`, `PullAnsweredIsWhole` from
`PullInvariance`, and `PullSuccessIsOneTail`.

    PullAll == AllInv /\ PullInv
    FlowInv == Flows(stream) /\ (the reply and the answers are linked)

Every step of a download is a step of its session (`PullSteps`), so `AllInv` holds
as it stands. `PullInv` adds what the encoders have printed and what was made of the
answer. No encoder prints something like a prompt (`PrintsQuiet`), so a session without
a timeout and a greeting is smooth, an answer is what the encoder of the same
number has printed, and if it decodes, it is the file.

After a timeout, or a greeting that was answered, an answer may begin anywhere, and
`FlowInv` is what still holds: in the stream unit n of an encoding is followed by unit
n + 1 of the same one, by a diagnostic, or, for the last unit, by the prompt (`Flows`);
echo, output, prompts, greetings and queries are no units (`Others`). Reading keeps
this, and dropping the buffer too, because both take from the front only; printing keeps
it because every page ends with its prompt. A reply therefore goes on in the stream
where it has ended, and an answer, which ends at a prompt, ends with the last unit. What
a decoder accepts of an answer, less what `StripPrompt` cuts off, is linked and has units
only, so it is of one encoding (`RunIsOfOne`): a tail of the file in the encoding the
decoder is for (`RunIsTail`), or, for the decoder of `xxd` and `od`, a tail of the
base64 that is hexadecimal digits throughout (`RunIsMisread`; `LinkedIsOneTail`).

### `DetectProofs`

For every set of devices of `DeviceType`, every number of timeouts, at every
command, and of interferences of other runs: `TypeCorrect` (`TypeOK`),
`ReportCorrect` (`ReportIsTheDevices`), `MuslVersionCorrect` (`MuslVersionIsMusls`)
and `HelperOnlyAdds` (`PhaseTwoOnlyAdds`) from `DetectInvariance`.

    IInv == TypeOK /\ SessionInv /\ TellInv /\ FingerprintInv /\ PhaseInv

A text is any sequence of sets of words. `Told` says what matters of one, and
`AnswersAre` that whatever becomes of a command, what it returns and what it leaves
in the session are parts of texts that the shell has printed, so what they tell
is told of every answer, at whatever place it begins.

* `SessionInv`: a reply is only left in the session by a command that has timed out.
* `TellInv`: until the list of `/lib` has been asked for, nothing in the session names
  the loader of musl. An answer that names it is therefore the list itself, the
  last text there is (`LibcPlace`), and everything before it has been read: what is
  left, and all that comes later, says "musl" beside no version but that of the
  device's loader. The loader is only asked for its version when it was named. This is
  why a `/proc/version` that names a compiler for musl and a version of that does no
  harm, which no single command shows.
* `FingerprintInv`, as long as every answer was read at its own place: a machine comes
  with its width, a source that has read the whole header is not overruled, and the
  float ABI of an ARM device is only ever its own.
* `PhaseInv`: no header has been read before `file` is asked, and phase 2 is only
  entered for an ARM machine without a float ABI. The helper for such a machine
  runs on little-endian devices only, where it prints the machine it should.

Assumed of a device (`DeviceType`, evaluated by TLC for the devices of the runs): its
machine is one that the program knows, a 32-bit ARM has a float ABI, and its kernel
does not name the file of musl's loader in `uname -m` or `/proc/version`.
`HelperOnlyAdds` has a hypothesis of its own, that no kernel of another
machine runs ARM programs: there the helper would correct the ISA, which is no
loss but is not an addition either.

### What stays with TLC

* All liveness (`PushReturns`, `PullReturns`, `LoaderEnds`, `TransferReturns`),
  which TLAPS does not do under fairness.
* The four properties that the code violates, of which TLC shows an instance.

Every other property of the passing runs is a theorem; the one on `PhaseTwoOnlyAdds` has
the hypothesis named above. That the devices behave as the modules say, and that a word
of a stream stands for its characters, is an assumption of the models and not of
the proofs.

## 5. Fairness

* `PrintfPush`: weak fairness of the main goroutine and of every worker. Every
  command ends by an answer, an error or its read deadline (`checked.go:49`). The
  shells of abandoned sessions owe nothing.
* `FastPush`: the three goroutines are scheduled and armed deadlines expire
  (`listener.go:36,63,120,153`); the fileloader runs and its socket timeouts expire
  (`fileloader.c:346-347`). Nothing is assumed of the network.
* `FastPull`: the workstation runs, and the keep-alive of the Go runtime finds a
  dead link; the socket operations of the fileloader time out. That its *file*
  operations end is assumed by `fast_pull` only (`ResponsiveSpec`).
* `Transfer`: every wait of the workstation ends but the wait for the data of a pull.
* `PullPrintf`: the host runs and the read deadlines pass (`telnet.go:222`); nothing
  is assumed of the shell of the device.
* `Session`, `TelnetSession` and `Detect` state safety only: a detection is a fixed
  sequence of commands, each of which ends by its deadline.

## 6. Not modelled

The contents of bytes, progress bar, logging and messages; the telnet option
negotiation; the login in the modules other than `TelnetSession` and
`PullPrintf`, where it is a step that may fail; a banner before the login with a
word that ends in `#`, which ends `Dial` before the name is asked for; `net.Dial`, which has no
timeout of its own; power loss on the device (the README disclaims durability);
other programs that write the destination of a push (that they replace it is in
`Transfer`); the light detection before a fast transfer, which only decides which
loader is uploaded, and one that cannot run is a launch that fails; displayed
fields, toolchain hint and layout of the report; addresses, subnets and command
line, which are sequential parsing and lookup around one call of the rest.

What is assumed of a device, beside what section 2 says:

* The shell echoes a command as it was sent. `checked.go:57` warns that a terminal may
  wrap it, redraw it or not echo at all, which is why `ExecuteChecked` does not count
  it; `Execute` does (`telnet.go:398`), and what is said of plain answers
  (`PlainOwnOutput`, `PlainKeepsOutput`, `AnsweredIsWhole`) rests on it.
* `dmesg | grep` prints lines about the SoC and never the banner of the kernel, which
  can name a compiler for musl. An answer read after it could be a part of such a banner
  only when several commands in a row have timed out, beyond the two of the run; the
  proof of `MuslVersionIsMusls` has it as a part of the model.
* A greeting is no base64 and no hexadecimal text, and no diagnostic of an encoder has
  a line that ends in `#` or `$`.

No run has an empty file: what is said of one (`FileSize = 0` in `PrintfPush`, an empty
`Base64` in `PullPrintf`, no units in the reverse TCP modules) is in the proofs only.

What the models show of the code without a property of their own:

* A line of output that begins with `# ` ends the output of a plain command
  (`telnet.go:312`); `PlainKeepsOutput` is stated without such output.
* A greeting with "login:" in it ("Last login: ...") is answered with the name
  (`telnet.go:336`), and the reply of the shell to that line shifts the answers of
  all plain commands of the session; the properties of plain answers are stated
  for devices that print nothing between login and prompt. Checked answers are
  not affected (`ImplementsSession` is proved for every greeting).
* A terminal query of which `ExecuteChecked` has dropped the first half leaves the
  escape state set, since it reads the second half without `inEscape`
  (`checked.go:62`); the next `Execute` may return the end of its echo before the
  output. Phase 2 is the only caller that mixes both, and its parser ignores it.
* After a timeout in phase 1 or the probe, fields may be filled from the answers to
  other commands, although `osprobe.go:13` says that failures leave them empty;
  `ReportIsTheDevices` excludes such reports, `MuslVersionIsMusls` does not.
* The helper reads `e_machine` as a little-endian number (`elfreader.c:118`): on a
  big-endian device `mapMachineToISA` would empty the ISA. Phase 2 comes to that
  only after a timeout has left the word size of a MIPS unknown. Its walk over
  `.ARM.attributes` ends at the first length and prints nothing.

## 7. Plan

1. *Done*: `Upload`, `PrintfPush` with its proofs, `FastPush`, `FastPull`,
   `Transfer`, `Session`, `TelnetSession`, `PullPrintf`.
2. *Done*: `Detect` with the helper two detections share and the versions of musl;
   the path check with another process that replaces the destination, as the
   beginning of `Transfer`; the login and the terminal query split between reads in `TelnetSession`.
3. *Done*: the safety properties of all components, the refinements of `Upload` by the
   five modules that write a destination, and the refinement of `Session` by
   `TelnetSession`.
4. Left: the assumption `Succeeds` and `Answered` of `Transfer` and `PrintfPush` as an
   instance of `Session`, instead of by agreement; the echo of a command that is typed
   into the output of the previous one.
