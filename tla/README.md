# TLA+ specifications of DoDaemon

DoDaemon is a Windows tray program that runs FTP, SFTP, TFTP and syslog servers and
a web console in one process. This directory holds TLA+ models of its core, the TLC
configurations that check them on small instances, and TLAPS proofs of the results that
matter most. `PROJECT.json` maps every definition to the lines it models, and lists runs,
mutants, findings, hazards and theorems.

Paths are relative to `src/`. Check a run with `tlc -config MCSupervisor_safety.cfg
MCSupervisor`, a proof with `tlapm SupervisorProofs.tla`.

## 1. Inventory

| Component | State | Operations | What makes it correct |
|---|---|---|---|
| Supervisor, `internal/server/server.go` | registered entries, the current attempt of each (cancel, done), `running` | `Add`, `Replace`, `Remove`, `Run`, `runEntry` (restart with backoff) | one server per name; a replaced or removed server is down when the call returns; crashed servers come back; everything stops when the context is cancelled |
| Event bus, `internal/eventbus` | subscriber channels, RWMutex | `Subscribe`, unsubscribe, `Publish` | never blocks, never panics, order per publisher, drops only on overflow |
| TFTP, `internal/tftp` | per session: block number, attempts, file offset; per server: the socket and a WaitGroup | `Start`, `Shutdown`, `handleRRQ`, `handleWRQ`, `sendAndWaitACK` | the copy equals the file in spite of loss, repetition, reordering and wrap-around; sessions end |
| Configuration and watcher, `internal/config` | the file; debounce timer | `Load`, `Save`, `Validate`, `Watcher.Run` | a broken file changes nothing; the last save is applied |
| Process wiring, `cmd/dodaemon/main.go` | `liveCfg`, one variable per server | start, reload callback, cancellation | the running servers are those of the file; only affected ones restart |
| Syslog server and store, `internal/syslogsrv` | listeners, connections; current file, its size, rotated files | receive, parse, `Write`, rotate, compress, expire, `Shutdown` | no accepted message is lost before it expires; files are bounded; drain |
| FTP, `internal/ftp` | atomic pointers to configuration, accounts, ACL | permission-checked file operations, `UpdateConfig` | every operation checks its permission and stays under the home directory |
| SFTP, `internal/sftp` | connections, WaitGroup | the same permissions over SSH | the same, and drain |
| Security and accounts, `internal/security`, `internal/auth` | none / account map | `SafeJoin`, `ACL.Allowed`, `Authenticate` | no path leaves its root; deny wins |
| Web console, `internal/webui` | login sessions, recent events, its own copy of the configuration | login, settings, SSE, browse | sessions expire; a save is not lost |
| Native window, `internal/nativeui` | widgets, a copy of the configuration | start/stop/restart buttons, settings dialog | a save is not lost |
| Transfer tables, `internal/nativeui/active.go` and `app.js` | rows keyed by source, address and file | `apply` of an event | rows match transfers under way |
| Autostart, icons, drives, console | registry, files | – | pure I/O, not modelled |

Interaction: `main` builds the servers and hands them to `Supervisor`; the watcher's timer
goroutines call the reload callback, which calls `Replace`, `Remove` or `UpdateConfig`;
every server publishes to the event bus, which the web console (SSE), its ring buffer and
the window read; both UIs only write the configuration file, so every change goes through
the watcher.

What is hard: `Replace`/`Remove` against a restarting `runEntry`; reload goroutines that
overlap; a channel send under a read lock that must never block; UDP loss, repetition and
reordering with 16-bit block numbers; the drain of every server on cancellation; file
rotation with compression in the background; a truncated file that loads as the default
configuration. The list of hazards with their lines is in `PROJECT.json`.

## 2. Plan and status

1. `Supervisor` with proofs – done.
2. `EventBus` with proofs – done.
3. `FileTransfer` (what a transfer promises), `TftpRead` with proofs and refinement,
   `TftpWrite` with proofs and refinement for one session – done.
4. `HotReload` (file, watcher, callback, seen from the caller of Supervisor) – done, with proofs.
5. `SyslogStore`: rotation, compression, expiry, crashes, two stores on one directory – done, with
   proofs.
6. `SyslogServer`, `SftpServer`, `WebServer`, composed with their callers in `ServerDrain`:
   the contract that `Supervisor` assumes of `Start` (`internal/server/server.go:20-24`) – done; its safety
   part is proved.
7. `FileDoors`: the FTP and SFTP doors over one set of files and accounts – done, with proofs.
   `TransferTable`: what the window's table makes of the events of the SFTP door, which come
   to it through the bus's channel – done, with a proof.
8. `TftpCodec`: `TftpRequest` and `Netascii`, requests and texts as bytes, with proofs – done.
9. `SyslogLines`: `SyslogParse`, lines as tokens – done, with proofs.
10. `ServedPaths`: `SafePath`, paths over trees with links, with proofs – done.
11. `Algorithms`: one run for the modules of 8, 9 and 10 – done.

Left: the web console's login sessions, the lost updates between the two configuration
editors, and a TFTP client that retransmits after its last ACK was lost.

## 3. Modules

| Module | Models | State and actions |
|---|---|---|
| `Supervisor` | `internal/server/server.go`, with the shape of `Start`/`Shutdown` from `internal/tftp/server.go` and `internal/ftp/server.go` | one action per critical section of `s.mu` or `e.mu` and one for what lies between: `ReplaceLookup`, `ReplaceSwap`, `CallShutdown`, `CallCancel`, `CallJoin`, `RemoveLookup`, `RemoveCapture`, `Add`; `HeadCheck`, `BeginAttempt`, `Listen`, `StartReturns`, `StartFails`, `StartDrains`, `AfterNil`, `AfterErr`, `BackoffExpires`, `BackoffAborted` for `runEntry`; `RunStart` … `RunReturn` |
| `EventBus` | `internal/eventbus/eventbus.go` | the RWMutex with Go's writer preference (`AskLock`, `AskRLock`, `RLock`, `Admit`), each `select` of `Publish` (`TrySend`, `DropOldest`, `Retry`), `Subscribe`, `Unsubscribe`, `Receive` |
| `FileTransfer` | – | abstract: chunks arrive in order; "complete" only with all of them |
| `TftpRead` | `handleRRQ`, `sendAndWaitACK`, an RFC 1350 client, the network | packets stay in a set and may arrive any number of times, until they are more than `Lifetime` blocks old |
| `TftpWrite` | `handleWRQ`, sessions started by copies of a WRQ, the file on disk | as above; `os.Create` truncates, a write beyond the end leaves a hole |
| `HotReload` | `config.Save`/`Load`, `Watcher.Run`, the reload callback, the settings handler | `SaveBegin`/`SaveWrite`/`SaveFails`/`SaveStore`, `Edit`, `WatchBegins`, `HandleEvent`, `TimerFires`, `WatchEnds`; `LoadFile`, one step per service and per return of a Supervisor call, `ReloadEnds` |
| `SyslogStore` | `internal/syslogsrv/store.go` | names lead to files, an open handle stays with its file; a step per operation on a file of `Write` and `rotateLocked` (`Write`, `Rename`, `Reopen`), of `compressFile` (its own goroutine, without a lock) and of the cleanup, which lists the directory (`CleanupList`), asks an entry's age (`CleanupInfo`) and removes it (`CleanupRemove`), also without a lock; each of these may fail where the code tests its error; `NewStore`, which may fail, `Close`, and a crash that ends them all |
| `SyslogServer` | `Start`, `Shutdown` and the handlers of `internal/syslogsrv/server.go` | the two loops, a handler per TCP connection, the goroutines that wait for the context, the WaitGroup, the closing of the store |
| `SftpServer` | `internal/sftp/server.go` and `session.go` | the accept loop, the handshake, the channel loop and the session of a connection, the drain |
| `WebServer` | `Start` and `Shutdown` of `internal/webui/server.go` | `net/http`'s drain with event streams that end only with their client, and its five seconds |
| `ServerDrain` | the three servers with their callers in `internal/server/server.go` | composition by `INSTANCE`: one of the servers runs, and is stopped by Replace or Remove (Shutdown, then cancel), by Run (cancel, then Shutdown), or by its context alone |
| `FileDoors` | `internal/ftp/driver.go`, `permfs.go`, `internal/sftp/server.go`, `fs.go`, `internal/auth`, the verdict of `internal/security/acl.go` | the three pointers of the FTP driver swapped one by one, logins that copy their rights before the password check, one action per method of the two file interfaces (`Open`, `Create`, `OpenFile`, `Mkdir`, `Remove`, `Rename`; `Fileread`, `Filewrite`, `Filecmd`), reads, writes and closes |
| `TransferTable` | `internal/sftp/session.go` and `fs.go` as publishers, `Bus.Publish`, `consumeEvents` of `internal/nativeui/window.go`, `activeTracker.apply` of `active.go` | `Apply`, an operator from rows and an event to rows; `Connected`, `Disconnected`, `Opened`, `Touched`, `Closed`, `Refused`, each with its `Publish` into the window's channel, which drops the oldest event or the new one when it is full; `Crowd`, somebody else's Publish into a full channel; `Consume` |
| `SafePath` | `security.SafeJoin` | over trees with links; `Follow` is one link as the operating system follows it, `Resolved` where all of them lead, `Outcome` how the walk ends |
| `ServedPaths` | `handleSession`'s call of `SafeJoin` | `RunSafeJoin` |
| `TftpRequest` | `parseRequest`, `negotiateOptions` | |
| `Netascii` | `toNetascii`, `fromNetascii` | |
| `TftpCodec` | what `Start`, `handleRRQ` and `handleWRQ` make of bytes, with the two modules above | `ReadRequest`; `SendBlock` and `ReceiveBlock`, one block of a netascii transfer, with the CR carried from block to block |
| `SyslogParse` | `Parse` of `internal/syslogsrv/parse.go` | how a line is split in both formats, on tokens |
| `SyslogLines` | `handleLine`, with `SyslogParse` | `HandleLine` |
| `Algorithms` | – | `TftpCodec`, `SyslogLines` and `ServedPaths`, one of the three at a time |
| `MC*` | – | small instances |
| `*Proofs` | – | theorems |

Definitions named `X_Something` before a definition `X` are mutants: plausible bugs, each of
which breaks the property that `PROJECT.json` pairs it with.

Abstractions.
*Supervisor*: the length of the backoff and logging are left out; the shutdown deadline is not
modelled because a `Shutdown` returns at once in the model (`ServerDrain` looks inside).
*EventBus*: an event is its publisher and a number; `PublishCtx` is a test of the context
followed by `Publish`. The history variable `late` counts, for every subscriber, the offers that came when it had
a whole buffer of offered events still to receive.
*TFTP*: octet mode; a chunk is its position; options are reduced to whether an OACK is sent
(`TftpCodec` models the rest); the dialling of the session's socket (a
failure ends the session before its first action) and progress events are left out.
*HotReload*: a service's settings are whether it is on, the part that needs a fresh instance, and
the rest; the reload's last call (`onReload`, which refreshes the window) and an error at
start (the process then runs no server) are left out; Supervisor is seen from its caller:
the registration changes at once, the call returns later.
*SyslogStore*: a line is its number and its length, and the size of a file is the length of its lines (what
`Stat` says of a log file; nothing asks the size of a compressed one); a step that creates a file needs one
that is free (`CanOpen`), which in the run it always finds; the clock counts the seconds that names
of rotated files are made of; every operation on a file may fail for the reasons of the operating system where the code
tests its error (`Write`'s at most `MaxFaults` times), a write after any part of the line; on Windows renaming or removing an open
file fails. The cleanup's listing and its cutoff are one step; on Windows the listing holds the ages, elsewhere they are asked
name by name. A store begins at most one sweep per second of the clock (in the code one per hour). A line that follows
the beginning of another is a line of the model all the same. What a failed `openCurrent` next to another store does
is charged to all stores that are open (`broken`).
*ServerDrain*: what a line or a request says is left out; of `net/http`, of `ssh` and of the kernel's
accept queue only what the source relies on.
*FileDoors*: a file is absent, a directory, empty or has data; one home for all accounts; an address is a client; a
password is right or wrong; the access list is the set of addresses that its networks contain. Listing a directory,
`Stat` and time stamps change nothing and are left out, and so is the permission "e", which the code
never checks. An SFTP upload opened for appending fails at its first write (`WriteAt` of a file opened with
`O_APPEND`), as in Go. Links that change between `SafeJoin` and the use of its result are not modelled: paths
inside stay inside. `Serves` is all that the server does for one session, so that a property can speak of the one that acts.
*TransferTable*: a name is a file of its client; the text of an event is what the patterns find in it. Whoever else publishes
(FTP, TFTP, a line of syslog) only crowds the channel: their rows have keys of their own. That the bus offers, drops and offers again in three
steps is `EventBus`'s subject; here a Publish is one step with their three outcomes. Rows of FTP and TFTP are not modelled: FTP's events carry no
file, so their keys cannot match. The web page's `app.js` derives its rows in the same way from an event stream with a smaller channel
(64 events instead of 256).
*TftpCodec*: a byte is NUL, CR, LF or any other; `Lower` and `Atoi` (what `normalizeOptionName` and
`strconv.Atoi` make of a field) are parameters; the blocks of a transfer arrive once and in order, which is what
`TftpRead` and `TftpWrite` show. The netascii expansion makes a DATA packet longer than the block size, which the
comment at `internal/tftp/session.go:159-163` accepts.
*SyslogLines*: times, facility and severity are left out, and a tag is taken to be shorter than 64 characters.

## 4. Runs

| Run | Checks | Result |
|---|---|---|
| `supervisor_safety` | `TypeOK`, `StaleIsBeingStopped`, `OneServerPerName`, `ReplacedIsDown` | two concurrent callers, three instances of one name, one crash, removal allowed: a swapped-out server runs on only while somebody is stopping it; no two servers of a name (removed entries apart); a Replace that stopped an attempt returns only when the old server is down |
| `supervisor_live` | `CallsReturn`, `LatestServes`, `ShutdownCompletes` | calls return, the newest registered server comes to serve after crashes, Run returns after cancellation |
| `supervisor_removed` | `RemovedIsDown`, violated | a Remove during the backoff, or before the first attempt, returns and the server is started afterwards |
| `bus` | `TypeOK`, `NeverPanics`, `PublisherOrder`, `LossMeansLag`, `YieldsToOthers`, `NobodyBlocks` | no send on a closed channel, order per publisher; an event is lost only by the offer of one that finds its subscriber a whole buffer behind, at most one per such offer, whatever was lost before; and everything returns though nobody reads |
| `tftp_read_wrap` | `TypeOK`, `CopyIsPrefix`, `CompleteMeansStored`, `TransferSpec`, `SessionEnds` | the client's copy is a prefix of the file across two wraps of the block number; the session implements `FileTransfer` and ends |
| `tftp_write_wrap` | `CompleteMeansWritten`, `DoneMeansWritten`, `TransferSpec`, `ShutdownDrains` | what is reported, or acknowledged to the end, is on disk; the session ends on shutdown |
| `reload_apply` | `TypeOK`, `SettledMeansApplied`, `NoNeedlessRestart`, `Settles` | once saves are handled and unless reloads overlapped, the servers run as the file says, truncated and broken files and failed builds included; no needless restart; every reload ends |
| `reload_overlap` | `LastSaveWins`, violated | a second reload beside one that waits for a server to stop compares with the old `liveCfg`: the last save is not applied |
| `syslog_store` | `AcceptedIsKept`, `RefusalHasACause`, `FilesAreBounded`, `ExpiredWasOld` | a line whose Write returned no error stays in some file until it expires, or a second rotation within one second takes its file's name; or the old store of a reload rotated under the new one; a Write fails only when its own line could not be written, on a closed store, after an error of the system in a rotation (the store then stays without a file), or on a store that has rotated while another was open or twice within a second; a log file is longer than its limit only as a single line or when two stores shared it; the cleanup takes an accepted line only when it is old, unless a rotation or a store that writes to a renamed file comes between its look and its removal (the lines of `clashed` and `mixed`) |
| `server_drain` | `RefusedOnlyAtDeadline`, `StartReturns`, `LeavesNothingBehind` | a graceful stop refuses no line that was read; Start returns once its context is done, unless it waits for a client of `SyslogHung` or `SftpHung`; when it has returned, sockets and sessions go |
| `file_doors` | `RightsWereInForce`, `SftpRowsMatch`, `ChangesWereGranted` | a session's rights are those of a section in force during its login; a session that changes a file is logged in and its own rights cover the change, whatever calls came before, but for the two exceptions that section 6 names; a row of the table that the window has read all about is there exactly while its SFTP connection is up or its file open, unless the bus lost the last event that decides this very row, two transfers share it, or its name reads like a start |
| `algorithms` | `SafeJoinConfines`, `NegotiationIsConservative`, `ParseSplitsCleanly`, `NetasciiStreams` | what `SafeJoin` returns is under the root, links followed, and it refuses only what leaves it, loops or cannot be examined; a request's fields are its packet cut at the NULs, and acknowledged options are what was asked and allowed and what the session uses; a syslog line is split as its grammar says; netascii gives the same stream whatever the block size |

Bounds.
*Supervisor*: three instances of a name let a call meet another call's new server; two
callers are what overlapping reloads give; one crash (two in the liveness run) puts an entry in
its backoff. Names do not share state other than `s.mu`, so one name is enough; the theorems
cover any number.
*EventBus*: two publishers and two subscribers with buffers of one and two events, so that
buffers overflow and both publishers meet at one.
*TFTP*: block numbers modulo 4 (3 for uploads) instead of 65536, with files of 9 (7) blocks, so
that numbers wrap twice; `Lifetime` (the age of the oldest packet delivered) must stay below the
modulus, the assumption under which TFTP works at all; at 65536 it is always met.
*HotReload*: one service of each kind, three configurations that differ in each way the callback
tells apart, three file-system events, hence up to three reloads.
*SyslogStore*: two stores (what a Replace or a restart gives), one compressing and one not, with
different ages; three lines of which the second reaches the limit by itself, two seconds, so
that two rotations meet in a second or not and a line can come of age; one error of the system, at any of Write's operations;
both kinds of platform; the six files never run out.
*ServerDrain*: three connections, one of them denied: one can be queued while one is
being accepted and one served; each of the three servers stopped in each of the three ways.
*FileDoors*: one client per door, two paths inside the home and one outside, so that a rename has a
target and an open file can be moved or overwritten by the other client; two open files; one
reload between two sections that together hold every permission checked.
*TransferTable*: one client, so that its connection's row and a file's compete for the channel; one path that two transfers may have open at a time;
a channel of three events, so that one of them, all, or none of a transfer's can wait or be lost. Rows of other clients and files are only
crowding, which `Crowd` is too; the theorem covers any number. No path whose text reads like the start of a transfer (`StartLike`), which would keep
its row. `MCFileDoors` has both systems in one run: `checked` says which of the two a behaviour is of, and the other stays where it
begins, so that their states do not multiply.
*Algorithms*: trees of three names, each missing, a directory, a file or one of five links, with
paths of up to three segments; requests of up to two options at and beyond each limit, so that an option can come
twice; texts of up to six bytes at block sizes one to four, so that CR LF lies within a block and across two, and the
last block is empty; lines of up to the number of tokens in `MCAlgorithms`. The run starts one of `TftpCodec`,
`SyslogLines` and `ServedPaths` and leaves the others idle; the proofs are about `CodecSpec`, `LineSpec` and `JoinSpec`.
A walk follows at most `MaxLinks` links, as operating systems do: 4, so that paths over several links come to an end
and others do not.
Named bounds: `MaxLinks`, `MaxCrashes`, `MaxEvents`, `Lifetime`, `MaxReloads`, `MaxTime`, `File`,
`MaxHandles`, `MaxUpdates`, `MaxFaults`, `Buffer`, `MaxTransfers`. Deadlock is not checked because every system may come to rest (stopped, all
events published, transfer over). The type invariants of `TftpWrite`, `SyslogStore`, `ServerDrain`
and `FileDoors` are part of the modules and hold on the same instances; the runs spend
their time on the other properties.

Fairness. Weak fairness only, of goroutines' own steps: Go's scheduler runs a runnable goroutine,
a timer fires, a lock that is free is granted (sync.RWMutex does not starve writers, which
`EventBus` models explicitly). Not forced: crashes, calls by users, packets arriving, readers
reading, clients answering, leaving or finishing a handshake. Three assumptions deserve mention.
`StartDrains` in `Supervisor` is fair: `Start` returns once its context is done, the contract of
`Server`; `TftpRead.SessionEnds`, `TftpWrite.ShutdownDrains` and `ServerDrain.StartReturns` show
it for the servers, the last with the exceptions `SyslogHung` (a client that stays, on a connection accepted
after Shutdown had closed the others, or when nobody calls Shutdown) and `SftpHung` (a client that does not finish its handshake, or has left behind
a session that never asked for the sftp subsystem); with such a client a Replace waits
for ever. `ServerDrain` further assumes what its callers do: Shutdown follows the cancellation in Run,
the cancellation follows Shutdown in Replace, and `runEntry` cancels after Start has returned. `HotReload` assumes
that Supervisor's calls return (`CallsReturn`) and, in `RestIsPrompt`, that nothing but such a call
lasts the 300 ms of the debounce.

## 5. Proofs

All for arbitrary values of the constants, under the named `ASSUME`s of the modules.

- `SupervisorProofs`: `TypeCorrect`; `ReplacedDown`; `StaleStopped` (assuming that no call begins before Run,
  `EarlyCalls = FALSE`: `main` starts the watcher first, so the assumption is a race that is
  almost always won); `OnePerName`. The invariants as checked are not inductive.
  `Ownership` says which instance belongs to which entry or pending call, so that two entries
  never run the same instance; `Started` and `LateFalse` tie what a call read (`run`, the attempt) to
  the entry's state now; `RunsRegistered` says that an entry that runs is registered under its name or was removed.
- `EventBusProofs`: `TypeCorrect` (no channel over its capacity); `NeverPanicsHolds`, from
  `OpenWhileReading` (a channel that a publisher holding the read lock may still send to is
  open); `PublisherOrderHolds`, from `StreamInv`: what a subscriber received followed by its
  buffer is increasing per publisher and below each publisher's next event; `YieldsToOthersHolds`, from `Refilled`: when
  the third select finds the channel full again, its last event is from another publisher;
  `LossMeansLagHolds`, from `LossInv`: an event counted as lost is neither still to be offered to
  that subscriber nor among those it has seen (`Counted`), so that the backlog can be counted; whoever found the channel full
  offers an event that came late; and the late offers that no loss has been charged to yet cover every publisher that
  is about to make room and all of the backlog that exceeds the buffer (`Credit`).
- `TftpReadProofs`: `IInv` is `TypeOK`, `Numbered` (a packet carries its chunk's number modulo the modulus),
  `InStep` (client and session are at most one chunk apart), `CopyIsPrefix` and
  `CompleteMeansStored`. With packets younger than the modulus, equal numbers mean equal chunks
  (`SameNumber`, from two lemmas about remainders). `ImplementsTransfer` proves that every step of session, client or network is a
  step of `FileTransfer` or a stutter.
  The second half of the module is about `TftpCodec`. `TextsAreConverted` rests on `StreamInv`: after any number
  of blocks an upload's output, and the CR it carries, are what `Collapsed` gives for the text so far (`JoinedOneMore`),
  and a download's output is the expansion of the text so far, which collapses to it (`ExpandedBytes`). `RequestsAreConservative`
  rests on `SplitSoFar` (the fields and the rest, joined with NULs, are the bytes read so far), `LastPairCounts` (the value
  of an option is that of the last pair with its name) and `OptionsNegotiated`. That the recursive functions of the
  model are defined, and what they compute for every length, is shown from the well-foundedness of the
  natural numbers (`LeastExists`, `UpwardExists`, `DownwardExists`, `CountsUp`, `CountsDown`), without an induction
  theorem that takes an operator.
- `TftpWriteProofs`, for an upload that one session serves (`Session = {w}`; a repeated WRQ breaks all of
  it, see `MCTftpWrite_repeated.cfg`): `IInv` is `TypeOK`, `Numbered`, `InStep` (the session expects the block
  after the last it wrote, the client sends that or the one before) and `Stored` (the file is the first
  chunks in order). `Lifetime` and one more stay below the modulus, so a block that bears the expected number
  is the expected chunk; `os.Create` truncates nothing, because nothing has been written yet.
  `CompleteMeansWrittenHolds`, `DoneMeansWrittenHolds` and `ImplementsTransfer` follow.
- `ServerProofs`: about `ServerDrain`, `TypeCorrect`; `GracefulStopKeepsLines`, from `StoreInv`: a store that was closed
  before the deadline, by a Shutdown that found the sockets open, was closed when everything was `Quiet` (no
  listener, no handler, no connection on its way to one), and nothing is started after that.
  The second part is about `SyslogLines`: `LinesAreSplitCleanly`, for any lines over any tokens. `Parse` and the property
  decide in different ways where structured data ends: the code goes from character to character with a flag and skips what
  is behind a backslash, the property counts backslashes and quotes before a bracket. A character is escaped just when
  the one before it is a backslash that is not (`EscapedNext`), and a quote that is not escaped changes whether quotes are
  open (`OpenNext`); so the scan, wherever it stands, has met no closing bracket, stands on no escaped character, and its
  flag says whether quotes are open (`Unclosed`). It ends where the element does, or one behind a text that ends in
  a backslash (`ElementEnds`), and element by element at the end of the data (`CursorAtDataEnd`). What every function of
  the parser leaves over is an end of what it was given (`EndOfEnd`), down to the text.
  The third part is about `ServedPaths`: `SafeJoinIsConfining`, for any trees, root, paths and `MaxLinks`.
  `resolveExisting` resolves only the beginning of a path that exists, and appends the names below it unresolved; the
  property asks where the operating system comes to with all of it. The names behind a beginning are no part of where
  that leads, unless it leads to a directory that has them (`ResolvedAlong`, by induction on the links followed, from
  `StopBehind` and `Settles`), and a walk that has failed fails in the same way however the path goes on (`OutcomeAlong`).
  The first name that `os.Lstat` does not find is one that a directory does not have (`LstatNext`), so what is appended
  is where the walk stops (`OutcomeMissing`); and a beginning that exists for `os.Lstat` but not for
  `filepath.EvalSymlinks` is a dangling link (`ResolvesSoundly`).
- `HotReloadProofs`: `TypeCorrect`; `SettledApplied`; `NoNeedlessRestartHolds`. `IInv`: reloads
  that do not overlap run one at a time (`OneAtATime`); between them every service follows
  `liveCfg` (`Between`); within one, services already dealt with follow the new configuration, the
  others `liveCfg`, and the one in a Supervisor call is registered but not yet in its variable
  (`Within`); what the file says is pending or has been read (`Fresh`); a web handler that has
  yet to store its settings has an event pending (`StorePending`), which is why its
  late store cannot outlive the reload.
- `FileDoorsProofs`: `TypeCorrect`, which bounds the open files and needs that the largest and the smallest
  element of a finite set of numbers exist; `RightsInForce`, under `NamesAreUnique` (no section lists a name
  twice; the configuration's `Validate` does not check that, and SFTP breaks the property without it), from
  `Pointers` (what the driver's pointers hold is the section before or after the reload under way) and
  `LoginsGranted` (a login being checked has copied the rights of a section in its
  history already); `ChangesGranted`, from `HandlesGranted`: an open file belongs to a session that is logged
  in, has the right its direction needs, and lies inside the home, also after renames and removals by
  others. That is why a write needs no check of its own.
  The second part is about `TransferTable`: `TableFollowsSftp`, from `TableInv`. It says for every row (`RowsOK`) whose
  last deciding event was not lost and that no two transfers share: the last event in the channel that decides the row leaves
  it right, and the row itself is right when none waits; a progress event behind it can only belong to a transfer that is open,
  which keeps the row as it is. Rows are keyed by address and path, so two opens of one path share
  a row and the first close removes it: such a row is excepted until both have ended (`Overlap`),
  as are paths in `StartLike`.
- `SyslogStoreProofs`: `TypeCorrect`, `AcceptedStaysKept`, `RefusalsHaveACause`, `FilesStayBounded` and
  `ExpiredIsOld`, for any number of stores, lines, seconds and files. None of the four properties is inductive:
  where a line is depends on what every compression under way will do to the two files of its second.
  `StoreInv` adds that a file has one place (`PlacesOK`); that a store's handle is the current file, or one
  that another store moved (`CauseInv`), and that a store knows its file's size unless two wrote
  to it (`SizesOK`); that a current file which a rotation finds after its rename is empty (`ReopensOK`);
  that no file, name or job bears a time later than the clock (`TimesOK`), and what was rotated in a second was written by then, excepted lines apart
  (`DatedOK`); that what a cleanup has listed or looked at is old, whatever happened to the name since, and that it comes to a compressed
  file only after the rotated one of that second (`SweepsOK`); and, for every second
  (`SecondsOK`), one of two things. It is `Orderly`: at most one `compressFile` works on it, the rotated file
  is not replaced while it copies, the compressed file has all that the rotated one had before that is removed, and the
  rotated file is not younger than the second, nor the compressed one older, so that a cleanup
  that takes the compressed file takes the rotated one too. Or it is `Disorderly`: two
  rotations shared its name, and every line in its files is among the excepted ones (`clashed`, `mixed`).

Model-checked only: all liveness properties (the prover does not do fairness), and `LeavesNothingBehind` of
`ServerDrain` (a leads-to). Every safety invariant of a passing run is a theorem.

## 6. Findings

Two runs state what a comment or the plan document says and end with TLC's counterexample:
`supervisor_removed` (a removed server is started again) and `reload_overlap` (the last save is not applied).

Further disagreements, each with the configuration that reproduces it:

| Configuration | What it shows |
|---|---|
| `MCSupervisor_panic.cfg` | two overlapping Replaces of an unregistered name: the second one's `Add` panics (`internal/server/server.go:99`) |
| `MCEventBus_newlost.cfg` | the room that one publisher made is taken by another: the newest event is dropped, not the oldest |
| `MCTftpRead_strays.cfg` | late ACKs use up the attempts: a transfer is aborted without a timeout (`internal/tftp/session.go:303`) |
| `MCTftpWrite_repeated.cfg` | a repeated WRQ truncates the file under the first session: an upload is reported complete and is not |
| `MCFileDoors_rights.cfg` | two permissions do more than `internal/auth/auth.go` says: opening for append creates a file (line 70: "append to an existing file"; `internal/sftp/fs.go:90-93`; the FTP driver passes on the flags of its library), and SFTP's Setstat sets a file's size under "M" (line 75: "change file mode"; `internal/sftp/fs.go:114-125`), which FTP does not allow, against the "identical account/permission model" of `internal/sftp/fs.go:18-23` |
| `MCFileDoors_twice.cfg` | a name listed twice: SFTP checks the last entry's password and grants the first one's rights |
| `MCAlgorithms_cursor.cfg` | structured data that ends in a backslash: `splitStructuredData` slices past the end and panics (`internal/syslogsrv/parse.go:188`) |
| `MCAlgorithms_clamp.cfg` | the comment at `internal/security/path.go:15-23` says that climbing paths are rejected and not clamped; an absolute one is clamped to the root |

The window's table loses what the bus drops: `TransferTable.SftpRowsMatch` excepts the rows of `missed`. A flood of syslog lines
that overruns the 256 events of the window between two of its reads can drop a transfer's "완료" (`internal/eventbus/eventbus.go:84-96`), and its row stays until
a transfer of the same name from the same address.

`ServerDrain.StartReturnsOnceDone` is the contract of `Start` as it is written; it fails for the
clients that `StartReturns` excepts. Observations that are not properties: a removed entry
whose name was added again passes the registration check by name; a server added after Run began
is not waited for; a Replace that begins before Run may leave the old server running; FTP
sessions keep the rights that a reload withdrew, SFTP sessions are cut; the FTP events carry no file
name, so the table's progress rows of FTP stay; an upload shown first by its progress event counts as a
download; a root directory behind a symbolic link refuses every path; a client without the
blksize option is sent blocks of 512 bytes even when `MaxBlksize` is smaller; a CR that ends a netascii upload is lost.

## 7. Not modelled

The web console's login sessions (a map with expiry under one lock), page rendering and
browsing; the window's widgets and settings dialog, apart from the saving of a configuration, which
`HotReload` has; the copy of the transfer table in `app.js`; the parsing of networks in the access list; the filtering of
file events by name; the fields that `Validate` checks; autostart, icons, fonts, drive lists and console
attachment (pure I/O or drawing); the FTP, SSH and HTTP protocols themselves (libraries); bcrypt and TLS. A process that
ends in the middle of something is modelled for the syslog store, which leaves files behind; nothing else
persists state except the configuration file, whose truncated form `HotReload` has.
