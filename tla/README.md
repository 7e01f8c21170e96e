# nksrv in TLA+

nksrv is a bulletin board server: one program serves boards over HTTP and NNTP
from a PostgreSQL database and a directory of files, takes posts from both
sides, and pulls articles from other NNTP servers. This directory holds TLA+
models of its parts, the TLC configurations that check them, and proofs that
TLAPS checks.

All paths below are relative to `src/src/nksrv/lib/` unless they begin with `src/`.

* [1. Inventory](#1-inventory)
* [2. Modules](#2-modules)
* [3. Runs](#3-runs)
* [4. The cache](#4-the-cache), [5. the puller](#5-the-puller),
  [6. web posts](#6-web-posts), [7. the NNTP server](#7-the-nntp-server),
  [8. texts](#8-texts), [9. articles and references](#9-articles-and-references),
  [10. starting and stopping](#10-starting-and-stopping)
* [11. Proofs](#11-proofs)
* [12. Only model-checked](#12-only-model-checked)
* [13. Not modelled](#13-not-modelled)

## 1. Inventory

| Component | State | Operations | What is hard |
|---|---|---|---|
| File cache engine `utils/fs/cacheengine` | map `w` from id to `CacheObj`, files under temporary and stable names | `ObtainItem`, its generating goroutine, `RemoveItemStart`, `RemoveItemFinish` | three kinds of actors, a lock per object and one of the map, sleeping on a condition, files closed under their readers |
| CachePub `utils/cachepub`, NNTP copiers `app/psqlib/internal/pireadnntp/nntpcopyer.go` | bytes written, each reader's offset, the open answer | `Write`, `Finish`, `Cancel`, `Read`, `CopyFrom` | one writer and many readers of a file that grows and is closed; resuming at the right offset |
| NNTP articles and groups `pireadnntp` | the group pointer of a connection | `GROUP`, `NEXT`, `LAST`, lookups, lists, overviews | the database changes between two commands |
| NNTP puller `nntp/client_puller.go`, its table `piold/nntppullerdb.go` | to-do list, the recorded number of each group | `processTODOList` and its response loop, scans of groups | pipelined requests answered by another goroutine; what may be recorded as done; a server that changes; theorems |
| Web posts `pipostweb`, `pipostbase`, file store `utils/fs/fstore` | transaction, temporary and pending files | workers before and after the commit, the retried commit | files are moved outside the transaction; workers outlive an attempt; crashes |
| NNTP posts `pipostnntp`, `mailib` | the article in a file, its parts in others | `POST`, `IHAVE`, `CHECK`, `TAKETHIS`, the puller's `ReadArticle` | what is looked up is old when it is used; two goroutines at one pipe; files of every failure |
| References `pirefs`, `webib0` | references of each post | computed again for the posts that may refer to one that comes or goes | concurrent transactions; pages |
| Triggers `src/etc/psqlib/*.sql` | counters of files, numbers of boards | on insert, update and delete | which trigger sees what of which transaction |
| NNTP server `nntp/server.go`, sessions `nntp/scmd_*.go`, `nntp/auth.go` | listeners, connections; per connection privileges, group, what is left to read | `Serve`, `Close`, every command | shutdown; an article is read by others than the loop that reads commands |
| Wildmats and policies `nntp/wildmat.go`, `pigpolicy` | none | which groups are listed, created, pulled | a pattern is turned into a regular expression |
| Text `utils/text`, `mail`, `mail/form` | buffers | buffered reader, dot reader, heads, parts, forms, line ends | pieces that end anywhere, lines that do not fit, limits |
| Captchas `captchastore`, `base/webcaptcha`; schema `utils/sqlhelper/pgxhelper` | keys and used captchas; version of the schema | init, make, check; upgrade | several processes on one database; clocks |
| Moderation, jobs, pusher, web reading, rendering, thumbnails, programs | | | see [13](#13-not-modelled) |

How they meet. An NNTP command calls `ObtainItem` with a copier as the
destination; the goroutine of the engine calls the backend's generator with a
CachePub as the writer. Posts of either side insert rows, whose triggers count
files and number posts, and move files into the store; moderators delete rows.
The puller and the NNTP session hand articles to the same code that looks at
heads, eats bodies and submits posts. A session reads commands and articles
through one buffered reader and a dot reader on it.

What makes each part correct is what its properties say, in the sections below.
The hazards, each at the line where it bites and with the properties that look
for it, are listed in `PROJECT.json`.

## 2. Modules

| Module | What it is |
|---|---|
| `CacheEngine` | the engine, for one id: calls, goroutines, removals |
| `CacheEngineInv`, `CacheEngineProofs` | its inductive invariant `IInv`, and what holds until an item is removed (`FlightOK`); theorems |
| `Delivery`, `CacheCopy` | abstract: what a client of the cache is promised; CachePub, its readers and the copiers, byte by byte, which implement it |
| `PullerTodo`, `PullerTodoProofs` | one call of `processTODOList`; theorems |
| `PullerScan`, `PullerScanProofs` | the scans of a puller over its table and a server that changes; theorems |
| `Listing` | how the puller reads what a server lists, and responses |
| `PostCommit`, `PostCommitProofs` | commits of web posts, with their files, retries and crashes; theorems |
| `NNTPServer` | listeners, connections, shutdown |
| `NNTPSession` | one connection: commands, articles, authentication |
| `GroupPointer` | the group pointer and what is read with it |
| `GroupPolicy` | wildmats and the puller's policy on groups |
| `BufReader`, `DotReader`, `TextLines` | the buffered reader; dot-encoded blocks on it; line ends |
| `TextParts`, `TextsAndLists` | texts in parts; `TextLines`, `Listing` and `GroupPolicy` together |
| `ReadingProofs` | theorems about `GroupPointer`, `TextLines`, `Listing` and `GroupPolicy` |
| `HeaderReader`, `HeadWriter`, `PartReader` | heads read, heads written, parts of a multipart body |
| `FormParser` | the parts of an HTTP form, under the parser's limits; theorem in `PostCommitProofs` |
| `PassingOn` | how an article is taken apart and put together again for others; theorem in `PostCommitProofs` |
| `Transfer` | which articles are taken |
| `NNTPProofs` | theorems about `NNTPSession`, `Transfer`, `BufReader` and `DotReader` |
| `Intake` | how one article is taken in: files, parts, thumbnails, commit |
| `ArticleProofs` | theorems about `Intake` and `CacheCopy`, and that the latter implements `Delivery` |
| `PostRefs` | references between posts; theorems in `PostCommitProofs` |
| `Captcha`, `SchemaTool` | captchas and their stores; upgrades of the schema |
| `StoresProofs` | theorems about `Captcha`, `SchemaTool` and `NNTPServer` |
| `MC...` | the instances that TLC checks, and what runs together |

Composition. `CacheEngine` has the control and the life of the files of one call
of `ObtainItem`, `CacheCopy` the bytes. `PullerScan` takes one call of
`processTODOList` as one step that does what `PullerTodo` shows of it. `DotReader`,
`HeaderReader` and `PartReader` extend `BufReader`: they read through the buffer
it models, as the code does, and fail or not with what it holds. `HeadWriter`
writes the heads that `HeaderReader` has read. `NNTPSession` has the dot reader
and the buffer by what they leave in the connection. `Intake` is one article of
`Transfer`, seen closer.

An MC module puts together several modules that share no state: a variable
`subject` says which of them a behaviour is about, and the others stand still.
This keeps the number of runs small and weakens nothing: every behaviour of every
module is a behaviour of the composition, and fairness is stated for each.

## 3. Runs

States and times are of TLC with two workers.

| Run | Module and configuration | Properties | Distinct states |
|---|---|---|---|
| `cache` | `MCCacheEngine`, `_calls` | `RefCountExact` `UsedFileStaysOpen` `SingleFlight` `ResumesSameContent` `NoStrayTempFile` `PlaceholderHoldsEntry` | 1,914,966 (117 s) |
| `calls` | `MCCalls`, `_calls` | `NumbersTrue` `WalkComplete` `Matched` `CleanReturn` `RecordedIsLargest` `CallReturns` `PromptObtainsReturn` | 575,610 (102 s) |
| `stores` | `MCStores`, `_stores` | `RunInOrder` `OnceWhileValid` `KnownEverywhere` `AllGone` `NothingPassedOver` `CallsReturn` `CloseReturns` `CatchesUp` | 704,639 (134 s) |
| `commit` | `MCPostCommit`, `_commit` | `RowHasFiles` `CountsExact` `Tracked` `Returns` | 466,678 (116 s) |
| `readers` | `MCReaders`, `_readers` | `InOrder` `DotTrue` `HeadsTrue` `PartsTrue` `FormTrue` `LinesTrue` `PassedOnWhole` `InStep` `Entitled` | 1,611,825 (130 s) |
| `articles` | `MCArticles`, `_articles` | `NoTempLeft` `Described` `RefsTrue` `TakenTrue` `Delivers` `ArticleEnds` | 1,281,701 (160 s) |
| `session_drain` | `MCNNTPSession`, `_drain` | **violates** `InStep` | |
| `copy_body` | `MCArticles`, `_body` | **violates** `Delivers` | |
| `relay` | `MCReaders`, `_relay` | **violates** `RelayedTrue` | |
| `cache_overlap` | `MCCacheEngine`, `_overlap` | **violates** `NeverPanics` | |
| `schema_skips` | `MCStores`, `_skips` | **violates** `VersionTrue` | |
| `captcha_twice` | `MCStores`, `_twice` | **violates** `SingleUse` | |

The six violations are findings: what a comment of the code says and the code
does not do.

* `session_drain`: `HandlePost` drains what is left of an article only when it
  refuses it (`nntppost.go:310-318`), `nntpprovider.go:102` says that handlers
  must drain their readers. A body over the limit, or something behind the last
  boundary, is read as commands.
* `copy_body`: a client of `BODY` that is interrupted while the article is still
  generated resumes at the number of bytes it was sent, which does not count the
  head it skipped: some of the body is sent twice.
* `relay`: the server's name is put before the value of `Path`, and the places
  where the header was folded stay where they were
  (`post_n_digesthead.go:164`, `headers.go:53`): the line is cut at the wrong
  places when it is written.
* `cache_overlap`: of two removals of one id that overlap, the later one replaces
  the placeholder of the earlier and ends first; an object is published, and the
  finish of the earlier removal panics on it, which `cacheengine.go:499-500` says
  cannot be. Nothing calls `RemoveItemStart` at this commit (`delete.go` has the
  call in a comment), so this is about the engine alone.
* `schema_skips`: two migrations are due in one call, `performUpgrade` runs the
  first (`c` of `schematool.go:350` is never raised), and `maxVer` is recorded,
  after which "we don't need to migrate" (line 241).
* `captcha_twice`: a captcha is accepted, expires and is purged by a later request;
  a submission that was validated before it expired (`webcaptcha.go:191`) comes to
  the store after that and is accepted too. The store is there "to prevent reuse"
  (`captchastore.go:3`).

Deadlock is checked in every run but four: `commit` (a behaviour may end in a
crash), `readers` and `relay` (a reader stops when its input ends, a connection
ends), and `session_drain` for the same reason.

Each module has a definition that types its variables where that is not obvious
(`TypeOK`, or `CacheTypeOK` and the like where several modules meet). Those of
`CacheEngine`, `CacheCopy` (for ARTICLE and HEAD), `PullerTodo`, `PullerScan`,
`PostCommit`, `NNTPServer`, `GroupPointer`, `Transfer`, `Intake` and `Captcha`
are proved (section 11), and what the proofs need of those of `NNTPSession`; the
others were checked by adding them to the `INVARIANTS` of the configuration.

## 4. The cache

### CacheEngine

One id is modelled: `ce.w[objid]` is the variable `w`, and nothing but the lock
`ce.m` is shared between ids. A call publishes at most one `CacheObj`, so
objects are named by calls and `n`, `p`, `f`, `e` are functions over calls. A
`Reader` is one call of `ObtainItem`; a `Remover` is one `RemoveItemStart`
followed by `RemoveItemFinish` on success (as in `RemoveItem`, or with a pause
between the two, as the note at lines 403-409 intends).

A step is one critical section or one file operation, so the interleavings are
those of the locks. Where a critical section of an object is nested in one of
the map (registering), they are one step, and where code leaves one and takes
another (`unregister_from_o`, `oo_broken`, `RemoveItemFinish`), they are several.

| Code (`cacheengine.go`) | Actions |
|---|---|
| 166-179 first look | `FirstCheck` (an entry with `n = 0`: look again) |
| 181-199 second look | `SecondCheck` |
| 201-228, 309-319 open or start generating | `OpenPassive`, `PublishFile`, `NewTempFile`, `PublishPub` |
| 147-164 `oo_broken` | `OwnerBroken`, `OwnerMarkBroken`; from the goroutine `WorkerBroken`, `WorkerMarkBroken` |
| 324-347 wait for news | `AwaitNews`, and `Dispatch` in it |
| 349-401 copies | `CopyPubEnds`, `CopyPubClosed`, `WaitWorker`, `AwaitReopened`, `CopyFileEnds` |
| 117-145 `unregister_from_o` | `Unregister`, `LastDelist`, `LastClose`, `LastClear` |
| 228-306 goroutine | `Generate`, `CloseTemp`, `Unpublish`, `StatStable`, `RenameTemp`, `RemoveTemp`, `Decide`, `ReopenStable`, `PublishReopened` |
| 411-450 `RemoveItemStart` | `RemoveStart`, `Unlink` |
| 485-520 `RemoveItemFinish` | `RemoveFinish`, `RemoveMark` |

`Cond.Wait` is a program counter `asleep` or `reasleep`; `Broadcast` (`Woken`)
is part of the step that precedes it. This loses no interleaving: a sleeper is
woken after a change in any case, and it looks again before it goes on. Every
file operation may fail where the code tests for it. A panic ends the process:
after `Crashed` no step is taken. A behaviour begins with an empty map, with or
without a stable file: a process that was restarted finds just that.

The build is the unix one (`remove_unix.go`): `deleteTimeoutClose` and the wait
at 427-439 are for systems where an open file cannot be removed.

What is checked: a file that a call uses is not closed under it; the counter `n`
is the number of its users; one generation at a time; a call that goes on in the
stable file finds there what it read in the temporary one; no temporary file is
left; the last removal to begin holds the entry until it ends. `SingleFlight`,
`ResumesSameContent` and `NoStrayTempFile` are stated for the time before a
removal (`Unremoved`): once a placeholder has replaced the entry of a generation
under way, a second one begins and renames over the first, which the comment at
`rename_default.go:9` admits.

Removals of one id may overlap: the engine does not prevent it. `replaced` is
history, the removals whose placeholder a later one has overwritten.
`PlaceholderHoldsEntry` is what the code does ensure, whatever overlaps: a removal
that is not in `replaced` holds the entry until its `RemoveItemFinish`, which meets
its own placeholder and nothing else. An overtaken removal has no such luck: it may
meet an object in use and panic, against the comment at 499-500 (`NeverPanics`,
violated in `cache_overlap`); or it meets no entry and returns early, and then the
counter of its placeholder stays up (`Abandoned`, excepted in `RefCountExact`)
and who sleeps on it is never woken (`Stranded`).

*Bounds.* Three readers are a publisher, a call that is interrupted or served by
it, and a newcomer at the worst moment; two removals are the least for which one
placeholder can meet another. The constraint `TwoOrNoRemoval` leaves three
readers without removal and two with two (three readers with a removal have 7.3
million states and hold the same invariants). A reader may go through `begin`
any number of times. Calls are interchangeable: `CallSymmetry`.

*Fairness* (in `calls`). Weak fairness for each call, each goroutine and each
removal that has begun: the Go scheduler runs every goroutine that is not
blocked, and no step needs a lock that is held across another step. Nobody has
to remove anything. The end of a copy is fair for the clients outside `Slow`
only: a client may stop reading, and then only its own call may hang. A call
that finds `n = 0` yields and looks again; one that did only that for ever would
violate `PromptObtainsReturn`. With three readers two of them can keep a
finished object alive by turns and a third looks again for ever; the run has two
readers. It has one removal, because two that overlap may leave a call asleep.

### CacheCopy and Delivery

The data of one call that generates: the goroutine appends to a file through
`CachePub.Write` (the file first, then the count), ends with `Finish` or
`Cancel`, closes the file, and reopens the stable one or fails. The reader
(`Reader.Read`: wait and take note, then read) may find the file closed between
the two halves of `Read`, after part of what it wanted. The copier then returns
"file already closed" with the number of bytes it calls written, and the call
reads on from the stable file at that offset. An article is a sequence of `text`
and `nl`; `out` is the sequence of positions sent, so a gap, a repetition and a
change of order all show.

`Delivery` is the promise: what is sent is a growing prefix of what was asked
for, and "ok" is said only when all of it is sent. `Delivers` says that
`CacheCopy` implements it, under a refinement mapping; it does for ARTICLE and
HEAD, which is also proved, and not for BODY (`copy_body`). Articles have up to 6 bytes and buffers 3:
heads and bodies of zero, one and several lines, and the empty line inside a
buffer and across two. The generating goroutine and the client take steps, or
the client goes away. That the stable file holds what the goroutine wrote is
`ResumesSameContent` of `CacheEngine`.

## 5. The puller

### PullerTodo

One call of `processTODOList` (`nntp/client_puller.go` 472-679). The caller walks
the list and sends ARTICLE commands without waiting for the answers; what it
asked for goes through `todochan` to the response loop, a goroutine that reads
the answers. The goroutines meet in three places: `todochan` (buffered, closed
by the caller), `finishchan` (not buffered: an error, or its close) and
`new_maxid` (under `maxidMu`), which a deferred function records.

| Code (`client_puller.go`) | Actions |
|---|---|
| 573-578, 614-619, 636-641 looks at `finishchan` | `Poll`, three times; `TakeFinish` is `handleFinishCase` |
| 580-612 is it wanted | `Wanted` |
| 621-634 does its reference exist | `Reference` |
| 644-650 the command | `Ask` |
| 652-664 into the queue, or an end of the response loop | `Queue` |
| 539-542, 668-678 close and wait | `CloseTodo`, `AwaitWorker`, `ErrAwaitWorker` |
| 480-492 deferred | `Return` |
| 523-534 next from the queue, or the end | `TakeTodo` |
| 416-470 the answer | `ReadGood`, `ReadStrange`, `ReadFatal` |
| 505-512 raise `new_maxid` | `RaiseMax` |

A send on `finishchan` is two steps: the response loop is at `offer`, and whoever
receives moves it to `done`; its close is `closed`. The wire is the sequence
`asked` of the commands and the number `answered` of those whose answers have
been read: the server answers in order, as NNTP requires. `fate` and `declined`
are history: what became of each article, and which were logged as "not
requesting". The database, the server and the connection choose freely, and
each may fail where the code tests for it.

*Bounds.* With a queue of 1, a list of 3 fills every place an article can be in
(the response loop, the queue, the caller); the queue is full, empty and closed with
something in it. Lists of 4 (1.1 million states) were checked by hand. Two numbers are enough for
ascending, descending and equal neighbours, which is all that `Raise` tells
apart. The theorems have no such bounds.

*Fairness* (`TodoFairness`): each of the two goroutines takes steps as long as it can.
For the reading of an answer this assumes that the server answers or that the
connection breaks. The code sets no deadline on it (line 422), so a server that
is silent for ever does hold the call for ever.

What `RecordedIsLargest` does not say is that everything below has been dealt
with: an article that drew a strange answer, or that was waiting for its answer
when a fatal error came, is passed over. The TODO at lines 475-477 knows.
`CleanReturn` speaks of calls without an error: where the caller ends with an
error of the database, a fatal one of the response loop is dropped
(`ErrAwaitWorker`, line 541), and the connection is used on although answers may
be left on it. For `PullerScan` that is an error that is not fatal, and what is
read next on the connection one of the failures it counts.

### PullerScan

`Run`, `main`, `groupScanLoop`, `doActiveList`, `doNewsgroupsList`, `doGroup`,
`eatGroup`, `eatGroupSlice`, and the table of `nntppullerdb.go` with every
operation on it. A scan lists the groups, notes their high marks in the table,
walks the rows that it noted, and reads each group in slices, by the first
method of listing that the server knows (HDR, XHDR, OVER, XOVER). The server
takes in articles, drops them, drops whole groups and numbers a group anew;
these actions are external. `former` is what the puller knew when a group was
numbered anew, until it notices.

`NothingPassedOver`: up to the number that the table records for a group, every
article that the server has was looked at, but those whose line cannot be read.
`CatchesUp`: once the server is quiet and nothing fails, every article is looked
at sooner or later.

*Bounds.* Two groups of up to three articles, slices of one, lists of two, one
failure, two changes, one article whose line is unreadable. Larger instances
that were checked by hand and hold the same: one group, numbers to 4, slices of
two, three failures and four changes (5.1 million states); two groups with two
failures (2.5 million). *Assumptions*: one LIST is one step; a group is numbered
anew between scans, when no rows are open (with rows open it is passed over until
the next change, hazard at `nntppullerdb.go:212`), and below what was recorded.
*Fairness* (`ScanFairness`): the puller goes on as long as it can.

Where every method of listing has failed once on a connection, no group is read
on it again (`client_puller.go:991`): `CatchesUp` needs a new connection then.

### Listing

What the puller makes of the lines that a server sends: the first line of a
response (`client_common.go`), HDR and overview lines, LIST, LIST NEWSGROUPS and
CAPABILITIES (`client_puller_utils.go`, `servutil.go`). Tokens are bytes but
that one letter is a whole id or name; numbers wrap at `WordSize` as `stoi64`
does, which tests for no overflow. Every line is read through a buffer of
`InbufLen`, and a longer one is skipped to its end. `ListTrue`: a list
that is read says what its lines say, in order, and was read to its end; one that
is refused leaves nothing on the wire; an overview is refused only if it is cut
off. Inputs: lines
with every number of fields, each looked-at field good, bad or too long, in
texts of one or two lines, ended or cut. Comments in `References` are not
modelled.

A bad HDR line refuses the whole slice at every scan; an overview line whose
number, id and references do not fit into 512 bytes is skipped and its article
never fetched ("TODO don't skip", 763).

### GroupPolicy

`nntp/wildmat.go` turns a wildmat into a regular expression; `pigpolicy` does the
same for the policy on groups that are added by themselves, and adds what no
group may be called. Names are sequences of characters; the reserved words are
short sequences given as constants. `PolicyTrue`: the compiled expression admits
a name exactly if the last pattern that matches it, as RFC 3977 says, is one
without `!`, and for policies if no reserved component is in it. All wildmats up
to four characters of `t o * ? , !` are asked about all names up to two, `*`
about all names up to four. A policy with an empty text admits nothing; no
policy at all admits everything. Characters outside ASCII are left out: each
byte of one is escaped by itself, which `regexp` does not accept.

## 6. Web posts

`PostCommit`: `wp_act_commit` with its retries (`post_1w_5act_commit.go`), the
goroutine that moves uploaded files to a pending directory while the transaction
runs (TP) and the one that links them into the store (PA)
(`post_1w_3act_fpp_bc.go`, `post_0c_3act_fpp_bc.go`), the cleaning up after
either outcome, and the triggers that count how many posts use a file. Files are
named by their content, so posts share them. Transactions are serializable:
what one inserted is seen at its commit, the counters it touched stay locked,
and who finds one changed behind its snapshot fails with an error that is
retried.

A crash may come at any step. What is on the disk then is a prefix of what was
done plus everything that was synced; `synced` tells which pending directories
are.

`RowHasFiles`: a committed post has its files in the store, after a crash there
or in its pending directory. `CountsExact`: the counters are the numbers of
posts, never negative. `Tracked`: a file in the store is used, queued for the
reaper, or belongs to a post under way. `Returns`: every post is made or refused.

*Bounds.* Two posts that share a file, one with a thumbnail, each retried once,
one failure that is not retried, moderators that delete. A larger instance (two
files for one of them, two failures) was checked by hand without liveness
(1.2 million states). *Fairness*: one weak fairness for the whole, since
whatever can run does; the database ends every statement.

What was seen on the way: `werr` of the first attempt poisons the later ones, so
a retry after a worker has failed fails as well; the reaper of the queue is an
empty stub (`job_delete.go`); the package, in the middle of a change of names,
does not compile at this commit; two rows of one file name in one insert are
refused by Postgres. The model has `nohardlink`, a flag that is set once without
a lock, as a free choice of how a file is linked.

## 7. The NNTP server

### NNTPServer

Goroutines that serve a listener, one handler per connection, and goroutines
that call `Close`, after which the server may be used again. What runs between
`s.mu.Lock` and `s.mu.Unlock` is one step; a WaitGroup is the set of goroutines
that were added and are not done. `AllGone`: when `Close` is about to return
true, no call of `Serve` and no handler runs, and no connection is open.
`CloseReturns`: the server is not closing for ever.
*Bounds*: three goroutines on two listeners, three connections, two closers.
*Fairness*: a goroutine that can run does; a closed socket ends `Accept` and the
handler of a connection.

Seen on the way: a `Serve` that is ended by an error that is not temporary leaves
its listener registered, so that serving it again is refused without an error;
`ListenAndServe` that is refused while the server closes leaves its socket open;
`cmd/demoserv1/main.go:88-101` returns as soon as `Serve` has ended, while
`Close` still waits.

### NNTPSession

One connection: the loop of commands (`server.go`, `scmd_base.go`), every
command (`scmd_read.go`, `scmd_list.go`, `scmd_post.go`, `scmd_auth.go`), what
posting reads of an article (`nntppost.go`) and what the dot reader leaves. The
client may send up to `MaxAhead` commands ahead, but stops behind POST, IHAVE,
STARTTLS and QUIT, whose answers it needs. An article has a number of lines, and
its reader may stop at `ending`, a limit or the last boundary. `InStep`: no line
of an article is read as a command, and every answer is one that the oldest
unanswered command may get. `Entitled`: privileges come from the defaults, from
TLS and from the one account that is logged in; and a group is selected only
where reading is allowed.

*Bounds*: two accounts, three configurations, articles of two and three lines,
buffers of two, a limit of three. In `readers` an article ends where its reader
does; the run `session_drain` adds those that do not, and finds the violation
above.

Left out: the loop in `serveClient` that answers illegal characters, a TAKETHIS
without an id (refused without draining), log-in by client certificate, an empty
line (it gets no answer), and LISTEN and XWAIT, which no command reaches.
STARTTLS calls `tls.Client` on the server's side: how the handshake ends is left
open. `LISTGROUP` of an unknown group leaves a group of number 0 selected.

### GroupPointer

One connection reads while posts are inserted, into one group or both, and
deleted (`nntp.go`, `nntpcachemgr.go`, `src/etc/psqlib/nntp.sql` and the
triggers that number posts, `init_triggers_bposts.sql`). An insertion takes its
numbers, then commits; it holds the rows of its groups in between. `NumbersTrue`:
a number means one article for ever, in what the pointer holds and in all that
was said. `WalkComplete`: NEXT and LAST pass no article over, not even those that
are committed while the walk goes on. It is true because a group gives numbers
to one transaction after the other.

*Bounds*: two groups, three articles, numbers up to three, two ranges; one article
at most goes to the second group (`FewElsewhere`; without that bound 2.3 million
states, checked by hand). Boards do
not disappear: `IBDeleteBoard` and `IBUpdateBoard` name columns that do not
exist (`webpost.go:240-270`). Placeholders of bans come only from inserts into
the list of bans by hand and are not modelled. NEWNEWS compares numbers of
articles instead of the dates they were received. When copying an article fails
after its first byte, the connection is broken off (not modelled).

## 8. Texts

What a connection or a form brings is read in pieces that end anywhere; each
model here is checked over all small inputs and all ways to cut them, against a
definition of what the text means. They are subjects of `MCReaders`.

| Module, property | Code | Inputs |
|---|---|---|
| `BufReader`, `InOrder` | `text/bufreader/bufreader.go` | one text, buffers of 1 to 3, calls that want 1, 2 or 4 bytes, every method in every order |
| `DotReader`, `DotTrue` | `text/bufreader/dotreader.go` | all texts up to 4 of `.` CR LF `a`, after a short block or none; buffers of 1, 2 |
| `HeaderReader`, `HeadTrue`; `HeadWriter`, `WrittenTrue` | `mail/headerreader.go`, `headers.go`, `headerwriter.go` | heads of up to three lines of six kinds that make or break them, folded or not, both endings; buffers of 3 and 24; limit none or 6; `SkipHeaders` |
| `PartReader`, `PartsTrue` | `mail/multireader.go` | three lines that are boundaries, nearly or not, and an end mark or none; both endings; parts read or left; buffer of 10 |
| `TextLines`, `TextTrue` | `text/asciiutils/unixtextreader.go`, `splitwriter.go` | all texts up to 5 of CR LF `a`; buffers 1 to 3, widths 1 to 3 |
| `FormParser`, `FormTrue` | `mail/form/form.go` | forms of up to three parts, sizes 0 to 3, under four limits; one failing call; sums that overflow at `MaxInt64` = 7 |
| `PassingOn`, `PassedOnWhole` | `mailib/articleprocessing.go`, `articlegeneration.go`, `postinfo.go` | all contents up to 2 of `a` LF CR NUL and 8-bit, every transfer encoding, single, multipart, message |

`HeadsTrue` is `HeadTrue` and `WrittenTrue`; `LinesTrue` is `TextTrue`, `ListTrue`
and `PolicyTrue`. `HeadWriter` folds where the reader found folds, and orders the
headers; header names are told by their length. The underlying reader returns
any piece that is not empty, and the end with the last piece or after it; other
errors of reading are not modelled.

`PassedOnWhole`: what was taken in, taken apart into files and generated again
for another server has the same subject and parts, and that server keeps the
very same post. Four kinds of article are excepted in `Passable`, each because
the property fails for it, as a run without the exception shows: a multipart
without parts; a multipart inside that has NUL in it; a part with a header line
of more than 998 bytes; a binary message in base64. Multiparts inside a multipart
are kept as attachments.

`multireader.go:87`: `truncated` is never reset, so after a line before the first
boundary that is longer than the buffer no boundary is recognised; `PartsTrue` is
checked for lines that fit.

## 9. Articles and references

### Transfer

Several peers offer articles at once, by IHAVE or TAKETHIS, by POST, and by the
puller. A handler looks the id up (`Begin`), digests the head (`DigestHead`),
looks up the group and the post it replies to (`AcceptHead`), takes the text
(`TakeText`), and inserts (`Submit`); each is one step, and what it looked up may
be old when it is used. Moderators remove posts and threads meanwhile
(`RemovePost`), and groups are added (`ListedGroup`). An id belongs to one
article; a thread that is begun again by it has another number, so who has found
the old one has found nothing (`BadId`).

`TakenTrue`: every stored post stands in its group and in a thread of that group
that is there and was begun no later; who posted was told so only if the post
was stored; who transferred an article was told so only if it was stored, or its
text cannot be understood, a call failed, or posts were removed. The last part
says as much as the code does: `nntpSendIncomingArticle` logs a failed insert and
answers well, and the peer will not offer the article again. A reply that comes
before the post it replies to is refused, and the puller asks for no such post
(`client_puller.go:500`).

*Bounds*: two peers, two offers of 17, one removal, one failure; with three
offers, 663,091 states, checked by hand. The theorem has no bounds.

### Intake

One article: copied to a file if a server sent it, its head left behind, each
part eaten into the message or into a file, thumbnails drawn by external
programs, a message inside kept whole by a second goroutine behind a pipe while
the first takes it apart, then the post inserted, the files moved to the store
and the transaction committed. What a file holds stands for its name in the store,
which is made of its hash. Any call of the operating system, the database or a
program may fail; `MaxFaults` are two, so that one may fail while another is
cleaned up after.

`NoTempLeft`: wherever it ends, no temporary file is left that anybody could
still remove; `stuck` are those that the code itself gives up: an article whose
file cannot be closed or renamed, a thumbnail of a film that ffmpeg breaks off.
`Described`: what is returned of the parts is what the files hold.
`ArticleEnds`: neither goroutine waits for ever at the pipe. Bodies: every body of
one part and every multipart of up to two, with and without something behind the
last boundary, cut off, with a message inside, with a face. Names are reused at
once, which makes taking one file for another as likely as can be.

A crash leaves files behind that nothing looks at again (`in_got`). A body of a
POST that is over the limit is cut off silently. `nntpprocessing.go` mixes old
and new names and does not compile at this commit; the model has what it says.

### PostRefs

Posts name others by the first digits of their names, with or without a board,
or by Message-ID. What a post refers to is stored with it and depends on what
posts there are, so the transaction that adds or deletes a post looks for posts
that may refer to it and computes theirs again, a page of `PageLen` at a time. A
transaction sees at each statement what is committed and what it did
(READ COMMITTED). Posts of one board come and go one after the other, because
each transaction updates the row of its board; those of two boards overlap.

`RefsTrue`: at rest every post refers to what it would refer to if it came in
now, and the back references of a thread are the references in it. It holds as
long as no two transactions have overlapped, and for references within a board
always. Two transactions on two boards do miss each other: neither sees the post
of the other, and both references stay behind (hazard at `references.go:656`).
`RefsCorrect` proves it for any boards, posts, messages and lengths of a page; the
assumption is that no two matches of a message begin at the same place.

*Bounds*: two boards, three posts, pages of one, four transactions. Transactions
that fail leave nothing, so only victims of a deadlock roll back. An article has
one board. In-Reply-To is what `ProcessReferencesOnPost` gives, which the web
pipeline of this commit does not call.

## 10. Starting and stopping

`MCStores` has four subjects: `NNTPServer` (section 7), `PullerScan` (section 5),
and two more.

`SchemaTool` (`pgxhelper/schematool.go`, `versioner.go`): several calls of any
releases prepare one database; a release has a current schema, seeds and
migrations. The row of the component is locked by who has changed it; a call that
finds that another was faster starts over, up to ten times. `RunInOrder`: every
piece of SQL is committed once at most and never after one of a later version, the
tables are built first and by one call alone, and nothing is beyond the version
recorded. `VersionTrue`: the recorded version is the one that the tables have; the
code does not keep to it (`schema_skips`). `CallsReturn`. The run has three calls of
four releases and one failing statement: a release with nothing but the schema, one
with a seed and a migration, one with a later schema and both migrations, and one
whose schema is behind its migration, which does not load. `checkCanUpgrade` also
refuses a database that is newer than the first migration that a release carries.
No program calls the tool yet.

`Captcha` (`webcaptcha.go`, `captchastore`): a captcha carries its answer and its
second of expiry, encrypted with a key that all servers load from the store; used
ones are stored until they expire. Processes start, stop and crash; requests read
the clock and go to the store later, however much later. `OnceWhileValid`: no
captcha counts twice before it has expired, whatever is purged meanwhile with
whatever clock. `SingleUse`: none counts twice ever; the code does not keep to it
(`captcha_twice`). `KnownEverywhere`: every key that may be used is known to every
process that runs. Two processes, two keys, two captchas, two requests, captchas
valid for one second, three seconds, one crash: enough for a captcha to be accepted,
to expire and to be purged by another request while a third is on its way. The memory
store loops for ever, under its lock, when captchas are solved in another order than
they were made (`memstore.go:60-83`); `spinning` is that state, which no property
forbids, because it happens.

*Fairness*: a call that was begun goes on, the database answers, a process that
starts comes up.

## 11. Proofs

Each proves, for all values of the constants, what a run shows for a few.
Assumptions on constants (`CallsAssumption`, `TodoAssumption`, `ScanAssumption`,
`PostAssumption`, `ServerAssumption`, `SessionAssumption`, `PointerAssumption`,
`TransferAssumption`, `CaptchaAssumption`, `SchemaAssumption`,
`IntakeAssumption`, `CopyAssumption`, `RefsAssumption`, `FormAssumption`,
`InbufAssumption`, `NamesAssumption`) are evaluated by TLC in every run of their
module. Every inductive invariant was checked by TLC before it was proved.

| Module | Theorems | For all |
|---|---|---|
| `CacheEngineProofs` | `Typing`, `Invariance` (`IInv`), `FileOfUserStaysOpen` (`UsedFileStaysOpen`), `NoRestartForClients` (`RestartStaysInside`), `CounterExact` (`RefCountExact`), `RemovalHoldsEntry` (`PlaceholderHoldsEntry`); `FlightInvariance` (`HandlesOK`, `FlightOK`), `OneGenerationAtATime` (`SingleFlight`), `NoTempFileStays` (`NoStrayTempFile`), `SameContent` (`ResumesSameContent`) | finite sets of calls and of removals, which may overlap |
| `PullerTodoProofs` | `Invariance` (`TodoInv`), `Typing`, `Matching` (`Matched`), `Ends` (`WorkerEnds`, `NeverEarly`), `Clean` (`CleanReturn`), `Bounded` (`PendingBounded`), `Recording` (`RecordedIsLargest`) | numbers, lengths of the list, capacities of the queue |
| `PullerScanProofs` | `NumbersReached` (`ScanInv`), `ScanTypes`, `NothingSkipped` (`NothingPassedOver`) | groups, articles, renumberings, sizes of slices, ways to list |
| `PostCommitProofs` | `CommitInvariance` (`CommitInv`), `CommitTypes`, `FilesBeforeRow` (`RowHasFiles`), `CountersExact` (`CountsExact`), `NothingUntracked` (`Tracked`), `LockedCounters` (`OwnCounters`); of references `RefsCorrect` (`RefsTrue`); of forms `FormCorrect` (`FormTrue`); of articles passed on `PassedOnCorrect` (`PassedOnWhole`) | posts that share any files, failures, crashes; boards, posts, messages, lengths of a page; parts, sizes, limits; texts of any length |
| `StoresProofs` | of captchas `KeyInvariant` (`KeyInv`), `KnownToAll` (`KnownEverywhere`), `AcceptedOnce` (`OnceWhileValid`); of the schema `MigrationsRunInOrder` (`RunInOrder`), `VersionFollows` (`VersionTrue`), `TwoStepsAreWrong`; of the listeners `ServerInvariant` (`ServerInv`), `NothingRunsAfterClose` (`AllGone`), `WaitGroupsOnlyShrink` (`NoAddDuringWait`) | processes, keys, captchas, requests; calls, releases, failures; sets of goroutines, listeners, connections |
| `ReadingProofs` | of the group pointer `PointerInvariant` (`PointerInv`), `NumbersStayTrue` (`NumbersTrue`), `NothingMissedOnAWalk` (`WalkComplete`); of texts `TextCorrect` (`TextTrue`), of lists `ListCorrect` (`ListTrue`), of wildmats and policies `PolicyCorrect` (`PolicyTrue`), of the three together `LinesCorrect` (`LinesTrue`) | groups, numbers, articles; texts, lists, wildmats and names of any length, bytes, buffers, widths |
| `NNTPProofs` | of sessions `PrivilegesFounded` (`Entitled`), `StaysInStep` (`InStep`); of transfers `TransferInvariant` (`TransferInv`), `TransferTypes`, `TakenTrueHolds` (`TakenTrue`); of the buffered reader `BytesInOrder` (`InOrder`); of dot-encoded blocks `BlocksDecoded` (`DotTrue`) | accounts, configurations, commands sent ahead, texts; peers, offers, removals, failures; bytes, buffers, lengths, delimiters, blocks |
| `ArticleProofs` | coming in `IntakeInvariant` (`IntakeInv`), `NothingLeft` (`NoTempLeft`), `EatenIsDescribed` (`Described`); going out `CopyInvariant` (`CopyInv`), `CopyDelivers` (`Delivers`) | bodies of any number of parts, failures; articles, sizes of buffers |

*CacheEngine.* None of the properties is inductive alone. `IInv` adds what the
actors know of one another: a call that has not published has left no trace
(`UnpublishedOK`); a counted call is on its way to unregister (`LiveOK`); where
the owner and its goroutine can be at the same time, and what each has done to
the object by then (`OwnerOK` and its companions); and that `n` is the
cardinality of the users as long as the object is in use (`CountOK`). The heart
is the counter. `Users(c)` is a set defined from the program counters; the
lemmas `RegisterCounts` and `UnregisterCounts` say that one call enters or leaves
it exactly when `n` changes, `CountFrame` that nothing else moves it, and
`SoleUser` that `n = 1` means that the one who counts is alone, which is what
both the closing of the file and the decision not to reopen it rest on.

*CacheEngine, until an item is removed.* `FlightOK` is about the states of
`Unremoved`, and no step of an `ObtainItem` leaves or enters them
(`UnremovedStep`). Its heart is `EntryOK`: from the moment a call publishes its
object until its goroutine has ended, the entry is that object. A newcomer cannot
publish over it (the second look), and the last user of an object cannot take a
staged one out, for its publisher is a user and `n` is not 0 (`StagedCounts`,
from `CountOK`). So the goroutine that renames is alone: there is no stable file
before (`StableOK`), `RenameNoClobber` never finds the name taken, the temporary
file has somebody who renames or removes it (`TempOK`), and what is opened again
is what was made (`ContentOK`). `HandlesOK` says what is open when.

*PullerTodo.* `TodoInv` says that the commands without an answer are, in this
order, the article the response loop is reading, the queue, and the article the
caller is about to queue (`InLine`): `Matched` and `PendingBounded` are read off
it. `Ascending` (commands follow the list, none twice) is what makes an answer
settle one article only; with it `Fates` says that an article behind the loop
variable has a fate or is waiting for one, from which `CleanReturn` follows once
nothing is waiting. `Largest` ties `new_maxid` to the fates, with the one article
that the response loop has read and not counted yet as the exception.

*PullerScan.* `NothingPassedOver` is about the table alone; `ScanInv` follows a
number from where it is recorded to where the next scan begins behind it: the
table (`TrackOK`), the rows that a query yields (`RowsOK`), the group that is
looked at (`GroupOK`) and its slices (`SliceOK`, `ListOK`). In each place the
number is `Reached`: everything up to it has been looked at, or it is one of an
earlier numbering of the group, and then it is larger than any of this one
(`FormerOK`), so that the puller starts over. Where a list of a slice lacks an
article, the article is one that came later, and the slice ends below it.

*PostCommit.* `PostOK` says of one post how far the goroutines that move (`TP`)
and link (`PA`) its files have come when its transaction is where it is
(`MovedOK`, `LinkedOK`, `CommitOK`): the transaction commits after both, so a
row has its files (`RowOK`), which is weaker after a crash, as `RowHasFiles` is.
It is a statement of each post alone, because no step of another post takes
anything from it (`ApartOK`); what relates posts is the counters and their locks.
`LocksOK` says that from its INSERT on a transaction holds the counters of its
post and no two hold the same. `CountsExact` and `Tracked` are inductive with
these.

*PostRefs.* What a post refers to depends on the posts that it may refer to and on
nothing else (`Relevance`, `SameFor`). So a transaction that adds or deletes posts
leaves right what does not refer to them, and `RefsInv` says which posts are
still to be looked at while it runs: all that may refer to one that is not done
(`Pending`). The others are right in what the transaction sees (`DoneOK`). A page
is full or the last; behind a full one are the posts with higher numbers, which is
why `NextPage` may take the number of any post on it: the posts below have been
looked at as well. What is written was computed from what is there still
(`PageOK`), unless the post has gone. At a commit what the transaction sees becomes
what is there. For the transactions of other boards that is a change under their
feet, which does nothing to posts whose references stay on their board
(`CommitOthers`), and for the rest nothing is promised once two have overlapped
(`Kept`, `crossed`). `RefsLists` adds that what is written are lists, which is what
`ProcessBackReferences` walks over (`BackIs`). The order of the matches, what is
left of them and the back references are recursive functions. A function that fits
such a definition is given first (`Recursion`, `PutOnce`), for else the definition
could mean anything; then what it computes follows number by number (`Induct`,
from the least number where it would fail).

*FormParser.* What has been taken is what is wanted of the parts before the next
one, and what is left of the limits is what those have left (`TakenOK`). Later parts
take nothing away (`Growing`), so a limit that is passed early is passed by the form
as a whole, which is a `Reason` to refuse it. `Allowed` is what a file may still
have; a file of that size fits (`AllowedIs`), and where nothing is left files have
used up all there is for them (`UsedUp`). The hypothesis, `Sensible`, is about the
limits: at `MaxInt64` a limit and one more is negative, and a parser without a
limit on files works only as long as they are shorter together than that. The
configuration of the web boards limits them to 1 GiB (`piconfig.go:117`).

*PassingOn.* What is eaten is `Guttle` on one part after the other. After each, every
part so far is in a file of its own, or it is the message, which only one part can
be (`BodyOK`, `OneMore`). So what is read for a part when the article is generated is
what the part said, or that without its last newline (`KeptAs`, also by way of
JSON: `ByJSONIs`), and the newline is put back when lines are made of it
(`TrimmedIs`). What is generated of a part is eaten in the same way as the part
(`GoodCopy`, `Alike`): the same text or data, NUL and 8-bit where they were, so the
same encoding is chosen the next time. Therefore the next server keeps the same
(`StoredAgain`). The CR that are taken out, and those that `quotedprintable.Writer`
puts in, are pieces that are joined by the community's `FlattenSeq`, whose
recursion is taken one piece at a time (`FlattenIs`, `SeqInduct`).

*Captcha.* `KeyInv` is the types, `KeysOK`, `MemoryOK` and `MadeOK`. The lock on
the table of keys is held by whoever looks a second time or inserts, so there is
at most one key that is not disabled, every process that runs knows it, and
captchas are made with it: `KnownEverywhere`. `SpentOK` adds where a captcha is
that was accepted and has not expired: among the solved ones, or `Dead`, which is
encrypted with a key that no process has any more, with no request under way (a
memory store that was lost). A purge goes by the clock that a request has read,
which is not ahead of the clock, so what it takes out has expired, whoever is late;
that is why `AcceptedOnce` needs no hypothesis. It cannot say more: after the
expiry a late submission is accepted again (`captcha_twice`).

*SchemaTool.* What a release does by itself and what calls do to each other are
apart. `SchemaInv` is the second: who has written the row of the component
(`holder`) goes by the version that is recorded, which is still not its own. So
what is committed comes after all that was committed before, and once
(`CommitInOrder`): `MigrationsRunInOrder`, for any releases. For that one has to
know what a release runs. The loop of `checkCanUpgrade` is a recursive function;
its value is written down (`ReachIs`, by the least number where the two would
differ), from which follows that `performUpgrade` runs exactly one migration,
the one after the version it starts from (`UpgradeIsOne`). `StepsRight` is the
first: seeding builds the release's version, and an upgrade from a version runs
the steps between it and its own. `VersionFollows` has `StepsRight` of every
release as its hypothesis: then what is committed carries on where the last
commit ended (`CommitBuilds`). `TwoStepsAreWrong` says which releases do not meet
it: those that lead over two migrations or more from some version, which is what
`schema_skips` runs into.

*NNTPServer.* `ServerInv` is the types, `Books` (a WaitGroup
counts the goroutines under way, the list of connections those whose handler has
not struck them off), `Hands` (a connection is held by the goroutine that accepted
it, until its handler has it) and `Shut` (one `Close` at a time, and what is gone
by then). That
nothing is added while a `Close` waits follows: a `Serve` that begins finds
`closing`, and a handler is only added by a `Serve` that is still counted.

*NNTPSession.* `EntitledInv` adds to `Entitled` that a login has begun only where
nobody is logged in, which is why privileges of two accounts are never added up.
`TalkInv` describes the wire. `Shape` is local: behind TAKETHIS and behind a line
there is a line or the dot, and before these there is TAKETHIS or a line. `Match`
is a monotonic function from the commands that have no answer onto the commands
on the wire. Both survive that something is taken off the front (`ShapeLeft`,
`MatchLeft`, `MatchTake`) or put at the end (`MatchSend`, `MatchText`,
`ShapeTakeThis`). `PlaceOK` says that the loop and a reader that is at its end
stand at a command, and any other reader in a text; `InvitedOK` that an article
the client was told to send is alone on the wire, because nothing is sent behind
POST and IHAVE. Reading to the dot then ends before a command (`ReadUpTo`).
`StaysInStep` has the hypothesis `ReadToEnd`: a client that posts, posts what
`HandlePost` reads to its end. That is what the run `session_drain` violates
with two texts that are not, and what `readers` satisfies; articles of IHAVE and
TAKETHIS need no such hypothesis.

*GroupPointer.* `PointerInv` is the types, `Numbered` (a group's numbers are
given in order, and one transaction at a time has some that are not committed),
`Pointed` (what the pointer holds, what has been looked up and what has been said
were once so) and `Walked` (the walk began at or before where it is, and is
complete).
`WalkComplete` needs all of it: an article that is committed late has a number
above every one that was there, so it is not behind the walk.

*Transfer.* `TransferInv` is the types, `TakenTrue`, `Recorded` (what is there was
stored; there are bans only after removals) and `Informed`: the group that a
handler knows is there for ever; the thread it has found is there as it was, or
posts have been removed. It is what makes the row that is inserted several steps
later a good one (`InsertWhole`) and a refusal one of the reasons that
`TakenTrue` names (`RefusedTrue`).

*BufReader.* `Flow` is the first conjunct of `InOrder` with where the buffer lies and
what a queued end means: nothing is below any more. Each way bytes move has a
lemma: from below into the empty buffer or behind what it holds (`RefillFlow`,
`ExtendFlow`), from it to the caller (`TakeFlow`, `FlushFlow`), around it
(`DirectFlow`), and one byte back (`UnreadFlow`). For the last, `LastOK` adds to
`InOrder` that the byte a ReadByte returned is the last that was given. `CallOK`
says that a ReadUntil under way has seen no delimiter and not more than fits, so
what it returns has the delimiter at its end or not at all. All of it rests on a
few facts about sequences: what is cut from the front and put behind something
else leaves the whole as it was (`FirstRest`, `MovedOut`, `MovedIn`), and where the
search for a delimiter stops (`DelimIs`).

*DotReader.* What a block decodes to is said without a computation: `Stays` are the
places whose characters stay, and the one at place i is, in the output, as many
from the beginning as stay up to i (`Staying`, a cardinality). So one more character
moves no other (`StayingGrows`, `DecodesOn`). `DotInv` has `Flow` from above and
`BlockOK`: the characters read so far, but for a CR that waits (`Waiting`), were
decoded; the state says what the last of them are (`StateAt`); no end is among them
(`NoEnd`) until the state is EOF, and then it is the first and was just read
(`EndedAt`); `badnl` tells of the LF so far without CR and of the CR without LF.
`ProcessOK` takes the nine cases of `process` through it, one lemma for each kind of
character that comes. The block ends where its first end does, so what was decoded
of the whole is what the block by itself decodes to (`BlockDecodes`).

*Intake.* `NoTempLeft` is about the end, `IntakeInv` about the way there. Every
file that is there is accounted for (`HeldOK`): it is on one of the two lists, or
it is the copy that was received, or what is being filled, drawn or written by
the second goroutine, or it is stuck; once files are moved, it is one that still is
to be. So the cleanup that ends a failure, which goes by the lists and by what
each function has in its hands, misses nothing. As long as nothing has failed, the
files of the lists are different files and hold what the lists say (`ListsOK`),
and so do those that are not on a list yet (`WorkOK`): a name that is free
(`Fresh`) is nobody's. `LayoutOK` and `TextOK` say which entries the parts eaten
so far have, `PipeOK` that the second goroutine has written what the first has
handed it, one piece apart if the pipe is full; at the end it is the whole, which
is what `Described` says of a message inside. `PhaseOK` says where the two can be
at the same time. The theorems have the hypothesis that there are infinitely many
names: `makeRndFile` draws a random name and draws again if it is taken, so it never
runs out of them, and a run's seven names are enough for what a run can make.

*TextLines.* `TextInv` says of a text that is under way what it will be at the end:
what has been read is what has come so far without CR (`ReadSoFar`), and the state
is the one its last byte leaves it in (`Ended`), so an LF is put in at the end
exactly if one lacks, also if the buffer is full then; what has been written,
together with what is still being written, is what has been read
(`WrittenSoFar`), with an LF before each byte whose place follows a multiple of the
width. The hypothesis `TextBytes` is that CR and LF are bytes.

*Listing.* The text that has been read is a beginning of the whole (`Consumed`) and
ends with a line, in a line, or in a field of one (`AtField`); what is listed is
what the lines so far say (`ListReading`), and of the line that is being read its
fields so far are those of the whole (`OverOK`). The reading of a line ends in one of
four ways: with the line, within it (too long, or skipped), at a cut, or where the
list is over (`EndWhole`, `EndWithin`, `EndBroken`, `EndAll`); what is read away then
is the rest of that line and nothing of its neighbour. The hypothesis `ListsOf` says what a
list is: bytes, numbers, one of the ways to list, and a text that ends after a line
unless it is cut.

*GroupPolicy.* A compiled pattern is related to what the text between two commas
means: `CompileWildmat` goes through it character by character, `PartsAt` cuts it
into pieces, and an induction over the length relates the two. `Matches` keeps the
set of beginnings of the name that have been matched, and again an induction says
that these are the right ones, for patterns with any number of `*`. Then the last
pattern that matches decides on both sides. For policies there is more: "ctl" is
taken out and put at the end, and the last piece, `!*._*`, refuses exactly the names
that have `_` behind a dot (`DotUnder`). `NamesAssumption` says that
`,` and `!` are no characters of names, that "ctl" is a name, and that no
reserved component has a dot.

*CacheCopy.* `Delivers` is proved as a refinement: `CopyInvariant` first, then that
each step sends a longer piece of what was asked for, or nothing (`SendStep`).
What was sent is the first `written` positions (`SentOK`); the reader is there
when it begins to read, also after the resume, and for HEAD the scanner is in the
state that the last position sent would put it in, which is how the end of the
head is found across buffers and across the resume (`EndsAre`, `ChosenIs`). "ok"
is said at the end of the file or of the head: an end of file comes only with all
of the article in the file (`PublishedOK`). The hypothesis is that the copiers are
those of ARTICLE and HEAD; with the one of BODY `SentOK` breaks at the resume,
which is what `copy_body` shows.

In each module there is a lemma for each group of actions, and under it one step
for each action that can disturb a conjunct.

## 12. Only model-checked

* Liveness: `PromptObtainsReturn`, `CallReturns`, `Returns`, `CatchesUp`, `CallsReturn`,
  `CloseReturns`, `ArticleEnds`. The proof system has no rules for fairness.
* `HeadsTrue` and `PartsTrue`, about texts (section 8). Their
  references are recursive functions and folds over the input, each with an
  invariant of its own that says how far the input has been read; the induction
  over numbers that such a proof takes is at hand (`Induct`), the one over data of
  the library is not, because its theorems take an operator as a parameter.

## 13. Not modelled

* *Moderation* but for deletions: `pimod/modctl.go:43` uses variables that its
  function no longer has; the package does not compile.
* *Moderation jobs* (`piold/jobmgr.go`): the loop of the processor is a stub that
  never calls `modset_processJobOnce`; the tables of reference jobs have no caller
  in Go.
* *Triggers* but for those of files, numbers and references. The SQL is in the
  middle of a change of schema and is refused when it runs: `post_newthread_ubp`
  selects 12 values for 11 columns, `threads.t_order` is never set though it must
  be, `bposts_ch_dpriv` assigns to `gp.mod_dpriv`, `gc_gposts` inserts without
  `msgid`. In `banlist_after_del` the join on `b_name` compares NULL with NULL for
  global bans, which is never true: remaining bans are not counted.
* *NNTP pusher* (`client_pusher.go`): stubs; the function with a body has no caller.
* *NNTP post lock manager*: constants and a note.
* *Web reading*, *renderer and routers*: queries that only read, templates, URLs.
* *Thumbnails* beyond the order of programs and files: pictures.
* *Mail* beyond heads, parts and forms; hashes, dates, addresses, encoded words:
  conversions of one text that a table of tests says more about.
* *`app/store/psqlib`*: a second, unfinished copy of psqlib that no program links.
* *Programs and demos*: wiring.
* Systems other than unix; several processes on one cache directory, which the
  engine's comments call unsupported.
