# FitNesse: a TLA+ verification project

FitNesse is a wiki whose pages are tests. A request to its HTTP server runs the
pages of a suite by *test systems*, processes that interpret the tables of the
pages, and stores the edited pages in files; pages are edited in the browser, as
wiki text or as rich text. The modules here model the parts of it in which threads,
processes and requests meet (the run of a suite, the Slim conversation with a
system under test, the HTTP server with its thread pool, the editing of a page)
and the browser's editor: its conversions between wiki text and rich text, its
tools for tables, and what its user may lose. TLC checks them on small instances;
TLAPS proves what matters most of the run, the conversation, the server, the saved
contents, the editing page, its tables and its rich text for every value of their
constants.

Paths are relative to the repository; `F/` stands for `src/fitnesse/`.

## 1. Inventory

### Test runner (`F/testrunner`, `F/responders/run`)

*State*: the flag `isStopped`, the field `testSystem`, the counter
`testsInProgressCount`, the formatters; the tracker's map of running tests.
*Operations*: `executeTestPages` (start a test system per group, give it its pages,
wait for their results, say bye), `stop`, the listener's `testComplete` and
`testSystemStopped`; `addStartedProcess`, `removeEndedProcess`, `stopProcess`.
*Interactions*: calls test systems, which call back on the caller's thread (Slim) or
on a thread of their own (FIT); a StopTestResponder calls `stop` on its own thread.
*Hard*: `stop` takes no lock, the counter is volatile and incremented by two
threads, exceptions leave the loop at many places.
*Correct when*: one test system runs at a time and is released; a stop skips what
has not begun and kills what runs; no result is lost or late; a run ends.

### Slim test system and Slim server (`F/testsystems/slim`, `F/slim`)

*State*: client: the flags `stopTestCalled` and `stopSuiteCalled`, the connection and
the process; server: `stopRequested`, the fixture thread's queue, the results.
*Operations*: `runTests` and `processTable`, `invokeAndGetResponse`, `bye`, `kill`;
`ListExecutor.execute`, `StatementExecutor.call`, `StatementTimeoutExecutor`.
*Interactions*: one message each way over a socket or a pipe.
*Hard*: the flags outlive tables and pages; with a statement time limit a call goes
on after the connection thread has given it up; the process can die at any moment.
*Correct when*: after an exception that stops a test or the suite just the tear down
is executed; instructions take effect in order; no fixture blocks a session that
has a time limit.

### FIT test system (`F/testsystems/fit`, `src/fit`)

*State*: `sent`, `received`, `isDoneSending`, the queue of pages, the socket.
*Operations*: `start` (listen, launch, wait), `send`, `done`, `join`, `kill`; a listener
thread, a time limit thread and a thread that watches for an early death.
*Hard*: counters and queue are shared without a lock; three threads can report
the end. *Correct when*: every page sent is answered or the end is reported once,
and `start` and `join` return. They do not: `start` constructs a `SocketService`, whose
constructor waits for its own accept loop, before it launches the process.

### HTTP server (`F/FitNesse.java`, `F/FitNesseServer.java`, `F/FitNesseExpediter.java`, `F/socketservice`, `F/http`)

*State*: `theService`, the thread pool and its queue; the service's flags `running`
and `everRan`; a request's progress. *Operations*: accept, serve, parse, respond,
close, shut down. *Hard*: an expediter submits the parsing to the pool it runs in and
waits for it; the constructor of SocketService does not return while it serves;
clients are slow or go away. *Correct when*: nothing accepted is lost, no thread is kept
for ever, a shutdown stops the server.

### Wiki pages, their store, and the responders that change them (`F/wiki`, `F/wiki/fs`, `F/responders/editing`, `F/responders/versions`, `F/responders/refactoring`)

*State*: files, zip files of old versions, the static maps of SaveRecorder, the
RecentChanges page. *Operations*: edit form, save, merge, roll back, properties, new
child, move, rename, delete, search and replace. *Hard*: every request has page objects
of its own and there is no lock below them; a commit is a sequence of file
operations; the maps are lost in a restart. *Correct when*: what was saved is kept for
the configured days, nobody replaces what he has not seen, a move leaves no
reference behind.

### The editing page of the browser (`F/resources/templates/editPage.vm`, `F/resources/wysiwyg`, `F/resources/javascript`)

*State*: the text in CodeMirror, the document in the rich text editor, which of them
is shown, `savedWysiwygHTML`, the flags `performingSubmit` and `originalFieldValues`,
the options of a conversion, requests for templates under way. *Operations*: switch
between the editors, submit, leave or stay, insert a template, format, translate to
and from a spreadsheet, insert and delete cells, rows and columns; the conversions
`wikitextToFragment` and `domToWikitext`. *Interactions*: two listeners of the same
submit event, the browser's question before leaving, answers of the server that come
at any time. *Hard*: a conversion may throw in any of these; the conversions are not
inverses, and a page goes through them on every switch; the meaning of a text is that
of the wiki's parser, which neither tool uses. *Correct when*: what is shown is what is
saved; nobody leaves changes behind without being asked; a tool changes the form of a
text and not its tables, words, lines or places.

### The other components

| component | what it keeps and does | correct when |
|---|---|---|
| Slim tables (`F/testsystems/slim/tables`) | turn a table into instructions and expectations; scenarios call tables | queries match rows one to one; scenarios end |
| FIT fixtures (`src/fit`) | interpret tables inside the system under test | counts add up |
| Reporting, test history (`F/reporting`) | write and purge result files | a purge spares what is being written |
| Wiki text parser (`F/wikitext`) | symbols and rules, no state between calls | its grammar |
| Search, authentication, import, plugins, updates | see PROJECT.json | |
| Entry points, other HTML and scripts, vendored scripts, Vert.x experiment | see PROJECT.json | |

PROJECT.json lists every component with the files it stands for, what is modelled of
it, and the hazards at their lines with the properties that cover them.

## 2. Plan

In the order of their weight for a user of FitNesse; 1 to 9 are done.

1. `MultipleTestsRunner`, `MultipleTestsRunnerProofs`: the run and its stop.
2. `SuiteExecution`, the abstract promise about exceptions that stop a test or a
   suite; `SlimSession`, which implements it; `SlimSessionProofs`.
3. `SocketService`, the accept loop; `FitNesseServer`, which composes it with the
   pool and the expediters; `FitNesseServerProofs`.
4. `PageEditing`: edit, save, merge, versions, rollback, restart.
5. `EditingSession`, what an author expects of an editor; `WysiwygEditor`, the editing
   page, which implements it but for named mishaps; `WysiwygEditorProofs`.
6. `WikiTables`, the meaning of a page's tables; `WikiFormatter`,
   `SpreadsheetTranslator` and `RichTables`, the tools that must not change it;
   `TableEditing`, which composes them.
7. `RichText` and `RichTextEditing`: the conversions of everything else.
8. `PageEditingProofs`: `NothingSavedIsLost` and `SeesWhatItReplaces` for requests
   that do not overlap, from an invariant that dates every version.
9. `Folding`, `TableEditingProofs`: the tools for tables, for texts of any length;
   every property of `table_editing` is proved.  `RichTextProofs`: the documents of the
   rich text editor are whole and show every word, for lines of any tokens.
10. `FitSession`: the FIT client and its three threads. An abstract `TestSystem`
   (started, pages answered in order, stopped once) that both `SlimSession` and
   `FitSession` implement, and that `MultipleTestsRunner` relies on.
11. `PageTree`: several pages with FileSystemPage's two files, moves, renames and
    deletions as sequences of file operations that fail or crash in the middle, and
    RecentChanges as a page that every request reads and writes.
12. `TestHistory`: result files and their purge while runs write them.
13. Nested text and hash tables in `RichText` and `RichTables`; pasting into rich text. What a
    second look keeps, of any text that is tidy.
14. `SlimService`: ports, the daemon, the choice of a port by two runs.

## 3. Modules

| module | models | source |
|---|---|---|
| `MultipleTestsRunner` | one run, its listeners and stop requests | `MultipleTestsRunner.java`, `RunningTestingTracker.java`, `SuiteResponder.java`, the test systems as the runner meets them |
| `SuiteExecution` | the promise about stop exceptions, abstract | |
| `SlimSession` | client, connection and server of a Slim session | `SlimTestSystem`, `HtmlSlimTestSystem`, `SlimCommandRunningClient`, `SlimServer`, `ListExecutor`, `StatementExecutor`, `StatementTimeoutExecutor` |
| `SocketService` | accept loop and `close` | `SocketService.java` |
| `FitNesseServer` | the server; EXTENDS `SocketService` | `FitNesse`, `FitNesseServer`, `FitNesseExpediter`, `ShutdownResponder` |
| `PageEditing` | editing one page, and its store | `EditResponder`, `SaveResponder`, `MergeResponder`, `SaveRecorder`, `RollbackResponder`, `ZipFileVersionsController`, `FileUtil` |
| `EditingSession` | what an author expects of an editor, abstract | |
| `WysiwygEditor` | the editing page: two editors, conversions, submit, leaving | `editPage.vm`, `wysiwyg.js`, `TemplateInserter.js` |
| `WikiTables` | the tables of a text, as the wiki's parser reads them | `Table.java` |
| `WikiFormatter` | the formatter; EXTENDS `WikiTables` | `WikiFormatter.js` |
| `SpreadsheetTranslator` | tables to and from a spreadsheet; EXTENDS `WikiTables` | `SpreadsheetTranslator.js`, `wysiwyg.js` |
| `RichTables` | tables in rich text; EXTENDS `WikiTables` | `wikitext.js`, `wysiwyg.js` |
| `TableEditing` | an author who uses these three one after the other | `wysiwyg.js` |
| `RichText` | the two conversions, tables apart | `wikitext.js` |
| `RichTextEditing` | an author who goes to rich text and back | `wysiwyg.js` |
| `MC...` | instances for TLC: values of the constants, symmetry | |
| `Folding` | what a fold keeps, for the proofs about the tools | |
| `...Proofs` | theorems and lemmas | |

The map in PROJECT.json gives the lines of every definition. Operators named
`X_Something` before an operator `X` are `X` with a plausible bug; no specification
uses them. They are there to show that the properties notice.

### MultipleTestsRunner

The runner's thread has a control state (`pc`) per shared variable it reads or
writes; `cur` is the loop over `pagesByTestSystem.identities()`, `field` the field
`testSystem`, `count` the volatile counter, whose `++` is `NextPage` (read) and
`Increment` (write) and whose `--` is `ReportResult` and `Decrement` on a listener's
thread. `stop()` is three steps (`ReadIsStopped`, `SetIsStopped`, `KillTestSystem`),
preceded by the tracker's look-up. A failing test system kills itself and announces
`testSystemStopped`, which stops the run: `FailsAndStops`, in every action where a
Slim or FIT exception does that; the actions named `...Throws` are the exceptions
nobody cleans up after (`untidy`). `stopAt` and `stopPc` are history variables: where
the run was when it was stopped.

A group in `Async` has a test system that reports from a thread of its own: FIT's, or a
plug-in's. FIT's `start()`, after `Listen`, is inside the constructor of `SocketService`,
which returns (`Launch`) only if `accept` fails; the process it then launches waits for
somebody to accept its connection (`await`, `AwaitsConnection`). A plug-in's is external,
modelled as the runner uses `FitTestSystem`, but with a `start()` that returns or throws:
it is its results that may come late.

Nothing in FitNesse interrupts the runner's
thread, so interrupts are not modelled. `testSystem` is a plain field; a stale read
of it is a read made earlier, which is a behaviour of the model.

### SlimSession and SuiteExecution

A page has `K` tables, a table is a batch of `Size` instructions, and its answer
either stops the suite, the test, or nothing. The client's flags and `Sends` are
`processTable`; `EvaluateAndAssign` is an expectation that stores a symbol, a batch of
its own. In the server the connection's thread goes through `listen`, `execute`,
`waiting`, `finalize`; the fixture thread returns from the head of `calls` in
`CallReturns`, whether or not anybody still waits. `Dies` is a crash or a kill.

`SuiteExecution` says what the user guide says of StopTest and StopSuite, over the
outcomes of the tables and nothing else. The refinement maps `outcome` to itself and
the place to the table after the current one once it is recorded (`Recorded`), since
the outcome is known before the assignments that follow it have been sent.

### SocketService and FitNesseServer

`SocketService` has the constructor's thread (which joins the one it starts), the
service thread, and the callers of `close`. `FitNesseServer` makes `Serve` hand the
connection to the pool. `ThreadPoolExecutor` is external and modelled from how it is
constructed and used: core threads, a bounded queue, further threads, rejection, and a
`shutdown` that still runs what is queued. `req[c]` is how far the expediter of
connection `c` is, `parse[c]` the task it waits for. A rejected connection and one
whose answer broke off (`Breaks`) stay open: `abandoned`. `StopLocks` to
`StopShutsDown` are the synchronized `FitNesse.stop`.

### PageEditing

A request is a sequence of the steps that read or write what requests share: the
page's file, the zip files, SaveRecorder's maps. A content is a number, and every
submitted one is new. A version is named by a time (the file's when the data was
loaded) and a counter; `archived` is the time of its zip entry, which is what a
rollback takes for the last modification. `Truncate` and `Write` are the two halves
of `FileUtil.createFile`. One clock stands for milliseconds and seconds. A zip torn
by a crash holds nothing and is left out; RecentChanges is another page. `Apart`,
`Rollbacks` and `Restarts` say what the environment does: with `Apart`, requests
neither overlap nor arrive in the same instant. `written`, `epoch` and `misfiled` are
history: when a content was written last, what a restart has made the recorder
forget, and what a rollback has filed under a date that is not its own.

### EditingSession and WysiwygEditor

A text is the set of the author's changes in it, and the form of its line breaks; a
document of the rich text editor is the same. Changes in `Unreadable` and `Unwritable`
make a conversion throw, as markup that closes what it has not opened does, or a
pasted `<tt>` of an unknown class. Each handler is an action, with its outcomes when a
conversion throws: `Open` is the constructor, whose first conversion is outside the
`try`; `SubmitStopped` is a submit that the editor stops and the page's own listener
notes all the same; `BeforeUnload` is the handler that runs when the author is about
to leave, and converts the document, whatever the author then answers. `Init` and
`Open` start from a page with any changes. `mishaps` is history: a return to rich text
after the question (`stayed`), an answer with a template while rich text is shown
(`late template`), a stopped submit (`stopped`). The author makes changes and takes them
back, in either editor, and may type line breaks anew; `tabled` is history too: rich text
has shown a table since the page was opened, which `escapeNewLines` may outlive. The
refinement maps the page's content to itself, and the content of the session to what the
editor shows.

### WikiTables and the tools for tables

A line is a mark, cells and a suffix, or prose; a cell is a few characters.
`TablesOf` is what `Table.parse` makes of the lines, and so the meaning of a page that
the tools share: the parser sees marks and trimmed cells (`Parsed`), and reads line by
line (`ReadLine`), a row going on with the table above it if it starts with the bare
bar. `WikiFormatter` has the algorithm as it is, widths and spans included,
with the formatter's way to keep a table's `!` in its first cell while it computes.
`SpreadsheetTranslator` has both buttons, `RichTables` the part of the two conversions
that is about tables, `spanTableColumns` and the six buttons. It reads texts whose cells
hold no markup of their own (`WithoutMarkup`): a nested table, `!(`, is outside the model,
and so is a look at a text that has one. `TableEditing` types
lines or pastes rows, and then uses tools in any order.

### RichText and RichTextEditing

A line is a sequence of tokens, what the rules of `wikitext.js` match and words between
them; a document is the sequence of what a walk through it meets. `RichText` follows
the variables of `wikitextToFragment` (`holder` as the path to it, `listDepth`, the
decorations of a line, `currentHeader`) and of `domToWikitext` token by token: white
space is left out, but for the space that keeps two words apart. A statement that
dereferences null sets `thrown`. `RichTextEditing` types lines of a given set, then
looks at the rich text and goes back.

## 4. Runs

| run | question | instance | states |
|---|---|---|---|
| `runner` | safety of a run under stop requests; does it end, does a stop free it | 2 groups (the first asynchronous, FIT's or a plug-in's, 2 pages), 2 stop requests | 322,292 |
| `runner_stop_race` | does an answered stop leave no process | 1 group, 1 stop request | violated |
| `slim_stops` | refinement of SuiteExecution, server's stop flag | 3 pages of 2 tables of 2 instructions, no time limit | 101,694 |
| `slim_timeouts` | order of calls, end of the session | 2 pages of 2 tables of 2 instructions, time limit | 29,378 |
| `slim_late_stop` | the stop flag with a time limit | 2 pages of 2 tables of 1 instruction | violated |
| `server_requests` | pool, expediters and shutdown | 3 connections (1 slow, 2 shutdowns), 1 core thread of 2, queue of 1 | 214,942 |
| `server_shutdown` | does a shutdown stop the server | 2 connections | violated |
| `edit_keeps` | are saved contents kept and seen | 3 editors, 3 saves, 6 instants, 2 days, rollbacks, restarts | 853,493 |
| `edit_overlap` | are saved contents kept when saves overlap | 2 editors, 2 saves | violated |
| `rich_editor` | does the editing page implement a session | 5 changes: plain, a table, a template, an unreadable and an unwritable one | 4,035,952 |
| `table_editing` | do the tools for tables keep them | texts of 3 lines of 12 kinds, sheets of 3 rows of 10 kinds, 3 tools, 1 edit | 226,575 |
| `rich_text` | do the conversions keep words, lines and places | texts of 4 lines of 17 kinds, 2 looks | 416,361 |

**What the passing runs show.** `runner`: no two test systems at once, nothing
starts after a stop, an unstopped run releases its processes and reports every
page, a stop that did not come between the look at the flag and the launch leaves
no process, no result after the formatters are closed; a run ends unless a fixture
or FIT's `start()` hangs, or the two updates of the counter collided, for which it takes an
asynchronous system; a stop frees a run whose fixture hangs.
`slim_stops`: the two client flags implement the documented promise whatever the
server answers and whenever it dies, and the server leaves an instruction out only
after a stop exception of its own batch. `slim_timeouts`: calls that were given up
keep their order, and the session ends though no fixture ever returns.
`server_requests`: whatever a shutdown does, what the pool took is queued, worked on
or done; expediters do not wait on each other for ever; a slow client's thread is
freed; two shutdowns do not trip over each other. `edit_keeps`: a saved content is in
the file or in a version for its days, also after a crash between emptying and
writing the file, and no save replaces a saved content that its author has not seen.
`rich_editor`: what is saved is what is shown, and an author is asked before leaving.
`table_editing`: each tool gives a page whose tables are those of before, marks
included, if something separates them; rows line up and formatting again changes
nothing; nothing that is pasted is dropped; rows fill the table after every edit, and
inserting moves no text. `rich_text`: no word of any text is hidden, but behind a rule; lines stay lines;
after a round trip each word is where it was, inside the same lists, headers and
sections and with the same decorations; and the second round trip changes nothing.

**What the violations show.** Each contradicts a line of the documentation quoted in
PROJECT.json.

- `runner_stop_race`: `stop()` between line 73 and the launch finds no process; the
  launched one is neither killed nor said bye to, since `finally` looks at the flag.
- `slim_late_stop`: a call throws StopTest after its time limit, while a later batch
  executes; the flag it sets leaves out instructions of that batch.
- `server_shutdown`: `theService` is assigned when the service has ended, so `stop()`
  finds null, shuts down the pool, and the accept loop goes on.
- `edit_overlap`: a save zips the file another save has just emptied; the old
  content is then in no version and no file.

**What the properties had to except.** These were found as counterexamples; a property
names each of them, and fails without the exception.

- A rollback files the content it replaces under the date of the restored version,
  and the content may expire at once (`misfiled` in `NothingSavedIsLost`). It is not
  recorded with SaveRecorder, so that any old form may replace what it brought back
  (`SeesWhatItReplaces`).
- In the editing page (`KeepsTheContent`, `LeavingAsks`): if the first conversion throws,
  no editor is shown and nobody listens to the form. An author who is about to leave
  rich text and stays has `savedWysiwygHTML` cleared; a submit then posts the text of
  the time of the question. A template that arrives while rich text is shown goes into
  the hidden text. After a submit that was stopped, leaving asks nothing.
- `start()` of FIT waits in the constructor of `SocketService` for the accept loop to end,
  and has not launched the process that would connect: nothing need ever end such a run
  (`AwaitsConnection` in `RunEnds`), nor does a stop (`Starting` in `StopFreesTheRun`).
  Two colliding updates of the counter can keep a run waiting too (`Miscounted`).
- The cells of a table are converted with `$.extend(options, ...)`, which changes the
  editor's options: from then on every line break is written as the literal `!-` `-!`,
  in paragraphs too, and in a page whose table is gone (`tabled` in
  `LiteralBreaksComeFromATable`).
- A cell that opens a nested table (`WithoutMarkup` in `LookingChangesNothing`): if nothing
  closes it, it is text for the wiki and a table in rich text, and a look changes it.
- A bare bar right above a row with "!" loses its line break in the formatter: two lines
  become one (`Len(done) = Len(text)` in `RowsLineUp`). Cells that
  open a nested table are not padded, so that their rows are as long as they like
  (`HoldsNested`).
- Two tables without a line between them become one in the formatter and in rich text
  (`TablesApart`). If the lower one has a "!", the formatter puts it in front of the
  upper one, where it replaces a letter; what is left of the cell may then look like one
  that opens a nested table, and is padded no more the next time (`FormatsOnce`).
- A row that no bar ends is none for the wiki's parser; the rich text editor makes a cell
  of what follows the last bar (`WholeRows`).
- A line that goes on with a paragraph and begins with markup or the name of a page
  joins the line above it (`GoesOnWithMarkup`), and an image right below a list goes
  into the list's last item (`ImageBelowList`): `handleImage` does not end the list.
- A collapsible section in the item of a list does not come back the way it went, and
  some texts with one cannot be read at all (`HasSectionInItem`).
- A line that begins with "----" is a rule: what follows it on the line is dropped
  (`HidesWords`).
- A decoration that is not closed on its line goes on over the line break, and moves
  from look to look (`HasDecoratedBreak`).

**Bounds.** Two groups show all that a group does to the next, and a group of two
pages lets results overlap sending; two stop requests are the least for which one
finds the flag raised by the other. Three pages are a page, a page after it and a
suite tear down; two tables a table and its tear down; two instructions one that is
executed and one that is left out. A pool of one core thread, one more and a queue of
one has every outcome of a submission with three connections, and its expediters do
wait for tasks behind them. Three editors are the writer, the one who is refused and
one who merges; six instants let a version expire (two days) while another is made.
`MaxTime`, `MaxSaves` and `MaxForms` bound the clock, the saves and the forms of
`PageEditing`. Three or four lines are a block, what is in it or below it, and what
follows; each kind of line that a rule knows is among the lines, with overlapping
decorations and blocks that are not closed. Three tools are rich text, the way back, and
what uses the text then. `MaxLines`, `MaxTools`, `MaxEdits` and `MaxLooks`
bound the lines typed, the tools used, the edits and the looks; no other module needs a
bound. Deadlock is not checked where a run, a session or a server's clients end, or
where a bound stops the clock or the author; it is checked of the editing page.

**Fairness.** Threads that can go on do: the runner, a listener that has begun to
report, a stop request that was made, the threads of the server and of the pool.
Nobody is obliged to ask for a stop, to answer a page (a fixture may hang), to finish
sending a request, or to connect. Nor does anything end the accept loop that FIT's
`start()` waits for, or let its process connect (`AwaitsConnection`). A time limit does
pass (`Future.get` with a time
limit, `getWithTimeout`). `Fairness` of the server is weak fairness per thread, as the
operating system gives. The modules of the editor state none: an author need not do
anything.

## 5. Proofs

All are for every value of the constants, from the assumptions the modules name:
finite sets of stop requests and connections, natural numbers of groups, pages,
tables and instructions, a pool with at least one core thread and room in its queue,
any numbers for the bounds, and any lines and rows of cells made of characters.

**`MultipleTestsRunnerProofs`** proves the seven safety properties of `runner`.
The invariant `IInv` is a conjunction of parts, each preserved with the help of those
before it: `CursorInv` (inside the loop's body there is a current group),
`CreatedInv` (test systems are created in the order of the groups, and the field holds
the last one), `StoppedInv` (a stopped run stays at the group where the stop met it,
and nothing later was created), `ReleasedInv` (what still runs of a group the runner has
left is untidy, or the run was stopped at it or before), `StopperInv` (an answered stop
request that found the flag down has killed what ran), `ResultsInv` (how far the pages
of each group have come) and `OpenInv` (the formatters are closed after the loop). The properties are
not inductive by themselves: that a stop reaches the process, for instance, needs
that the field is the current group's whenever something is alive, which is
`CreatedInv` and `ReleasedInv` together.

**`SlimSessionProofs`** proves that `SlimSession` implements `SuiteExecution`
(`KeepsItsPromise`). `ClientInv` says what the flags are: `stopTestCalled`, that a table
of this page has stopped the test; `stopSuiteCalled`, that any table so far has
stopped the suite; and that the tables from the current one on have no outcome. From
it every step is a `Take`, a `Break` or a stutter. `SessionTypeCorrect` needs `Lockstep`:
the connection carries one message at a time, which bounds the results of a batch.
`PlainServerSkipsOnlyAfterStop` is the server's property without a time limit, from
`FlagIsOfTheBatch`: the flag is up only if a result of this batch is a stop. It is what
fails with a time limit. The calls return in
order (`CallsReturnInOrder`) because a batch sends them one after the other: the last
call that returned and the calls the fixture thread still has are in order, and all of
them before the next instruction the server can submit (`Ordered`, with `Ahead` for
that instruction), whether or not anybody still waits. `Idle` says that a server that
listens has no results left, and a dead one no calls.

**`FitNesseServerProofs`** proves `NothingIsLost`, `StopFindsTheService` and the types.
`PoolInv` counts the pool's threads (with the library's theorems on finite sets) and
says that a queue with tasks has a thread; `RequestInv` says where the tasks of each
connection are; `StopInv`, that one thread at a time is inside `stop()`. The invariants
are needed together: a task leaves the queue only onto a thread, and a thread ends only
when idle. `ServerUsesService` shows that the server's steps are steps of
`SocketService` or leave it alone, so that what holds of the service holds in the
server.

**`WysiwygEditorProofs`** proves `KeepsTheContent`, a refinement of `EditingSession`
step by step, `LeavingAsks` and `LiteralBreaksComeFromATable`. The invariant `IInv` adds to
the types that, while a ready editor shows rich text and nothing but a stopped submit
has gone wrong, what it compares the document with has what CodeMirror has
(`LoadedIsTheArea`), so that the text of an unmodified document may be posted as it is;
that an open page takes an attempt to leave for a submit only after a stopped one
(`SubmitsOnly`); and that a page without an editor is not ready (`HiddenIsNotReady`).
`BreaksInv` says that, until a table has been shown, the option is down and no literal line
break is in the text area or the document, of a page that had none; it needs that the
document, shown or not, has no table, since `domToWikitext` sets the option from it.

**`PageEditingProofs`** proves `NothingSavedIsLost` and `SeesWhatItReplaces` for requests
that do not overlap (`Apart`), with any number of editors, days, rollbacks and restarts.
`SoleInv` says that one request at a time is between its first and its last step, that
no two forms have the same ticket, and that the other forms are from before the request.
`CommitInv` follows a save: its version has the date of the content that is in the file,
and before the file is emptied that content is kept. With it `StoreInv` holds, of which
`NothingSavedIsLost` is a part: every content that was written is in the file, in a
version, too old to be kept, or filed under a date that is not its own. `RecordInv` says
that a save that commits is the last one recorded; with it `SeenInv` holds: who saves has
seen what is in the file, or will be asked to merge (`Overtaken`), unless a restart has
made the recorder forget.

**`TableEditingProofs`** proves all nine properties of `table_editing`, of texts, sheets
and documents of any length: first what the tools make of any text or table, then what
that means for the author. The tools go through a text by `FoldLeft`. `Folding` proves
what is needed of it, with the operator that is folded and what it preserves as
constants of the module; every fold of the tools has an INSTANCE of its own that gives
them. The formatter's proof says what is true after each column span that was adjusted
(`WidthsFit`: the widths hold every cell and every last cell that spans so many
columns), and after each line (`RowFits`). `ToolsKeepTypes` says that each tool makes a
text, a sheet or a document out of one; with `AllWide`, that each table on the screen
has its spans, it is the inductive invariant. `InsertingKeepsTexts` compares the texts
of a document before and after a step: an empty cell or row adds one member to the
sequence that is folded (`HasOneMore`), which leaves the result alone (`OneStepMore`),
and the spans say nothing about texts.

- *Formatting keeps separate tables.* What a cell holds is told by the places of its
  characters: `Moved(a, b, d)` says that the solid ones of `a` are those of `b`, `d`
  places further. Trimming, padding and the "!" that goes into the first cell and out of
  it just move them, and cells that differ by a move are the same when trimmed. With
  `TablesApart`, the rows formatted together are `OneTable`, whose mark is the first
  row's, where the formatter puts it. `KeptLines` says it of the lines after each step
  of the fold; then the parser reads the same tables (`TextsKeepTheirTables`).
- *A text is formatted once.* A formatted row, split again, has the columns it was
  made of (`SplitsAsBefore`), so a formatted table has the same widths, and is formatted
  to itself (`TableFormattedTwice`). The second fold is followed state by state by the
  first: before each line it has finished the same lines, and holds the formatted form
  of the rows the first one held (`Remade`, `MakesAgain`; `MadeInPieces` says that the
  lines of a table are finished together).
- *A spreadsheet gives back its tables.* `FitForSpreadsheet` makes a text `Carriable`:
  each row of the sheet that was a row of a table gives its mark and cells back
  (`RowIsCarried`), each prose line is prose again (`ProseIsCarried`), since none looks
  like the start of a table (`ProseStartsNothing`). So the lines that come back have the
  marks and the cells of the text, one by one (`Matches`), and the tables follow from the
  lines.
- *What is shown is written, and read again.* Of the fold over the blocks (`Writing`):
  what has been written has the tables of the blocks so far, is `WellFormed` (rows whole,
  tables apart) and `Closed` (it ends with a line that is no row, so that the next table
  starts one). Of the fold over the lines (`Looking`): the document `Shows` the tables
  read so far, and a table is open just below a row (`Alike`); a table's spans change
  neither texts nor marks. A look and the way back is the one after the other. Both
  read rows as the parser does if they are whole.

The assumptions are that lines are made of cells of characters (`LinesAssumption`), that
a pasted row has a cell (`SheetRowsAssumption`) and that a cell with a qualified name is
not empty (`QualifiedAssumption`: the expression in `SpreadsheetTranslator.js` asks for
a letter).

**`RichTextProofs`** proves of any lines of tokens, markup that overlaps, is not closed or
closes what is not open included, that the documents are whole (`TypeCorrect`: each
element that is begun is ended, in its order) and that a look shows the words of the
text, in their order (`WordsAreShown`). The reader keeps `holder`, a place in the document,
by its ancestors; `Reader` says that these are the elements open in what has been
appended, that the rules which wait for the end of a section are whole and have no words,
and that each decoration that is on was opened. `Shows(s, words)` adds that the words of
the document are those taken so far. Each handler keeps both: it appends the word of its
token, or none, and where it ends blocks or decorations it ends the last ancestors one by
one (`HolderIsShows`; `CloseDecorationShows` ends some above a decoration and opens them
again). The loops of `closeToFragment` and `handleList` end as many blocks as there are
ancestors at most, and are folds over these. At the end of the text no ancestor is left,
so no element is open. A line that `HidesWords` is excepted. The writer is shown to make
lines of tokens of any document (`TextWritten`), which the reader meets at the next look.
The assumption is that lines are made of tokens (`LinesAssumption`).

**Model-checked only.** All liveness properties: `RunEnds` and `StopFreesTheRun` of
the runner, `SessionEnds` of a Slim session, `ExpeditersFinish` and `ParserIsFreed` of the
server. Of `RichTextEditing`, what relates a reading to what was written before it:
`LinesStayApart`, `SeesTheSameAgain` and `LooksSettle` compare two conversions that are
not inverses token by token, and hold of the kinds of lines that are typed in the run;
for any sequence of tokens `Tidy` would have to name more of what goes wrong.
`ReadsWhatIsTidy` says when reading fails; of any tokens it does not hold in the model,
where a decoration that begins in the label of a link and ends behind it throws, since
labels are not read apart (section 6).

## 6. What is not modelled

`WikiTables` reads a row without a closing bar, and a bar on its own, as rows, though the
wiki makes no table of them: the properties that compare tables then compare more, or
except such rows (`WholeRows`).

Formats and the wording of answers; the grammar of HTTP and of Slim messages; reflection;
running out of memory. Of the modelled components: the grouping of pages into test
systems, the choice of a Slim port, the pipe to an in-process Slim, SlimService, the
connection of FIT once it is accepted, FileSystemPage's second file, page properties,
RecentChanges, versions under Git. Of the editor: nested text and hash tables, and other
markup in the cells of a table (texts with nested tables are formatted in `TableEditing`, and
never shown in rich text); the rules for the start of a line in the title of a collapsible
section, which `wikitext.js` reads as a line of its own; links whose labels open
or close markup that begins or ends outside of them; the size and border of images; the buttons that decorate, indent or link a selection, and what is pasted
into rich text, whose effect is the browser's; formatting as part of a submit (the
button and the option at a switch are in `TableEditing`); literals with bars in a table;
the branches for old browsers.

Much of the JavaScript in the repository is not FitNesse's: CodeMirror, Bootstrap, jQuery,
Jasmine, the LESS compiler and its Rhino are vendored, and `src/FitNesseRoot/files/fitnesse`
holds copies of the resources. Of the project's own scripts, `wikitext.js`, `wysiwyg.js`,
`WikiFormatter.js`, `SpreadsheetTranslator.js` and `TemplateInserter.js` are modelled as
far as said above; the others fold sections, sort and colour what is shown. The state
that is shared, stored or sent over a wire is in the Java sources. Section 2 says what
comes next; PROJECT.json gives the reason for each component that is left out.
