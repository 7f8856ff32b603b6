# Autopower in TLA+

Autopower measures the power of devices in remote places. A **client** (C++,
`src/client`) runs *pinpoint* on a Raspberry Pi, records samples in a local
PostgreSQL database and uploads them. A **server** (Python, `src/server`) keeps
the clients registered, stores their samples and passes requests of **managers**
(the web application in `src/server/management`, the console `src/server/cli.py`,
the library in `src/libs/autopowermgmt`) on to them. All of them talk gRPC
(`src/proto/api.proto`). A **plotter** (`src/server/plotter`) shows what has been
measured.

This directory models the parts of the system in which threads, processes and
failures meet, checks them with TLC and proves the most important properties
with TLAPS. Every definition stands for code; `PROJECT.json` ("map") names its
lines.

## Inventory

| Component | State | Operations | What is hard, and what must hold |
|---|---|---|---|
| Sample upload (`client.cc` 423-443, 605-755, 907-922; `server.py` 417-479; `app.py` 291-303) | client DB `measurement_data.was_uploaded`, server DB `measurements` and `measurement_data`, the call's cached id and batch | record, open a stream, send, insert and commit, ack, mark, delete a measurement | two halves of a call that fail independently, uploads at the same time, lost acks, stale ids. Nothing is lost, doubled or attributed wrongly; everything arrives some day |
| Request dispatch (`server.py` 30-234, 366-406, 580-610; `client.cc` 974-1018) | per registration: job queue, request numbers, responses; `loggedInClients` | register, issue, yield, respond, wait, time out, get, purge | each step looks the registration up anew, old handlers live on, numbers start again. Each call returns, with its own response; no request is executed twice |
| Measurement control (`client.cc` 275-567, 725-855, 1020-1049; `client.h`) | `isMeasuring`, `ppHasExited`, `thisMeasurementHasWrittenOnce`, `internalMmtId`, settings, `doLastUpload` | start, stop, record, restart pinpoint, upload, pause | six kinds of threads, one shared mutex, three condition variables. Starts and stops tell the truth, samples belong to their measurement, recording and uploading go on |
| Measurement settings (`server.py` 41-68, 142-158, 482-495, 566-578; `app.py` 305-440; `cli.py`; `client.py` of the library) | settings of each registration | set, read, reset by a new registration | set and START are two calls, the settings are set and read piece by piece, the queue is last in first out, and calls that were given up stay in it. A START that nobody comes in between uses its own settings; a STOP is not undone by a START that was over before |
| Message listeners, worker pool (`server.py` 71-103, 299-335, 612-634) | a queue per manager, 20 workers | add a message, listen, replace a listener | blocked handlers keep their worker; a second listener replaces the first one's queue; the dictionary grows while it is iterated over |
| Shared connection (`server.py` 337-373, 497-545) | one transaction of all handlers | last seen, log messages, registration, deletion of a device | one handler's failure or commit acts on the others' statements |
| Run management (`app.py` 441-478, 480-945; `server.py` 431-447; `database_schema.sql`) | runs, devices under test, client_runs, measurements.run_id | add, change, finish, delete, link a measurement | checks and changes in separate transactions, locks, deadlocks, devices stopped one by one |
| Device administration (`app.py` 240-303) | clients and their rows | delete a device, delete a measurement | deletions between the steps of everything else |
| Plotter (`src/server/plotter/pages/dut.py`) | the page, the callbacks that are requested or run | choose, click, build the graphs with concurrent queries | late results, queries at different times, changes of the database in between. What is shown is what is chosen, and its parts agree |
| Authentication, LEDs, status queries, generated code, deployment | none, or private to one call | | not modelled, see below |

How they interact: a client's `manageMsmt` thread calls `registerClient` and
reads requests from that stream; a pool of four threads executes them and calls
`putClientResponse`. START and STOP requests drive measurement control, whose
measurement thread writes the samples that the upload thread, or a
MEASUREMENT_DATA request, sends with `putMeasurement`. Managers call
`setMsmtSttings` and `issueRequestToClient`; the web application also changes
the server's tables itself, under the feet of the server's handlers and of the
plotter. Handlers tell those who listen with `getMessages`.

`PROJECT.json` ("hazards") lists, line by line, what is hard to test, with the
properties that would catch it. Some have none: they are behaviours that the code
plainly has and promises nothing about; their notes say so. Where a property covers a hazard
only in part, the note says which part it exempts.

## Modules

| Module | Contents |
|---|---|
| `ReliableTransfer` | abstract specification of what the upload promises: samples are recorded, delivered, confirmed after delivery, erased by a user |
| `SampleUpload` | the upload on both sides; implements `ReliableTransfer` |
| `RequestReply` | abstract specification of what the dispatcher promises: a request is handed to the client once, and a call returns once, with a response that the client has sent |
| `RequestDispatch` | the server's dispatcher for one client uid, with the client's stream and pool; implements `RequestReply` |
| `MeasurementControl` | the client's threads around one measurement |
| `DeviceControl` | managers of every kind, settings, queue, pool and START/STOP of one device: the composition of what dispatch and measurement control have apart, each reduced to what the others see of it |
| `RunManagement` | the web application's transactions on runs, devices under test, links, with measurements arriving |
| `ServerHandlers` | worker threads, listeners, and the shared database connection |
| `Plotter` | the page of a device under test, with Dash's callbacks |
| `...Proofs` | theorems on the module before it; those on `RequestDispatch` are in two modules, of which the second extends the first: `RequestDispatchProofs`, `RequestDispatchPlacesProofs` |
| `MC...` | the instances for TLC |

Operators introduced with "Faulty variant" in the comment are plausible mistakes
in the operation after them; replacing the operation by its variant makes TLC
find a violated property (`PROJECT.json`, "mutants"), so that every property is
known to depend on the code.

### SampleUpload

A *stream* is one `putMeasurement` call. `client[u]` is `streamMeasurementData`
(writer and ack thread): `OpenStream` fixes the cursor's snapshot, `SendSample`
writes a row, `EndOfStream` is `WritesDone`, `ReadAck` the UPDATE in the open
transaction, `FinishUpload` its commit. `server[u]` is the handler: it reads
(`SendSample` includes the handler's turn, with the look-up of the measurement
and the cached id), then `StoreBatch` is INSERT, commit and acks at once:
nothing can fail between commit and `yield` that losing the link does not show
already. `RejectBatch` is the foreign key violation. When the link breaks, a
handler that reads is aborted, one that has read everything inserts all the
same. The thread's upload holds `measuringMtx` shared, therefore
`StartMeasurement` and `StopMeasurement` wait for it. A START brings an upload interval
(`Intervals`). With the interval 0 nothing is uploaded while the client measures, and
no last upload follows: the upload thread waits for the end of the measurement
(`ThreadIdles`, 734-737) and goes on when it looks and nothing is measured
(`ThreadAwakes`), which it may miss if the next measurement begins at once.

Abstractions: values and timestamps of samples are left out; the row of
`measurements` is inserted by a committed transaction of its own, as in the
code; of `clients` and `run_id` nothing is kept. Deleting a measurement is one
transaction and one step.

### RequestDispatch

A registration is named by the `registerClient` call that made it. `handler[h]`
is the thread of that call, `issuer[i]` the thread of a manager's
`issueRequestToClient`. Their steps are divided where the code looks the client
up again or takes a lock: `addNewClient` is `ScheduleDeletion` and `AddClient`;
an issuer finds, schedules, waits, gets and purges in five steps, the last three
at whatever registration is `current` then. The job queue is a LIFO sequence in
which `None` is the sign to end. `stream` is the registration that the client
listens to; `busy`, `calls` and `orphans` are requests in the client's pool,
responses under way, and responses under way that the client has given up.
The client registers again only after its pool has joined. A connection may
break without the server noticing; client and server may crash.

The check `clientUid in getLoggedInClientsList()` before each lookup is part of
`FindClient`: entries are replaced and never removed, which is what
`LookupsSucceed` says. Contents of requests and responses are left out.

`RequestReply` knows nothing of registrations, queues and streams. A request's
`Stage` is derived from where it is: new without a number, pending in a queue or a
handler's hands, executing in the pool, replying on its way back, over when it is
nowhere. It may get lost at each stage but never comes back from a later one, as it
would if the client repeated what it could not answer. That it is in one place at a
time, `InOnePlace`, is what the proof of this starts from; no run checks it apart.

### MeasurementControl

`call[c]` is where the constructor's first and second `startMeasurement`, a START
or a STOP request is. `startMeasurement` holds `measuringMtx` (`writer`) from its
INSERT to `setMeasuring(true)`; since `ppHasExited` and
`thisMeasurementHasWrittenOnce` have locks of their own, each assignment is a
step. `msmtThread` is the loop of `getAndSavePpData`: it looks at `measuring()`
after every character, `line` says that the line has begun, and the settings of a
pinpoint are those at the `fork`. `pgcon` is the connection that all inserts for one
pinpoint use (374-381): in its transaction until the first sample is committed, in none
afterwards, and of no use any more once it is broken or its transaction is aborted, since
the exception of an insert is caught and the loop goes on with it (431-438).
`uploadThread` is the loop of
`doPeriodicDataUpload`: `looping` waits at 732, `idling` at 735, `pausing` at
753. A measurement is named by the call that inserted it, and `rows` holds which
settings samples of which measurement were taken with; the number of samples
does not matter.

`measuring()` locks `measuringMtx` shared, also in threads that hold it shared
already (735, 895); with the reader-preferring lock of glibc this does not
block. The child's own failures (invalid interval or device, 315-346) end with
the parent's poll timing out, which is `LosePinpoint`. Pinpoint's lines are taken to be
samples: on others `parseMsmt` (425) throws and the program ends. The status handler
only reads.

The three safety properties about calls speak of behaviours that are `Orderly`:
no two calls overlap, and nothing has failed. Two starts that overlap pass the
check (765) together, a start that has timed out (524) leaves the device
measuring, and a stop that comes while pinpoint is being started may find
`ppHasExited` still set (561); the code does not prevent these and the properties
do not claim it does. Liveness (`StopReturns`, `RecordingResumes`) is checked with
overlapping calls and a failure. `RecordingResumes` exempts a pinpoint whose connection
has failed: nothing is recorded then until that pinpoint ends, however long it lives.

### DeviceControl

A *call* is what one manager does once; `form[c]` says by which way (web
application, `cli.py`, library, server's own command line) and what: a START, a
STOP, or a query. The ways differ and each has actions of its own: the web
application and the consoles ask the device for its power meters first
(`AskForList`, `HearList...`), the library sets at once; a device that is not
registered is an error for the web application and the library, while the consoles
ask again; a list that is declined ends the thread of a console with an exception
and is a refusal on the web (`HearListConsole`, `HearListWeb`). `SetMsmtSttings`
sets one of the three fields per step, in the registration it has found,
`AskToStart` is the second call. `queue` is the LIFO job queue, `posted` the pool's
queue, `job[c]` follows the request of a call. `FetchField` is `getMsmtSettings`
within `getMsmtSttngsAndStart`, field by field; `StartMeasuring` and `HandleStop`
are what measurement control makes of a request, `Conclude` the answer after the
first sample, the end of pinpoint, or in vain. `GiveUp` is the server's 30 seconds:
the request stays where it is. `Register` is a new registration with default
settings, for which the device first joins its pool. `StartItself` is an
attempt of the constructor, beside the thread that serves requests (1033-1040): one, and
another if it is in vain (`boot`). `Restart` is the end of the device's program and its
beginning anew. Who has made the device measure is `startedBy`.

What a STOP promises is `StopsOutlastStarts`: once it has been heard to be accomplished,
the device does not measure because of a START that had been answered, or been lost, when
the STOP was asked for, nor because of a start of its own that was over by then
(`settled`). This takes that queue and pool go with their registration and that nothing
is repeated. It does not promise that the device stays quiet: a START that was still
queued is overtaken by the STOP and undoes it, one that its manager has given up is not
cancelled, the constructor's second attempt may come afterwards, and a new program starts
measuring anew. All these are in the model, and the code prevents none of them.

Numbers of requests and confused responses are in `RequestDispatch`: here a
response reaches the call it belongs to or nobody. Settings are named by who set
them; values do not matter, except that the device must have the power meter
(`Offered`).

### RunManagement

A *thread* is one of the web server's; `form[t]` is the request it serves. `Send` is
the page together with the form: a user can choose only what the page showed, but
by the time the form arrives the tables may have changed (the form is rendered, and
validated, from what `Send` sees). Every transaction, or statement in between of
which others run, is a step; a row that a transaction has changed and not committed
is locked (`RunFree`, `Free`) and the change becomes visible with the commit. The
foreign keys, the CHECK of `runs` and the cascade of `database_schema.sql` belong to
the statements that they check. `addNewRun` is `ValidateRun`, `CheckConflicts`,
`InsertRun` (committed) and `InsertLinks`; `updateRun` the same with `UpdateRow` and
`ReplaceLinks`; `finishRun` is `ReadStop`, `ReadClients`, one `StopClient` per client
and `SetStop` with the time of the beginning; `deleteRun` is `CheckDeletable`,
`DeleteLinks`, `DeleteRow`; `deleteDevice` is `EmptyDevice` (the measurements),
`PurgeDevice` (the links) and `DeleteDevice`, each of which holds what it has locked until
the commit. What a request waits for is `RunWanted` and `RowsWanted`; `WaitsFor` is who
waits for whom, and a `Circle` is a set of requests that all wait for others of the set.
`BreakDeadlock` is PostgreSQL ending one of a circle, however long it is. `NewMeasurement` is the branch of `putMeasurement` that looks for the run.

`dirty[t]` and `raced` are history: whether others saved between a request's check
and its save, and which runs were saved so.

### ServerHandlers

Each call has a method and a caller and holds one of `Workers` threads while its
handler runs. `pending`, `aborted` are the one transaction: `Execute` is a statement
(which fails in a failed transaction or if its row is missing), `Commit` stores the
statements of *all* handlers, or discards them if one has failed. `Tell` is one turn
of the iteration of `addMessageOut`, which raises an exception if the dictionary has
grown. `getMessages` is `AddNewMessageOutListener`, `CheckActive`, `LookUpQueue`,
`GetMessage`: it looks its queue up by name each time, and gets from it afterwards.
`TypeOK` says, beside the types, that whoever waits for a message has found a queue:
entries are replaced and never removed.

### Plotter

Dash is external and modelled as the page uses it: a change of an input requests the
callbacks that have it, a new request replaces an earlier one of the same callback,
and a callback waits for those that set one of its inputs. `ReadSum`, `ReadPart`,
`ReadHours`, `ReadDays` are the queries of `showMsmtPlot`'s threads, each on a
connection of its own, in any order the code allows; `ShowMsmtPlot`, `NoData`,
`PlotFails`, `ClearPlot` its ends. Dates can be chosen each for itself (`ChooseStart`,
`ChooseEnd`), and the dropdown of bin widths can be cleared: `bin` is `None` then, the
button is not enabled by it, and a click that meets it is lost, since `showMsmtPlot` fails
(372, 455). `Upload` and `DeleteMeasurement` change the database in between, and so does
`DeleteRun`, after which the callback that looks for the run's range fails (`RangeFails`,
306 and 318). `news` is history: rows that came or went meanwhile. Averages are modelled
by what is averaged: a trace maps each bin (`date_bin`) to its samples. The query of one
measurement groups by local timestamps and the sum by timestamps with time zone; that they
differ in the hour that a change of summer time repeats is left out.

## Runs

| Run | Bounds | Shows |
|---|---|---|
| `upload` | 2 samples of 2 measurements, a stream for the thread and one for a request, interval 0, 1 fault, 1 deletion | `TypeOK`, `UploadedIsKept`, `OneRowPerSample`, `RowsOfTheirMeasurement`, `ImplementsTransfer`; no deadlock |
| `upload_live` | 2 samples, 2 streams of the thread, intervals 0 and 5, 2 faults, 1 deletion | `EventuallyUploaded`, `UploadsEnd` |
| `dispatch` | 2 registrations, 2 requests, 1 fault | `TypeOK`, `SameRegistrationNeverConfused`, `EndedOnlyWhenReplaced`, `LookupsSucceed`, `FaultlessCallsSucceed`, `ImplementsRequestReply`, `ConnectedClientAnswers`, `CallsReturn` |
| `dispatch_mixup` | the same, with symmetry | violated: `OwnResponse` |
| `control` | the constructor's two starts, a START (interval 0), a STOP, 1 failure | `TypeOK`, `OwnSettings`, `StartedHasRows`, `StoppedIsQuiet`, `StopReturns`, `RecordingResumes` |
| `control_idling` | 2 STARTs (interval 0, then 5), 2 STOPs, one call at a time | violated: `UploadsGoOn` |
| `device_control` | 2 calls, one of them web, console or library START or web STOP, the other the server's START, the library's STOP or a query; pool of 2, 2 registrations or program restarts | `TypeOK`, `WholeSettings`, `StartsUseOwnSettings`, `StopsOutlastStarts` |
| `device_pool` | 3 calls: a START of the web (a list and a START), a STOP, a query; pool of 1, 2 registrations | `RequestsServed` |
| `runs` | 2 threads, 2 requests of any kinds, 2 clients, 1 measurement, 2 runs, 2 devices under test, instants 0 and 1 | `TypeOK`, `OpenRunsDisjointUnlessRaced`, `ReferencesHold`, `RunsOfTheirClient`, `AllOrNothing`, `RequestsEnd` |
| `runs_open` | the same | violated: `OpenRunsDisjoint` |
| `handlers` | a registration, a call of any other method, two listeners of one manager or of two, 3 workers | `TypeOK`, `WritesStored`, `ListenersHear`, `ListenersEnd` |
| `plotter` | 2 measurements of two runs, one of them unfinished, instants 0 and 1, bins of 1 and 2 or none, 4 inputs of the user, 1 change of the database and the deletion of a run | `TypeOK`, `ShownIsChosen`, `SumOfParts`, `ClicksAnswered` |

Why the bounds are enough. Upload: two samples of different measurements are what
makes the cached id change; two streams overlap in every way, and a third would only
repeat it; one fault separates the halves of a stream, after which the other
stream, or the same one opened anew, sends the samples again; the one deletion
can fall between look-up and INSERT. Dispatch: two registrations give an old and a
new handler, queue, number sequence and dictionary, and two requests the two that can
be confused; one fault separates them, and any number of faults is covered by the theorems,
which all but the last two properties have. Control: one STOP after the constructor's start and one START, in any
order, give each flag a value left over from an earlier measurement. Device control:
settings and START, STOP and queue are disturbed by one other call, one new
registration or one restart; a pool of two runs both requests at once. For the full pool
there is a run of its own: one thread, and three calls, so that requests wait behind one
that is slow, in any order. Runs: each property relates two
requests, or a request and an arriving measurement; two runs of two clients can share
one client and not the other, and two instants are before and after. Handlers: three
workers are all held when two listeners and a handler wait, so that a fourth call
queues. Plotter: four inputs are a run, its measurements, a click, and another choice or
click before, during or after the queries; two instants fall into two bins of 1 or
one of 2; the one row that comes or goes can do so
between any two of them, also between one that finds no samples and one that does. Larger numbers are the matter of
the proofs.

All runs but `upload` and `upload_live` switch the check for deadlock off: calls, requests and inputs
are made once each and then the model ends. That nothing gets stuck before is what the
liveness properties say.

The violated properties quote what the code or the documentation says; the
counterexamples are described in `PROJECT.json` ("findings"). Three weaker points of
the code are in the models without a run of their own: the last upload is no longer
due once it has failed (`client.cc:752`), a handler of an old registration may take a
request of the new one to a stream nobody reads (`server.py:378`), and a failed
statement on the shared connection takes other handlers' statements with it
(`server.py:343`). The properties state what holds in spite of them.

## Fairness

Nothing forces a user, a manager, a fault or a timeout. `SampleUpload`: the
upload thread, which uploads, waits out an interval of 0 or leaves that wait
(`ThreadProgress`: its steps are fair together, so that none of them is promised while
another is taken), and both halves of a stream go on (threads run, gRPC delivers or
reports a failure; keepalive ends dead connections). `RequestDispatch`: the
steps of handlers, of issuers and of the client's answers are weakly fair, a
lock being held for a few statements only; the condition variable's timeout is
assumed to expire in `CallsReturn` only. `MeasurementControl`: the same for its
threads, and strong fairness of `InsertSample`: a line of a running pinpoint has
an end, so the thread cannot read characters of it for ever. Exclusive access to
`measuringMtx` is weakly fair per call; no property depends on more.
`DeviceControl`: the threads of the device, which take requests from the pool's queue and
go on with some request that they have. `RunManagement`: the web server goes on with each request; a deadlock is
ended, since PostgreSQL looks for them. `ServerHandlers`: the threads go on, and a free
one takes a call that waits (gRPC's executor). `Plotter`: some callback that can go on
does.

## Proofs

TLAPS proves for every value of the constants, from the modules' named
assumptions (types of the constants, `None` being none of the others):

* `SampleUploadProofs`: `TypeCorrect`, `UploadedIsAlwaysKept`,
  `RowsAlwaysOfTheirMeasurement`, `AlwaysOneRowPerSample`,
  `UploadImplementsTransfer`, `UploadsDropNothing`, `UploadsHaveSomethingToDo`.
  The inductive invariant `IInv` adds to these properties that acks, read or
  unread, are of samples that are stored or were erased; that ids are handed out
  in sequence, so that a deleted measurement's id is never used again; and that a
  handler's cached id is its measurement's present id or one that no measurement
  has. `UploadedIsKept` alone is not inductive: it needs to know what an
  ack says, and `OneRowPerSample` follows from `RowsOfTheirMeasurement` only.
  Most steps only forget something, which the lemma `ForgettingKeepsIInv` treats once.
  The refinement maps delivery to `StoreBatch`, confirmation to the commit of the
  ack thread, and erasing to `DeleteMeasurement`; all other steps stutter. The last two say of one
  upload that without a fault each sample it has selected is with the writer, in the
  batch or among the acks until it is marked, and that some part of it always has
  something to do; both rest on `StreamsFit`, which ties the place of the handler to
  that of the client and to the link.
* `RequestDispatchProofs`: `TypeCorrect`, `LookupsAlwaysSucceed`, `NeverConfused`.
  The inductive invariant says that a scheduled request has a number that its
  registration has given out, that no two have the same one there, that only
  scheduled requests travel, and that a response and an answer carry the number
  of the request they belong to. Two requests of one registration with the same
  answer number are therefore one. Most steps are *quiet*: they give out no
  number, and `QuietIInv` deals with all of these.
* `RequestDispatchPlacesProofs`: `HandlersEndWhenReplaced`, `NeverInTwoPlaces`,
  `FaultlessCallsNeverFail`, `DispatchImplementsReply`, on top of that invariant. `EndInv`: a registration that
  is not yet added has no `None` in its queue, and a `None` in the present one's queue
  means that some call is between the two steps of replacing it. `PlacesInv`: an issuer
  without a number is nowhere, so that the step that queues it gives it its first place,
  and every later step takes it from one place and puts it into at most one other.
  `FaultlessInv`: without a fault the client registers once, all requests are at that
  registration, and a response that has arrived is taken away by its own call only.
  The refinement: where a request is decides its stage because it is in one place
  (`PlacesInv`); that a handler has a request in its hands only while it yields
  (`JobsYielded`) is what else it takes. Steps that only lose something are one lemma
  (`FailRefines`), those that move a request on another (`AdvanceRefines`).
* `MeasurementControlProofs`: `TypeCorrect`, `StopIsFinal`,
  `SamplesHaveTheirSettings`, `StartHasSample`, `WaitsAlwaysHaveCause`. The invariant is `Orderly =>
  OrderlyInv`: as long as calls have not overlapped and nothing has failed, at most
  one call is in the middle, and its place determines the flags (`isMeasuring`,
  `ppHasExited`, `thisMeasurementHasWrittenOnce`), the measurement thread's place, and
  whose settings the running pinpoint has. The three properties are not inductive:
  that a stop has waited long enough is known only from where pinpoint, the thread and
  the flag were at each step before. `WaitsAlwaysHaveCause` holds with overlapping calls
  and failures too: `measuringMtx` has one holder (`LockOfHolder`), and while
  `ppHasExited` is false the measurement thread is on its way to setting it
  (`ExitToCome`).
* `RunManagementProofs`: `TypeCorrect`, `ReferencesAlwaysHold`,
  `OnlyRacesOpenTwoRuns`, `MeasurementsGetOwnRuns`, `RequestsAreWhole`,
  `DeadlocksNeedDeleteRun`. The invariant
  says of each place of a request what its check has established and what the locks
  keep (`RequestFits`, `RowHeld`): a request past its check either is `dirty` or its
  conflicts are still none (`ConflictsSeen`), and its link still exists (`LinkSeen`).
  `RoomHolds` bounds the ids that requests in the middle may still take, without which
  a new row would have no id in the model. An unfinished run saved by a request that
  is not `dirty` had no conflict when it was checked, and therefore has none now.
  For `DeadlocksNeedDeleteRun`, `LocksInv` says that rows of links and
  measurements are held only by a `deleteRun` past its links and a `deleteDevice` past its
  measurements, and by the latter measurements only until it has its links. Whoever is
  waited for is an `updateRun`, `deleteRun` or `deleteDevice` in its middle. The first and
  the last want links, which only a `deleteRun` holds or a `deleteDevice` that waits for
  nobody: so among requests that wait for each other (`Stuck`) there is always a
  `deleteRun` past its links (`StuckHasDeleteRun`), and a circle without surplus members
  consists of such requests alone (`CircleMembers`). Requests that delete no run never
  deadlock, and no others than these three are ever the victim of `BreakDeadlock`.
  `WaitingIsTheGuards` says that waiting is
  what the guards of the actions forbid.
* `DeviceControlProofs`: `TypeCorrect`, `SettingsAreWhole`, `OwnSettingsFetched`,
  `StopsHold`. The invariant places each request once (`QueuesFit`), ties what is
  asked and how far it has got to the call (`StageFits`), and says of an undisturbed
  call which settings are already its own (`OwnSettings`), and of settings accessed one at
  a time that whoever is in the middle has set the first ones (`OneByOne`). `MovesOn`
  treats what takes a request from the queue to the pool to a thread. For `StopsHold`,
  `StopsFit` says of each STOP that the starts in `settled` are still over, and, from
  the step that stops the device until the manager hears of it and ever after, that none
  of them is what it measures for; `StopKept` is what a step must leave alone for that,
  and each step is shown to do so.
* `ServerHandlersProofs`: `TypeCorrect`, `WhatIsWrittenIsStored`, for any number of
  workers, calls and finitely many managers (`ManagersAssumption`). The invariant ties
  the call to its place (`CallFits`), and a listener to the queues that exist. What is written is stored or still uncommitted
  (`Wrote`), and whoever still has a statement or a commit before it in a transaction
  that the database has aborted counts as failed (`FailureSeen`), so that a commit which
  rolls back loses nothing of a handler that did not fail.

* `PlotterProofs`: `TypeCorrect`, `GraphsOfTheChoice`, `SumsOfTheirParts`, `ClicksKept`,
  for any measurements and times. `ShownFits`: whenever the choice is no longer that of
  the graphs, the callback that draws them is requested or the click stands. `ReadFits`:
  what each query has read is, apart from the rows in `news`, what the database has now of
  the present choice, so that what two queries read agrees apart from `news`; bins that
  no such row falls into are therefore the same in the sum and in its parts. The smallest
  and largest times of a set come from the well-founded order of inclusion on a finite
  set. `ClicksKept` is the safety part of `ClicksAnswered`: `showMsmtPlot` fails only
  without a measurement or a bin width, or if one query found samples and another none
  (`FailureHasCause`).

TLAPS does not treat fairness: the liveness properties (`EventuallyUploaded`,
`UploadsEnd`, `ConnectedClientAnswers`, `CallsReturn`, `StopReturns`, `RecordingResumes`,
`RequestsServed`, `RequestsEnd`, `ListenersHear`, `ListenersEnd`, `ClicksAnswered`) are
checked by TLC only. Of some of them a safety part is proved: that whoever waits has
somebody to wait for (`UploadsHaveSomethingToDo`, `WaitsAlwaysHaveCause`), which circles of
waits there are for `BreakDeadlock` to end (`DeadlocksNeedDeleteRun`), that a click is not
forgotten (`ClicksKept`). That the steps named there are enabled is not part
of these theorems: ENABLED is beyond the prover too.

## Not modelled

Authentication checks a password or a token per call and keeps no state. The library
reads configuration and credentials once (`config.py`, `tls.py`). Of the plotter the
dashboard (`home.py`) only reads and keeps nothing, `dutUpdate` refers to components
that the page does not have, and the CSV export hands rows on. The status LEDs and the
status and list requests have no effect on what is modelled; the vector
`supportedDevices` is filled by concurrent requests without a lock (`client.h:30`),
of which any outcome is possible: `DeviceControl` has refusal and acceptance. Generated
code is taken as a gRPC channel that delivers in order or breaks. Scripts are run by
hand.
