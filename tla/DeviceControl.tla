----------------------------- MODULE DeviceControl -----------------------------
(***************************************************************************)
(* How a measurement device is controlled: the web application              *)
(* (src/server/management/app.py), the console (src/server/cli.py), the     *)
(* library (src/libs/autopowermgmt/client.py) and the server's own command  *)
(* line leave settings at the server (src/server/server.py) and send        *)
(* requests, which wait there for the device, are handed to it last in      *)
(* first out, and are served by a few threads of the device, where a START  *)
(* fetches the settings.                                                    *)
(*                                                                          *)
(* This is one device.  Numbers and dictionaries of responses are the       *)
(* subject of RequestDispatch, the threads of a measurement that of         *)
(* MeasurementControl: here a response reaches the call whose request it    *)
(* answers or nobody, and a measurement is on or off.                       *)
(***************************************************************************)
EXTENDS Naturals, Sequences, FiniteSets

CONSTANTS
    Calls,            \* what managers do, each once
    Uses,             \* which managers make which kinds of each call
    Default,          \* settings of a new registration
    Itself,           \* the device, as the one who starts a measurement
    None,             \* nobody
    DefaultOffered,   \* the device has the power meter of these
    PoolSize,         \* threads of the device
    MaxRegistrations

Vias == {"web", "console", "library", "server"}
Kinds == {"start", "stop", "query"}

ASSUME UsesAssumption == Uses \in [Calls -> SUBSET (Vias \X Kinds)]
ASSUME DefaultAssumption == Default \notin Calls
ASSUME ItselfAssumption == Itself \notin Calls /\ None \notin Calls \cup {Itself}
ASSUME DefaultOfferedAssumption == DefaultOffered \in BOOLEAN
ASSUME BoundsAssumption == PoolSize \in Nat \ {0} /\ MaxRegistrations \in Nat

VARIABLES
    stage,         \* how far each call is
    form,          \* manager, kind of call, and whether the device has the power
                   \* meter that it names
    asked,         \* the last request of each call
    registrations, \* number of registrations: the last one counts
    connected,     \* its stream is up
    settings,      \* ppDevice, ppSamplingInterval and uploadIntervalMin of the
                   \* present registration, each named by who set it
    target,        \* the registration that a call is setting
    queue,         \* calls whose request is in the job queue
    posted,        \* ... has been posted to the pool of the device
    job,           \* what became of the request of each call
    used,          \* settings that the request of each call has fetched so far
    done,          \* fields that a call has set, or its request has fetched
    boot,          \* the start that the program of the device will make by itself
    startedBy,     \* who has made the device measure, None if it does not
    disturbed,     \* history: another call came in between settings and START
    overlapped,    \* history: the settings were accessed by two at a time
    settled        \* history: starts that had taken effect, or could no longer do
                   \* so, when each STOP was asked for

devvars == <<posted, used, boot, startedBy>>
histvars == <<disturbed, overlapped, settled>>
vars == <<stage, form, asked, registrations, connected, settings, target, queue, posted, job, used,
          done, boot, startedBy, disturbed, overlapped, settled>>

Fields == 1..3
Setters == Calls \cup {Default}
Ends == {"ok", "failed", "timedout", "refused", "threadEnded"}
Answered == {"accomplished", "declined"}

TypeOK ==
    /\ stage \in [Calls -> {"idle", "listing", "setting", "set", "waiting"} \cup Ends]
    /\ form \in [Calls -> [via : Vias, kind : Kinds, offered : BOOLEAN]]
    /\ asked \in [Calls -> {"none", "list", "start", "stop", "query"}]
    /\ registrations \in Nat
    /\ connected \in BOOLEAN
    /\ settings \in [Fields -> Setters]
    /\ target \in [Calls -> Nat]
    /\ queue \in Seq(Calls) /\ posted \in Seq(Calls)
    /\ job \in [Calls -> {"none", "queued", "posted", "running", "fetching", "fetched", "begun",
                          "halted", "lost"}
                         \cup Answered]
    /\ used \in [Calls -> [Fields -> Setters]]
    /\ done \in [Calls -> 0..2]
    /\ boot \in {"first", "again", "over"}
    /\ startedBy \in Calls \cup {Itself, None}
    /\ disturbed \in [Calls -> BOOLEAN]
    /\ overlapped \in BOOLEAN
    /\ settled \in [Calls -> SUBSET (Calls \cup {Itself})]

\* Faulty variant: it starts with none.
NoDefaults == [f \in Fields |-> "unset"]
\* ExternalClient starts with settings of its own.
Defaults == [f \in Fields |-> Default]

\* The consoles let choose among the power meters of the device.
Forms(c) == {f \in [via : Vias, kind : Kinds, offered : BOOLEAN] :
                /\ <<f.via, f.kind>> \in Uses[c]
                /\ ~f.offered => f.kind = "start" /\ f.via \in {"web", "library"}}

Init ==
    /\ stage = [c \in Calls |-> "idle"]
    /\ form \in [Calls -> UNION {Forms(c) : c \in Calls}]
    /\ \A c \in Calls : form[c] \in Forms(c)
    /\ asked = [c \in Calls |-> "none"]
    /\ registrations = 0 /\ connected = FALSE
    /\ settings = Defaults
    /\ target = [c \in Calls |-> 0]
    /\ queue = <<>> /\ posted = <<>>
    /\ job = [c \in Calls |-> "none"]
    /\ used = [c \in Calls |-> Defaults]
    /\ done = [c \in Calls |-> 0]
    /\ boot = "first" /\ startedBy = None
    /\ disturbed = [c \in Calls |-> FALSE] /\ overlapped = FALSE
    /\ settled = [c \in Calls |-> {}]

At(c, s) == stage[c] = s
Via(c, vias) == form[c].via \in vias
Kind(c, k) == form[c].kind = k
Goes(c, s) == stage' = [stage EXCEPT ![c] = s]
Job(c, j) == job[c] = j
measuring == startedBy # None
Turns(c, j) == job' = [job EXCEPT ![c] = j]

\* loggedInClients: no uid is ever removed from it.
Registered == registrations > 0

-----------------------------------------------------------------------------
(* The managers.                                                            *)

\* issueRequestToClient puts the request on top of the queue.
Asks(c, request) ==
    /\ asked' = [asked EXCEPT ![c] = request]
    /\ queue' = Append(queue, c)
    /\ Turns(c, "queued")

\* A START that may still take effect, whatever its call has been told.
Pending(c) ==
    asked[c] = "start" /\ job[c] \in {"queued", "posted", "running", "fetching", "fetched"}

Settled == {d \in Calls : asked[d] = "start" /\ ~Pending(d)}
           \cup (IF boot = "over" THEN {Itself} ELSE {})

\* A request other than a START.
AskSimply(c) ==
    /\ ~Kind(c, "start")
    /\ Goes(c, "waiting")
    /\ Asks(c, form[c].kind)
    /\ settled' = IF Kind(c, "stop") THEN [settled EXCEPT ![c] = Settled] ELSE settled
    /\ UNCHANGED <<target, disturbed>>

\* What a START needs first: the power meters of the device.
AskForList(c) ==
    /\ Kind(c, "start")
    /\ Goes(c, "listing")
    /\ Asks(c, "list")
    /\ UNCHANGED <<target, disturbed, settled>>

\* setMsmtSttings finds the registration that it will set.
BeginSetting(c) ==
    /\ Goes(c, "setting")
    /\ target' = [target EXCEPT ![c] = registrations]
    /\ disturbed' = [disturbed EXCEPT ![c] = FALSE]

Unreached(c) == Goes(c, "refused") /\ UNCHANGED <<asked, target, queue, job, disturbed, settled>>
Begun == UNCHANGED <<form, registrations, connected, settings, done, devvars, overlapped>>

\* startMeasurementAtDevice and its like look for the device first.
BeginWeb(c) ==
    /\ At(c, "idle") /\ Via(c, {"web"})
    /\ IF Registered THEN AskSimply(c) \/ AskForList(c) ELSE Unreached(c)
    /\ Begun

\* cli.py asks until a client is named that is registered.
BeginConsole(c) ==
    /\ At(c, "idle") /\ Via(c, {"console"})
    /\ Registered
    /\ AskSimply(c) \/ AskForList(c)
    /\ Begun

\* So does the command line of the server.
BeginServer(c) ==
    /\ At(c, "idle") /\ Via(c, {"server"})
    /\ Registered
    /\ AskSimply(c) \/ AskForList(c)
    /\ Begun

\* The library sets the settings at once.
BeginLibrary(c) ==
    /\ At(c, "idle") /\ Via(c, {"library"})
    /\ IF ~Registered THEN Unreached(c)
       ELSE \/ AskSimply(c)
            \/ Kind(c, "start") /\ BeginSetting(c) /\ UNCHANGED <<asked, queue, job, settled>>
    /\ Begun

\* The list has come.  A web user may have named another power meter.
HearListWeb(c) ==
    /\ At(c, "listing") /\ Via(c, {"web"}) /\ job[c] \in Answered
    /\ IF Job(c, "accomplished") /\ form[c].offered
       THEN BeginSetting(c)
       ELSE Goes(c, "refused") /\ UNCHANGED <<target, disturbed>>
    /\ Turns(c, "none")
    /\ UNCHANGED <<form, asked, registrations, connected, settings, queue, done, devvars, overlapped,
                   settled>>

\* A console raises an exception on an answer that is no list, which ends its thread.
HearListConsole(c) ==
    /\ At(c, "listing") /\ Via(c, {"console", "server"}) /\ job[c] \in Answered
    /\ IF Job(c, "accomplished")
       THEN BeginSetting(c)
       ELSE Goes(c, "threadEnded") /\ UNCHANGED <<target, disturbed>>
    /\ Turns(c, "none")
    /\ UNCHANGED <<form, asked, registrations, connected, settings, queue, done, devvars, overlapped,
                   settled>>

\* The server has waited for 30 seconds (its command line does not wait at all).
\* Only the web application provides for that.
GiveUpList(c) ==
    /\ At(c, "listing") /\ job[c] \notin Answered
    /\ Goes(c, IF Via(c, {"web"}) THEN "timedout" ELSE "threadEnded")
    /\ UNCHANGED <<form, asked, registrations, connected, settings, target, queue, job, done, devvars,
                   histvars>>

\* A call or a request that is in the middle of the settings.
Amid(c) == /\ done[c] \in {1, 2}
           /\ (At(c, "setting") /\ target[c] = registrations) \/ Job(c, "fetching")
NotAlone(c) == overlapped' = (overlapped \/ \E d \in Calls \ {c} : Amid(d))

\* Faulty variants: the last field is forgotten; the registration is looked up for
\* each field.
SetFieldButLast(c) ==
    settings' = IF target[c] = registrations /\ done[c] < 2
                THEN [settings EXCEPT ![done[c] + 1] = c] ELSE settings
SetFieldOfLatest(c) == settings' = [settings EXCEPT ![done[c] + 1] = c]
\* setMsmtSettingsOfClient keeps the registration it has found.
SetField(c) ==
    settings' = IF target[c] = registrations THEN [settings EXCEPT ![done[c] + 1] = c]
                ELSE settings

SetMsmtSttings(c) ==
    /\ At(c, "setting")
    /\ SetField(c)
    /\ done' = [done EXCEPT ![c] = (@ + 1) % 3]
    /\ IF done[c] = 2 THEN Goes(c, "set") /\ target' = [target EXCEPT ![c] = 0]
       ELSE UNCHANGED <<stage, target>>
    /\ NotAlone(c)
    /\ disturbed' = [d \in Calls |-> disturbed[d] \/ (d # c /\ Kind(d, "start"))]
    /\ UNCHANGED <<form, asked, registrations, connected, queue, job, devvars, settled>>

AskToStart(c) ==
    /\ At(c, "set")
    /\ Goes(c, "waiting")
    /\ Asks(c, "start")
    /\ UNCHANGED <<form, registrations, connected, settings, target, done, devvars, histvars>>

Hear(c) ==
    /\ At(c, "waiting") /\ job[c] \in Answered
    /\ Goes(c, IF Job(c, "accomplished") THEN "ok" ELSE "failed")
    /\ UNCHANGED <<form, asked, registrations, connected, settings, target, queue, job, done, devvars,
                   histvars>>

\* The request stays where it is.
GiveUp(c) ==
    /\ At(c, "waiting") /\ job[c] \notin Answered
    /\ Goes(c, "timedout")
    /\ UNCHANGED <<form, asked, registrations, connected, settings, target, queue, job, done, devvars,
                   histvars>>

-----------------------------------------------------------------------------
(* The stream to the device.                                                *)

Disconnect ==
    /\ connected /\ registrations < MaxRegistrations
    /\ connected' = FALSE
    /\ UNCHANGED <<stage, form, asked, registrations, settings, target, queue, job, done, devvars,
                   histvars>>

InPool == {c \in Calls : job[c] \in {"posted", "running", "fetching", "fetched", "begun", "halted"}}

\* The device joins its pool first.
Registers ==
    /\ ~connected /\ connected' = TRUE
    /\ InPool = {}
    /\ registrations < MaxRegistrations /\ registrations' = registrations + 1
    /\ settings' = Defaults
    /\ job' = [c \in Calls |-> IF job[c] \in {"queued"} \cup Answered THEN "lost" ELSE job[c]]
    /\ disturbed' = [c \in Calls |-> disturbed[c] \/ Kind(c, "start")]
    /\ overlapped' = FALSE
    /\ UNCHANGED <<stage, form, asked, target, done, devvars, settled>>

\* Faulty variant: the queue is handed on to the new registration.
RegisterWithQueue == Registers /\ UNCHANGED queue
\* The requests of the registration before are gone, and so are its responses.
Register == Registers /\ queue' = <<>>

Top == queue[Len(queue)]

Deliver ==
    /\ connected /\ queue # <<>>
    /\ queue' = SubSeq(queue, 1, Len(queue) - 1)
    /\ posted' = Append(posted, Top)
    /\ Turns(Top, "posted")
    /\ UNCHANGED <<stage, form, asked, registrations, connected, settings, target, used, done,
                   boot, startedBy, histvars>>

-----------------------------------------------------------------------------
(* The device.                                                              *)

Take ==
    /\ posted # <<>> /\ Cardinality({c \in InPool : ~Job(c, "posted")}) < PoolSize
    /\ posted' = Tail(posted)
    /\ Turns(Head(posted), "running")
    /\ UNCHANGED <<stage, form, asked, registrations, connected, settings, target, queue, used, done,
                   boot, startedBy, histvars>>

\* putResponseToServer does not try again.
Responds(c, answers) ==
    \E a \in answers \cup (IF connected THEN {} ELSE {"lost"}) : Turns(c, a)

Handled == UNCHANGED <<stage, form, asked, registrations, connected, settings, target, queue, posted,
                       used, done, boot, startedBy, histvars>>

\* A list of power meters, a status, a ping.
HandleQuery(c) ==
    /\ Job(c, "running") /\ asked[c] \in {"list", "query"}
    /\ Responds(c, Answered)
    /\ Handled

HandleStop(c) ==
    /\ Job(c, "running") /\ asked[c] = "stop"
    /\ Turns(c, "halted")
    /\ startedBy' = None
    /\ UNCHANGED <<stage, form, asked, registrations, connected, settings, target, queue, posted,
                   used, done, boot, histvars>>

HandleStart(c) ==
    /\ Job(c, "running") /\ asked[c] = "start"
    /\ IF measuring THEN Responds(c, {"declined"}) ELSE Turns(c, "fetching")
    /\ Handled

\* getMsmtSttngsAndStart: getMsmtSettings reads one field after the other.
FetchField(c) ==
    /\ Job(c, "fetching")
    /\ used' = [used EXCEPT ![c][done[c] + 1] = settings[done[c] + 1]]
    /\ done' = [done EXCEPT ![c] = (@ + 1) % 3]
    /\ IF done[c] = 2 THEN Turns(c, "fetched") ELSE UNCHANGED job
    /\ NotAlone(c)
    /\ UNCHANGED <<stage, form, asked, registrations, connected, settings, target, queue, posted,
                   boot, startedBy, disturbed, settled>>

\* The power meter must be one the device has.
Offered(s) == IF s = Default THEN DefaultOffered ELSE form[s].offered

\* Refused, or it cannot be recorded.
FailToStart(c) ==
    /\ Job(c, "fetched")
    /\ Responds(c, {"declined"})
    /\ used' = [used EXCEPT ![c] = Defaults]
    /\ UNCHANGED <<stage, form, asked, registrations, connected, settings, target, queue, posted,
                   done, boot, startedBy, histvars>>

StartMeasuring(c) ==
    /\ Job(c, "fetched") /\ Offered(used[c][1])
    /\ Turns(c, "begun")
    /\ startedBy' = c
    /\ used' = [used EXCEPT ![c] = Defaults]
    /\ UNCHANGED <<stage, form, asked, registrations, connected, settings, target, queue, posted,
                   done, boot, histvars>>

\* Faulty variant: a START is answered when its measurement is over.
ConcludeAtEnd(c) ==
    /\ Job(c, "halted") \/ (Job(c, "begun") /\ ~measuring)
    /\ Responds(c, Answered)
    /\ Handled

\* After the first sample, the end of pinpoint, or in vain.
Conclude(c) ==
    /\ job[c] \in {"begun", "halted"}
    /\ Responds(c, Answered)
    /\ Handled

\* The constructor starts a measurement beside the thread that serves requests, and
\* once more if it cannot be recorded or there is no sample.
StartItself ==
    /\ boot # "over"
    /\ \/ /\ startedBy' = Itself
          /\ boot' = "over" \/ (boot = "first" /\ boot' = "again")
       \/ /\ UNCHANGED startedBy
          /\ boot' = IF boot = "first" THEN "again" ELSE "over"
    /\ UNCHANGED <<stage, form, asked, registrations, connected, settings, target, queue, posted,
                   job, used, done, histvars>>

\* The program of the device ends, with what it was doing, and begins anew.
Restart ==
    /\ registrations < MaxRegistrations
    /\ connected' = FALSE
    /\ posted' = <<>>
    /\ job' = [c \in Calls |-> IF c \in InPool THEN "lost" ELSE job[c]]
    /\ used' = [c \in Calls |-> Defaults]
    /\ done' = [c \in Calls |-> IF Job(c, "fetching") THEN 0 ELSE done[c]]
    /\ boot' = "first" /\ startedBy' = None
    /\ settled' = [c \in Calls |-> settled[c] \ {Itself}]
    /\ UNCHANGED <<stage, form, asked, registrations, settings, target, queue, disturbed, overlapped>>

-----------------------------------------------------------------------------

Begin(c) == BeginWeb(c) \/ BeginConsole(c) \/ BeginServer(c) \/ BeginLibrary(c)

\* A step of a call that has begun, or of its request on the device.
Proceed(c) ==
    \/ HearListWeb(c) \/ HearListConsole(c) \/ GiveUpList(c)
    \/ SetMsmtSttings(c) \/ AskToStart(c) \/ Hear(c) \/ GiveUp(c)
Handle(c) ==
    \/ HandleQuery(c) \/ HandleStop(c) \/ HandleStart(c) \/ FetchField(c)
    \/ FailToStart(c) \/ StartMeasuring(c) \/ Conclude(c)

Next ==
    \/ \E c \in Calls : Begin(c) \/ Proceed(c) \/ Handle(c)
    \/ Disconnect \/ Register \/ Deliver \/ Take
    \/ StartItself \/ Restart

Spec == Init /\ [][Next]_vars

\* The threads of the device take what waits for them and go on with what they have.
FairSpec == Spec /\ WF_vars(Take) /\ WF_vars(\E c \in Calls : Handle(c))

-----------------------------------------------------------------------------
(* Properties.                                                              *)

FetchesOwn ==
    \A c \in Calls : Job(c, "fetching") /\ job'[c] = "fetched" =>
        disturbed[c] \/ \A f \in Fields : used'[c][f] = c

\* What a START fetches is what its own call has set, all of it, unless since then
\* another call set the settings or the device registered again: settings and START
\* are two calls, and nothing ties them together.
StartsUseOwnSettings == [][FetchesOwn]_vars

\* Whoever set them, they are the settings of one call or those of a new
\* registration, unless two were setting or reading them at a time: the three fields
\* are written and read one by one without a lock.
WholeSettings ==
    \A c \in Calls : Job(c, "fetched") =>
        overlapped \/ \A f, g \in Fields : used[c][f] = used[c][g]

\* A START that had been answered, or had gone down with its registration, when a
\* STOP was asked for is not what makes the device measure once that STOP has been
\* heard to be accomplished, nor is a start of the device's own that was over then
\* and has not been repeated by a new program.  A START that was still queued, on
\* the device or given up by its manager does undo a STOP that overtakes it: the
\* queue is last in first out, the pool runs several requests, and giving up a
\* request does not cancel it.
StopsOutlastStarts ==
    \A c \in Calls : Kind(c, "stop") /\ At(c, "ok") => startedBy \notin settled[c]

\* What has reached the device is answered, also when all the threads of its pool are
\* busy with slow requests, unless the connection breaks or the program ends.
RequestsServed == \A c \in Calls : Job(c, "posted") ~> job[c] \in Answered \cup {"lost"}
=============================================================================
