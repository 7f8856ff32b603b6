-------------------------- MODULE MeasurementControl --------------------------
(***************************************************************************)
(* The threads of the client (src/client/client.cc) that share one          *)
(* measurement: the constructor's and the request pool's calls of           *)
(* startMeasurement and stopMeasurement, the measurement thread that runs   *)
(* pinpoint and records its samples, and the periodic upload thread.        *)
(*                                                                          *)
(* measuringMtx is taken exclusively by the calls only: writer is the call  *)
(* that holds it across several steps; the upload thread holds it shared as *)
(* long as it uploads.  The other critical sections are one step each.  The *)
(* flags ppHasExited and thisMeasurementHasWrittenOnce have locks of their  *)
(* own, so that the measurement thread sets them in between the steps of a  *)
(* start.                                                                   *)
(***************************************************************************)
EXTENDS Naturals

CONSTANTS
    Starts,          \* START_MEASUREMENT requests
    Stops,           \* STOP_MEASUREMENT requests
    FirstStart,      \* the constructor's first call of startMeasurement ...
    SecondStart,     \* ... and its second one, if the first returned false
    None,
    UploadMinutesOf, \* upload interval among the settings of a START request
    MaxFailures      \* failures of pinpoint, of the database and of starts

ASSUME CallsAssumption ==
    /\ FirstStart # SecondStart /\ None \notin {FirstStart, SecondStart}
    /\ {FirstStart, SecondStart, None} \cap (Starts \cup Stops) = {}
    /\ Starts \cap Stops = {}
ASSUME UploadMinutesAssumption == UploadMinutesOf \in [Starts -> Nat]
ASSUME MaxFailuresAssumption == MaxFailures \in Nat

VARIABLES
    call,         \* where each call is
    writer,       \* the call that holds measuringMtx exclusively, or None
    isMeasuring,
    internalMmtId, \* the measurement samples are recorded for, named by the
                   \* call that inserted it
    settings,     \* ppDevice and ppSamplingInterval: the START request they
                  \* came with, None for those of the configuration
    periodicUploadMinutes,
    doLastUpload,
    ppHasExited,
    hasWrittenOnce, \* thisMeasurementHasWrittenOnce
    msmtThread,   \* measurement thread
    pinpoint,     \* settings of the running pinpoint in <<>>, or <<>>
    line,         \* the measurement thread has read a part of a line
    pgcon,        \* the measurement thread's connection: in its transaction,
                  \* past the first commit, or of no more use
    uploadThread,
    rows,         \* measurement_data as (measurement, settings it was taken with)
    fresh,        \* samples were recorded that no upload has selected
    failures,
    overlapped,   \* history: a call was made while another one went on
    stopped       \* history: a stop returned and no start began since

recvars == <<rows, fresh>>
histvars == <<overlapped, stopped>>
flags == <<ppHasExited, hasWrittenOnce>>
ctlvars == <<isMeasuring, internalMmtId, settings, periodicUploadMinutes, doLastUpload>>
threadvars == <<msmtThread, pinpoint, line, pgcon>>
vars == <<call, writer, isMeasuring, internalMmtId, settings,
          periodicUploadMinutes, doLastUpload, ppHasExited, hasWrittenOnce,
          msmtThread, pinpoint, line, pgcon, uploadThread, rows, fresh,
          failures, overlapped, stopped>>

StartCalls == Starts \cup {FirstStart, SecondStart}
Calls == StartCalls \cup Stops
Settings == Starts \cup {None}
Returned == {"ignored", "refused", "started", "timedout", "failed", "stopped"}

TypeOK ==
    /\ call \in [Calls -> {"idle", "checked", "applied", "logged", "reset", "ready",
                           "begun", "ending"} \cup Returned]
    /\ writer \in StartCalls \cup {None}
    /\ isMeasuring \in BOOLEAN /\ doLastUpload \in BOOLEAN
    /\ internalMmtId \in StartCalls \cup {None}
    /\ settings \in Settings
    /\ periodicUploadMinutes \in Nat
    /\ ppHasExited \in BOOLEAN /\ hasWrittenOnce \in BOOLEAN
    /\ msmtThread \in {"waiting", "woken", "forking", "reading", "inserted",
                       "checking", "leaving", "gone"}
    /\ pinpoint \in {<<>>} \cup {<<s>> : s \in Settings}
    /\ line \in BOOLEAN
    /\ pgcon \in {"closed", "begun", "committed", "failed"}
    /\ uploadThread \in {"looping", "idling", "uploading", "pausing"}
    /\ rows \subseteq StartCalls \X Settings
    /\ fresh \in BOOLEAN
    /\ failures \in Nat
    /\ overlapped \in BOOLEAN /\ stopped \in BOOLEAN

\* The constructor has started the threads and calls startMeasurement.
Init ==
    /\ call = [c \in Calls |-> IF c = FirstStart THEN "applied" ELSE "idle"]
    /\ writer = None
    /\ isMeasuring = FALSE
    /\ internalMmtId = None
    /\ settings = None
    /\ periodicUploadMinutes = 5
    /\ doLastUpload = FALSE
    /\ ppHasExited = TRUE /\ hasWrittenOnce = FALSE
    /\ msmtThread = "waiting" /\ pinpoint = <<>> /\ line = FALSE /\ pgcon = "closed"
    /\ uploadThread = "looping"
    /\ rows = {} /\ fresh = FALSE
    /\ failures = 0
    /\ overlapped = FALSE /\ stopped = FALSE

CallAt(c, pc) == call[c] = pc
Goes(c, pc) == call' = [call EXCEPT ![c] = pc]
InCall(c) == ~CallAt(c, "idle") /\ call[c] \notin Returned

\* A call is made, maybe while others go on.
Enter(c) ==
    /\ CallAt(c, "idle")
    /\ overlapped' = (overlapped \/ \E d \in Calls : InCall(d))

\* Shared and exclusive access to measuringMtx.
Readable == writer = None
Writable == writer = None /\ uploadThread # "uploading"

Failure == failures < MaxFailures /\ failures' = failures + 1

-----------------------------------------------------------------------------
(* handleMeasurementStart.                                                  *)

\* Faulty variant: START_MEASUREMENT is not refused while measuring.
HandleAnyStart(c) ==
    /\ Enter(c)
    /\ Readable
    /\ Goes(c, "checked")
    /\ UNCHANGED <<writer, ctlvars, flags, threadvars, uploadThread, recvars,
                   failures, stopped>>

\* measuring() is read without keeping the lock.
HandleStart(c) ==
    /\ Enter(c)
    /\ Readable
    /\ Goes(c, IF isMeasuring THEN "ignored" ELSE "checked")
    /\ UNCHANGED <<writer, ctlvars, flags, threadvars, uploadThread, recvars,
                   failures, stopped>>

\* The settings are for another client, or not valid.
RefuseSettings(c) ==
    /\ CallAt(c, "checked")
    /\ Goes(c, "refused")
    /\ UNCHANGED <<writer, ctlvars, flags, threadvars, uploadThread, recvars,
                   failures, histvars>>

\* Faulty variant: the interval is taken over although the request has none.
ApplyNoInterval(c) ==
    /\ CallAt(c, "checked")
    /\ Writable
    /\ settings' = c
    /\ periodicUploadMinutes' = None
    /\ Goes(c, "applied")
    /\ UNCHANGED <<writer, isMeasuring, internalMmtId, doLastUpload, flags,
                   threadvars, uploadThread, recvars, failures, histvars>>

ApplySettings(c) ==
    /\ CallAt(c, "checked")
    /\ Writable
    /\ settings' = c
    /\ periodicUploadMinutes' = UploadMinutesOf[c]
    /\ Goes(c, "applied")
    /\ UNCHANGED <<writer, isMeasuring, internalMmtId, doLastUpload, flags,
                   threadvars, uploadThread, recvars, failures, histvars>>

-----------------------------------------------------------------------------
(* startMeasurement.  From the INSERT of the measurement to setMeasuring it *)
(* holds measuringMtx.                                                      *)

LogMeasurement(c) ==
    /\ CallAt(c, "applied")
    /\ Writable
    /\ writer' = c
    /\ internalMmtId' = c
    /\ Goes(c, "logged")
    /\ UNCHANGED <<isMeasuring, settings, periodicUploadMinutes, doLastUpload,
                   flags, threadvars, uploadThread, recvars, failures, histvars>>

LogMeasurementFails(c) ==
    /\ Failure
    /\ CallAt(c, "applied")
    /\ Writable
    /\ Goes(c, "failed")
    /\ UNCHANGED <<writer, ctlvars, flags, threadvars, uploadThread, recvars, histvars>>

\* Faulty variant: the flag of the measurement before is kept.
KeepWrittenOnce(c) ==
    /\ CallAt(c, "logged")
    /\ Goes(c, "reset")
    /\ UNCHANGED <<writer, ctlvars, flags, threadvars, uploadThread, recvars,
                   failures, histvars>>

ResetWrittenOnce(c) ==
    /\ CallAt(c, "logged")
    /\ hasWrittenOnce' = FALSE
    /\ Goes(c, "reset")
    /\ UNCHANGED <<writer, ctlvars, ppHasExited, threadvars, uploadThread,
                   recvars, failures, histvars>>

ResetHasExited(c) ==
    /\ CallAt(c, "reset")
    /\ ppHasExited' = TRUE
    /\ Goes(c, "ready")
    /\ UNCHANGED <<writer, ctlvars, hasWrittenOnce, threadvars, uploadThread,
                   recvars, failures, histvars>>

BeginMeasuring(c) ==
    /\ CallAt(c, "ready")
    /\ isMeasuring' = TRUE
    /\ writer' = None
    /\ stopped' = FALSE
    /\ Goes(c, "begun")
    /\ UNCHANGED <<internalMmtId, settings, periodicUploadMinutes, doLastUpload,
                   flags, threadvars, uploadThread, recvars, failures, overlapped>>

ReportStarted(c) ==
    /\ CallAt(c, "begun")
    /\ hasWrittenOnce
    /\ Goes(c, "started")
    /\ UNCHANGED <<writer, ctlvars, flags, threadvars, uploadThread, recvars,
                   failures, histvars>>

\* No sample was written for 30 seconds and more.
StartTimesOut(c) ==
    /\ Failure \/ (pgcon = "failed" /\ UNCHANGED failures)
    /\ CallAt(c, "begun")
    /\ ~hasWrittenOnce
    /\ Goes(c, "timedout")
    /\ UNCHANGED <<writer, ctlvars, flags, threadvars, uploadThread, recvars, histvars>>

\* The constructor tries a second time, five seconds later.
RetryStart ==
    /\ call[FirstStart] \in {"timedout", "failed"}
    /\ Enter(SecondStart)
    /\ Goes(SecondStart, "applied")
    /\ UNCHANGED <<writer, ctlvars, flags, threadvars, uploadThread, recvars,
                   failures, stopped>>

-----------------------------------------------------------------------------
(* stopMeasurement.                                                         *)

EndMeasuring(c) ==
    /\ Enter(c)
    /\ Writable
    /\ doLastUpload' = (doLastUpload \/ periodicUploadMinutes # 0)
    /\ isMeasuring' = FALSE
    /\ Goes(c, "ending")
    /\ UNCHANGED <<writer, internalMmtId, settings, periodicUploadMinutes, flags,
                   threadvars, uploadThread, recvars, failures, stopped>>

AwaitExit(c) ==
    /\ CallAt(c, "ending")
    /\ ppHasExited
    /\ Goes(c, "stopped")
    /\ stopped' = ~isMeasuring
    /\ UNCHANGED <<writer, ctlvars, flags, threadvars, uploadThread, recvars,
                   failures, overlapped>>

-----------------------------------------------------------------------------
(* getAndSavePpData, the measurement thread.                                *)

ThreadGoes(from, to) == msmtThread = from /\ msmtThread' = to

WakeToMeasure ==
    /\ ThreadGoes("waiting", "woken")
    /\ Readable /\ isMeasuring
    /\ UNCHANGED <<call, writer, ctlvars, flags, pinpoint, line, pgcon,
                   uploadThread, recvars, failures, histvars>>

\* Faulty variants: the flag is not cleared when pinpoint starts, and not set
\* when pinpoint has exited on its own.
KeepHasExited ==
    /\ ThreadGoes("woken", "forking")
    /\ UNCHANGED <<call, writer, ctlvars, flags, pinpoint, line, pgcon,
                   uploadThread, recvars, failures, histvars>>
ReapUnseen ==
    /\ ThreadGoes("leaving", "waiting")
    /\ pinpoint' = <<>>
    /\ UNCHANGED <<call, writer, ctlvars, flags, line, pgcon, uploadThread, recvars,
                   failures, histvars>>
\* Faulty variant: the thread does not start a second pinpoint.
ReapForGood ==
    /\ ThreadGoes("leaving", "ended")
    /\ pinpoint' = <<>>
    /\ ppHasExited' = TRUE
    /\ UNCHANGED <<call, writer, ctlvars, hasWrittenOnce, line, pgcon,
                   uploadThread, recvars, failures, histvars>>

ClearHasExited ==
    /\ ThreadGoes("woken", "forking")
    /\ ppHasExited' = FALSE
    /\ UNCHANGED <<call, writer, ctlvars, hasWrittenOnce, pinpoint, line,
                   pgcon, uploadThread, recvars, failures, histvars>>

\* No pipe: the thread returns, and nobody starts it again.
PipeFails ==
    /\ Failure
    /\ ThreadGoes("woken", "gone")
    /\ UNCHANGED <<call, writer, ctlvars, flags, pinpoint, line, pgcon,
                   uploadThread, recvars, histvars>>

\* The child execs pinpoint with the settings of this moment.
ForkPinpoint ==
    /\ ThreadGoes("forking", "reading")
    /\ pinpoint' = <<settings>>
    /\ line' = FALSE
    /\ pgcon' = "begun"
    /\ UNCHANGED <<call, writer, ctlvars, flags, uploadThread, recvars, failures,
                   histvars>>

ReadCharacter ==
    /\ ThreadGoes("reading", "checking")
    /\ line' = TRUE
    /\ UNCHANGED <<call, writer, ctlvars, flags, pinpoint, pgcon, uploadThread,
                   recvars, failures, histvars>>

\* The end of a line: the sample is inserted for the measurement of now.  All
\* inserts for a pinpoint use one connection, which is in a transaction until
\* the first of them is committed and then commits each for itself.
InsertSample ==
    /\ line
    /\ pgcon # "failed"
    /\ ThreadGoes("reading", "inserted")
    /\ line' = FALSE
    /\ pgcon' = "committed"
    /\ rows' = rows \cup {<<internalMmtId, pinpoint[1]>>}
    /\ fresh' = TRUE
    /\ UNCHANGED <<call, writer, ctlvars, flags, pinpoint, uploadThread, failures,
                   histvars>>

\* The exception is caught and the loop goes on with the same connection: a
\* broken one, or one whose first transaction was aborted, fails all that
\* follow.
InsertFails ==
    /\ Failure
    /\ line
    /\ pgcon # "failed"
    /\ ThreadGoes("reading", "checking")
    /\ line' = FALSE
    /\ pgcon' = "failed" \/ (pgcon = "committed" /\ UNCHANGED pgcon)
    /\ UNCHANGED <<call, writer, ctlvars, flags, pinpoint, uploadThread, recvars,
                   histvars>>

InsertFailsAgain ==
    /\ line
    /\ pgcon = "failed"
    /\ ThreadGoes("reading", "checking")
    /\ line' = FALSE
    /\ UNCHANGED <<call, writer, ctlvars, flags, pinpoint, pgcon, uploadThread,
                   recvars, failures, histvars>>

ReportWritten ==
    /\ ThreadGoes("inserted", "checking")
    /\ hasWrittenOnce' = TRUE
    /\ UNCHANGED <<call, writer, ctlvars, ppHasExited, pinpoint, line,
                   pgcon, uploadThread, recvars, failures, histvars>>

\* After every character.
CheckMeasuring ==
    /\ Readable
    /\ ThreadGoes("checking", IF isMeasuring THEN "reading" ELSE "leaving")
    /\ pgcon' = IF isMeasuring THEN pgcon ELSE "closed"
    /\ UNCHANGED <<call, writer, ctlvars, flags, pinpoint, line, uploadThread,
                   recvars, failures, histvars>>

\* Pinpoint exits or is killed after a timeout, or the thread has no
\* connection to its database to begin with.
LosePinpoint ==
    /\ Failure
    /\ ThreadGoes("reading", "leaving")
    /\ pgcon' = "closed"
    /\ UNCHANGED <<call, writer, ctlvars, flags, pinpoint, line, uploadThread,
                   recvars, histvars>>

\* Killed, or by SIGPIPE, pinpoint exits; the thread waits for that.
ReapPinpoint ==
    /\ ThreadGoes("leaving", "waiting")
    /\ pinpoint' = <<>>
    /\ ppHasExited' = TRUE
    /\ UNCHANGED <<call, writer, ctlvars, hasWrittenOnce, line, pgcon,
                   uploadThread, recvars, failures, histvars>>

-----------------------------------------------------------------------------
(* doPeriodicDataUpload, the upload thread.                                 *)

UploadGoes(from, to) == uploadThread = from /\ uploadThread' = to

UploadWanted == isMeasuring \/ doLastUpload
UploadForbidden == periodicUploadMinutes = 0 /\ ~doLastUpload

StartUpload ==
    /\ UploadGoes("looping", "uploading")
    /\ Readable /\ UploadWanted /\ ~UploadForbidden
    /\ fresh' = FALSE
    /\ UNCHANGED <<call, writer, ctlvars, flags, threadvars, rows, failures, histvars>>

\* With an interval of 0 the thread waits for the end of the measurement ...
StartIdling ==
    /\ UploadGoes("looping", "idling")
    /\ Readable /\ UploadWanted /\ UploadForbidden
    /\ UNCHANGED <<call, writer, ctlvars, flags, threadvars, recvars, failures, histvars>>

\* ... and sees it only if no other has begun when it gets the lock again.
StopIdling ==
    /\ UploadGoes("idling", "looping")
    /\ Readable /\ ~isMeasuring
    /\ UNCHANGED <<call, writer, ctlvars, flags, threadvars, recvars, failures, histvars>>

EndUpload ==
    /\ UploadGoes("uploading", "pausing")
    /\ doLastUpload' = FALSE
    /\ UNCHANGED <<call, writer, isMeasuring, internalMmtId, settings,
                   periodicUploadMinutes, flags, threadvars, recvars, failures,
                   histvars>>

\* Any notification ends the pause, and so does the end of the interval.
EndPause ==
    /\ UploadGoes("pausing", "looping")
    /\ Readable
    /\ UNCHANGED <<call, writer, ctlvars, flags, threadvars, recvars, failures, histvars>>

-----------------------------------------------------------------------------
Recording ==
    \/ WakeToMeasure \/ ClearHasExited \/ ForkPinpoint \/ ReadCharacter
    \/ InsertSample \/ InsertFailsAgain \/ ReportWritten \/ CheckMeasuring \/ ReapPinpoint

Uploading == StartUpload \/ StartIdling \/ StopIdling \/ EndUpload \/ EndPause

StartMeasurement(c) ==
    \/ LogMeasurement(c) \/ ResetWrittenOnce(c) \/ ResetHasExited(c)
    \/ BeginMeasuring(c) \/ ReportStarted(c)

Next ==
    \/ \E c \in Starts : HandleStart(c) \/ RefuseSettings(c) \/ ApplySettings(c)
    \/ \E c \in StartCalls :
          StartMeasurement(c) \/ LogMeasurementFails(c) \/ StartTimesOut(c)
    \/ RetryStart
    \/ \E c \in Stops : EndMeasuring(c) \/ AwaitExit(c)
    \/ Recording \/ PipeFails \/ InsertFails \/ LosePinpoint
    \/ Uploading

Spec == Init /\ [][Next]_vars

\* Every thread goes on when it can.  A pinpoint that lives writes lines, and a
\* line has an end.  Nobody has to send a request, and nothing has to fail.
Fairness ==
    /\ \A c \in StartCalls : WF_vars(StartMeasurement(c))
    /\ \A c \in Starts : WF_vars(ApplySettings(c))
    /\ \A c \in Stops : WF_vars(AwaitExit(c))
    /\ WF_vars(Recording) /\ SF_vars(InsertSample)
    /\ WF_vars(Uploading)

FairSpec == Spec /\ Fairness

-----------------------------------------------------------------------------
(* Properties.                                                              *)

\* One call after the other and nothing failed.
Orderly == ~overlapped /\ failures = 0

\* After a stop has returned there is no pinpoint before the next start, and no
\* sample is recorded, although nobody tells the measurement thread to finish:
\* it has to look, and the stop to wait for it.
StoppedIsQuiet == Orderly /\ stopped => pinpoint = <<>> /\ msmtThread = "waiting"

\* A sample was taken by a pinpoint that was started for its measurement, with
\* the device and the interval that the measurement was started with.
SettingsOf(m) == IF m \in Starts THEN m ELSE None
OwnSettings == Orderly => \A r \in rows : r[2] = SettingsOf(r[1])

\* A start that returned successfully has a sample of its measurement to show.
StartedHasRows ==
    Orderly => \A c \in StartCalls : CallAt(c, "started") => \E r \in rows : r[1] = c

\* A stop returns, unless another start comes between pinpoint's exit and the
\* moment the stop notices it.
StopReturns ==
    \A c \in Stops : CallAt(c, "ending") ~> (CallAt(c, "stopped") \/ isMeasuring)

\* Whatever ends a pinpoint, the measurement thread starts another one and
\* records again with a new connection, as long as it is measuring, unless
\* inserts fail for that one too: then it is the end of this pinpoint that the
\* next recording waits for.
RecordingResumes ==
    (isMeasuring /\ pinpoint = <<>>) ~>
        (msmtThread \in {"inserted", "gone"} \/ ~isMeasuring \/ pgcon = "failed")

\* "The data of the database gets uploaded periodically to the server"
\* (README.md:17): as long as a measurement has an upload interval.
UploadsGoOn ==
    <>[](isMeasuring /\ periodicUploadMinutes # 0) => []<>(uploadThread = "uploading")
=============================================================================
