----------------------- MODULE MeasurementControlProofs -----------------------
(***************************************************************************)
(* MeasurementControl, for any number of START and STOP requests and of     *)
(* failures: as long as calls do not overlap and nothing fails, a stop is   *)
(* final, a start that succeeds has a sample to show, and samples belong to *)
(* their measurement's settings.                                            *)
(***************************************************************************)
EXTENDS MeasurementControl, TLAPS

-----------------------------------------------------------------------------
(* What holds in all circumstances.                                         *)

\* There is a pinpoint from the fork until it is reaped.
PinpointOfThread ==
    pinpoint # <<>> <=> msmtThread \in {"reading", "inserted", "checking", "leaving"}

Holding == {"logged", "reset", "ready"}

\* Nobody measures for no measurement.
MeasurementNamed ==
    /\ isMeasuring \/ msmtThread # "waiting" => internalMmtId # None
    /\ \A c \in Calls : call[c] \in Holding => internalMmtId # None

CallKinds ==
    /\ \A c \in StartCalls : call[c] \notin {"ending", "stopped"}
    /\ \A c \in Stops : call[c] \in {"idle", "ending", "stopped"}

FailuresCounted ==
    /\ \A c \in Calls : call[c] \in {"timedout", "failed"} => failures # 0
    /\ msmtThread = "gone" => failures # 0
    /\ pgcon = "failed" => failures # 0

-----------------------------------------------------------------------------
(* What holds as long as calls do not overlap and nothing fails.            *)

OneCall == \A c, d \in Calls : InCall(c) /\ InCall(d) => c = d

\* A start that has found the client idle is the next to measure.
StartsWhileIdle ==
    \A c \in StartCalls :
        /\ call[c] \in {"checked", "applied"} \cup Holding => ~isMeasuring
        /\ CallAt(c, "begun") => isMeasuring

StartSettings ==
    \A c \in StartCalls :
        /\ call[c] \in {"applied", "begun"} \cup Holding => settings = SettingsOf(c)
        /\ call[c] \in {"begun"} \cup Holding => internalMmtId = c

\* The flag that a start waits for was reset before it is set.
WrittenOnceReset ==
    /\ \A c \in StartCalls : call[c] \in {"reset", "ready"} => ~hasWrittenOnce
    /\ isMeasuring => hasWrittenOnce \/ \E c \in StartCalls : CallAt(c, "begun")

\* What the flag that a stop waits for says of the measurement thread.
HasExitedTells ==
    /\ ppHasExited <=> msmtThread \in {"waiting", "woken"}
    /\ isMeasuring /\ hasWrittenOnce => msmtThread \in {"reading", "inserted", "checking"}

\* The thread is idle unless a measurement goes on or a stop waits for its end.
ThreadIdle ==
    /\ ~isMeasuring /\ (\A c \in Stops : ~CallAt(c, "ending")) => msmtThread = "waiting"
    /\ \A c \in Stops : CallAt(c, "ending") => ~isMeasuring /\ msmtThread \notin {"woken", "forking"}
    /\ stopped => ~isMeasuring /\ msmtThread = "waiting"

\* Its pinpoint was started with the settings of the measurement.
PinpointSettings ==
    /\ isMeasuring \/ msmtThread # "waiting" => settings = SettingsOf(internalMmtId)
    /\ pinpoint # <<>> => pinpoint = <<SettingsOf(internalMmtId)>>

HasRow(c) == \E r \in rows : r[1] = c
RowsWritten ==
    /\ msmtThread = "inserted" => HasRow(internalMmtId)
    /\ isMeasuring /\ hasWrittenOnce => HasRow(internalMmtId)
    /\ \A c \in StartCalls : CallAt(c, "started") => HasRow(c)
    /\ \A r \in rows : r[2] = SettingsOf(r[1])

OrderlyInv ==
    /\ OneCall /\ StartsWhileIdle /\ StartSettings /\ WrittenOnceReset /\ HasExitedTells
    /\ ThreadIdle /\ PinpointSettings /\ RowsWritten

IInv ==
    /\ TypeOK /\ PinpointOfThread /\ MeasurementNamed /\ CallKinds /\ FailuresCounted
    /\ Orderly => OrderlyInv

-----------------------------------------------------------------------------
(* Steps.                                                                   *)

PCs == {"idle", "checked", "applied", "logged", "reset", "ready", "begun", "ending"} \cup Returned

LEMMA CallTypes == StartCalls \subseteq Calls /\ Stops \subseteq Calls /\ Starts \subseteq StartCalls
                   /\ FirstStart \in StartCalls /\ SecondStart \in StartCalls
                   /\ StartCalls \cap Stops = {} /\ None \notin Calls
  BY CallsAssumption DEF StartCalls, Calls

LEMMA GoesCall ==
  ASSUME TypeOK, NEW c \in Calls, NEW pc \in PCs, Goes(c, pc)
  PROVE  /\ call' \in [Calls -> PCs]
         /\ call'[c] = pc
         /\ \A d \in Calls \ {c} : call'[d] = call[d]
  BY DEF TypeOK, Goes, PCs

LEMMA InitIInv == Init => IInv
<1> SUFFICES ASSUME Init PROVE IInv
  OBVIOUS
<1> USE CallTypes DEF Init
<1>1. TypeOK
  BY DEF TypeOK, Settings
<1>2. PinpointOfThread /\ MeasurementNamed /\ CallKinds /\ FailuresCounted
  BY DEF PinpointOfThread, MeasurementNamed, CallKinds, FailuresCounted, Holding
<1>3. OneCall /\ StartsWhileIdle /\ WrittenOnceReset /\ HasExitedTells
  BY DEF OneCall, StartsWhileIdle, WrittenOnceReset, HasExitedTells, InCall, CallAt, Holding
<1>4. ThreadIdle /\ PinpointSettings /\ RowsWritten
  BY DEF ThreadIdle, PinpointSettings, RowsWritten, HasRow, CallAt
<1>5. StartSettings
  BY CallsAssumption DEF StartSettings, SettingsOf, Holding
<1> QED
  BY <1>1, <1>2, <1>3, <1>4, <1>5 DEF IInv, OrderlyInv

-----------------------------------------------------------------------------
(* The upload thread.                                                      *)

\* What neither the calls nor the measurement thread have to do with.
LEMMA UploadIInv == ASSUME IInv, Uploading PROVE IInv'
<1> USE DEF Uploading, StartUpload, StartIdling, StopIdling, EndUpload, EndPause, UploadGoes,
            ctlvars, flags, threadvars, recvars, histvars
<1>1. UNCHANGED <<call, writer, isMeasuring, internalMmtId, settings, periodicUploadMinutes, flags,
                  threadvars, rows, failures, histvars>>
  OBVIOUS
<1>2. TypeOK'
  <2>1. /\ uploadThread' \in {"looping", "idling", "uploading", "pausing"}
        /\ doLastUpload' \in BOOLEAN /\ fresh' \in BOOLEAN
    BY DEF IInv, TypeOK
  <2> QED
    BY <1>1, <2>1 DEF IInv, TypeOK
<1>3. PinpointOfThread' /\ MeasurementNamed' /\ CallKinds' /\ FailuresCounted'
  BY <1>1 DEF IInv, PinpointOfThread, MeasurementNamed, CallKinds, FailuresCounted
<1>4. OrderlyInv => OrderlyInv'
  BY <1>1 DEF OrderlyInv, OneCall, StartsWhileIdle, StartSettings, WrittenOnceReset, HasExitedTells,
              ThreadIdle, PinpointSettings, RowsWritten, HasRow, InCall, CallAt
<1> QED
  BY <1>1, <1>2, <1>3, <1>4 DEF IInv, Orderly

-----------------------------------------------------------------------------
(* The calls.                                                               *)

\* A call moves on, and the rest of the state, as far as it changes, keeps its
\* type.
LEMMA CallMoves ==
  ASSUME TypeOK, NEW c \in Calls, NEW pc \in PCs, Goes(c, pc),
         UNCHANGED <<threadvars, uploadThread, recvars>>,
         writer' \in StartCalls \cup {None}, isMeasuring' \in BOOLEAN, doLastUpload' \in BOOLEAN,
         internalMmtId' \in StartCalls \cup {None}, settings' \in Settings,
         periodicUploadMinutes' \in Nat, ppHasExited' \in BOOLEAN, hasWrittenOnce' \in BOOLEAN,
         failures' \in Nat, overlapped' \in BOOLEAN, stopped' \in BOOLEAN
  PROVE  /\ TypeOK'
         /\ call'[c] = pc
         /\ \A d \in Calls \ {c} : call'[d] = call[d]
<1>1. /\ call' \in [Calls -> PCs]
      /\ call'[c] = pc
      /\ \A d \in Calls \ {c} : call'[d] = call[d]
  BY GoesCall
<1>2. TypeOK'
  BY <1>1 DEF TypeOK, PCs, threadvars, recvars
<1> QED
  BY <1>1, <1>2

\* A call that is made while the others do not overlap is the only one.
LEMMA EntersAlone ==
  ASSUME TypeOK, NEW c \in Calls, Enter(c), ~overlapped'
  PROVE  ~overlapped /\ \A d \in Calls : ~InCall(d)
  BY DEF Enter, TypeOK

LEMMA HandleStartIInv ==
  ASSUME IInv, NEW c \in Starts, HandleStart(c)
  PROVE  IInv'
<1> USE CallTypes DEF HandleStart, ctlvars, flags, threadvars, recvars, histvars
<1>1. /\ TypeOK'
      /\ call'[c] = IF isMeasuring THEN "ignored" ELSE "checked"
      /\ \A d \in Calls \ {c} : call'[d] = call[d]
  BY CallMoves DEF IInv, TypeOK, PCs, Returned, Enter, Failure
<1>2. PinpointOfThread' /\ MeasurementNamed' /\ CallKinds' /\ FailuresCounted'
  BY <1>1 DEF IInv, TypeOK, CallAt, Enter, Failure,
     PinpointOfThread, MeasurementNamed, CallKinds, FailuresCounted, Holding
<1>3. ASSUME Orderly' PROVE OrderlyInv'
  <2>1. OrderlyInv /\ \A d \in Calls : ~InCall(d)
    BY <1>3, EntersAlone DEF IInv, Orderly
  <2> USE <1>1, <2>1 DEF IInv, TypeOK, OrderlyInv, InCall, CallAt, Enter, Returned
  <2>2. OneCall'
    BY DEF OneCall
  <2>3. StartsWhileIdle'
    BY DEF StartsWhileIdle, Holding
  <2>4. StartSettings'
    BY DEF StartSettings, Holding
  <2>5. WrittenOnceReset'
    BY DEF WrittenOnceReset
  <2>6. HasExitedTells'
    BY DEF HasExitedTells
  <2>7. ThreadIdle'
    BY DEF ThreadIdle
  <2>8. PinpointSettings'
    BY DEF PinpointSettings
  <2>9. RowsWritten'
    BY DEF RowsWritten, HasRow
  <2> QED
    BY <2>2, <2>3, <2>4, <2>5, <2>6, <2>7, <2>8, <2>9 DEF OrderlyInv
<1> QED
  BY <1>1, <1>2, <1>3 DEF IInv

LEMMA RefuseSettingsIInv ==
  ASSUME IInv, NEW c \in Starts, RefuseSettings(c)
  PROVE  IInv'
<1> USE CallTypes DEF RefuseSettings, ctlvars, flags, threadvars, recvars, histvars
<1>1. /\ TypeOK'
      /\ call'[c] = "refused"
      /\ \A d \in Calls \ {c} : call'[d] = call[d]
  BY CallMoves DEF IInv, TypeOK, PCs, Returned, Enter, Failure
<1>2. PinpointOfThread' /\ MeasurementNamed' /\ CallKinds' /\ FailuresCounted'
  BY <1>1 DEF IInv, TypeOK, CallAt, Enter, Failure,
     PinpointOfThread, MeasurementNamed, CallKinds, FailuresCounted, Holding
<1>3. ASSUME Orderly' PROVE OrderlyInv'
  <2>1. OrderlyInv /\ InCall(c) /\ \A d \in Calls \ {c} : ~InCall(d)
    BY <1>3 DEF IInv, Orderly, OrderlyInv, OneCall, InCall, CallAt, Returned
  <2> USE <1>1, <2>1 DEF IInv, TypeOK, OrderlyInv, InCall, CallAt, Enter, Returned
  <2>2. OneCall'
    BY DEF OneCall
  <2>3. StartsWhileIdle'
    BY DEF StartsWhileIdle, Holding
  <2>4. StartSettings'
    BY DEF StartSettings, Holding
  <2>5. WrittenOnceReset'
    BY DEF WrittenOnceReset
  <2>6. HasExitedTells'
    BY DEF HasExitedTells
  <2>7. ThreadIdle'
    BY DEF ThreadIdle
  <2>8. PinpointSettings'
    BY DEF PinpointSettings
  <2>9. RowsWritten'
    BY DEF RowsWritten, HasRow
  <2> QED
    BY <2>2, <2>3, <2>4, <2>5, <2>6, <2>7, <2>8, <2>9 DEF OrderlyInv
<1> QED
  BY <1>1, <1>2, <1>3 DEF IInv

LEMMA ApplySettingsIInv ==
  ASSUME IInv, NEW c \in Starts, ApplySettings(c)
  PROVE  IInv'
<1> USE CallTypes DEF ApplySettings, ctlvars, flags, threadvars, recvars, histvars
<1>1. /\ TypeOK'
      /\ call'[c] = "applied"
      /\ \A d \in Calls \ {c} : call'[d] = call[d]
  BY CallMoves, UploadMinutesAssumption DEF IInv, TypeOK, PCs, Returned, Enter, Failure, Settings
<1>2. PinpointOfThread' /\ MeasurementNamed' /\ CallKinds' /\ FailuresCounted'
  BY <1>1 DEF IInv, TypeOK, CallAt, Enter, Failure,
     PinpointOfThread, MeasurementNamed, CallKinds, FailuresCounted, Holding
<1>3. ASSUME Orderly' PROVE OrderlyInv'
  <2>1. OrderlyInv /\ InCall(c) /\ \A d \in Calls \ {c} : ~InCall(d)
    BY <1>3 DEF IInv, Orderly, OrderlyInv, OneCall, InCall, CallAt, Returned
  <2> USE <1>1, <2>1 DEF IInv, TypeOK, OrderlyInv, InCall, CallAt, Enter, Returned
  <2>2. ~isMeasuring /\ msmtThread = "waiting" /\ pinpoint = <<>>
    BY DEF StartsWhileIdle, ThreadIdle, PinpointOfThread, Holding
  <2>3. OneCall'
    BY DEF OneCall
  <2>4. StartsWhileIdle'
    BY DEF StartsWhileIdle, Holding
  <2>5. StartSettings'
    BY DEF StartSettings, Holding, SettingsOf
  <2>6. WrittenOnceReset'
    BY DEF WrittenOnceReset
  <2>7. HasExitedTells'
    BY DEF HasExitedTells
  <2>8. ThreadIdle'
    BY DEF ThreadIdle
  <2>9. PinpointSettings'
    BY <2>2 DEF PinpointSettings
  <2>10. RowsWritten'
    BY DEF RowsWritten, HasRow
  <2> QED
    BY <2>3, <2>4, <2>5, <2>6, <2>7, <2>8, <2>9, <2>10 DEF OrderlyInv
<1> QED
  BY <1>1, <1>2, <1>3 DEF IInv

\* From here to BeginMeasuring the measurement thread waits: there is nothing
\* that could set the flags between their resets.
LEMMA LogMeasurementIInv ==
  ASSUME IInv, NEW c \in StartCalls, LogMeasurement(c)
  PROVE  IInv'
<1> USE CallTypes DEF LogMeasurement, ctlvars, flags, threadvars, recvars, histvars
<1>1. /\ TypeOK'
      /\ call'[c] = "logged"
      /\ \A d \in Calls \ {c} : call'[d] = call[d]
  BY CallMoves DEF IInv, TypeOK, PCs, Returned, Enter, Failure
<1>2. PinpointOfThread' /\ MeasurementNamed' /\ CallKinds' /\ FailuresCounted'
  BY <1>1 DEF IInv, TypeOK, CallAt, Enter, Failure,
     PinpointOfThread, MeasurementNamed, CallKinds, FailuresCounted, Holding
<1>3. ASSUME Orderly' PROVE OrderlyInv'
  <2>1. OrderlyInv /\ InCall(c) /\ \A d \in Calls \ {c} : ~InCall(d)
    BY <1>3 DEF IInv, Orderly, OrderlyInv, OneCall, InCall, CallAt, Returned
  <2> USE <1>1, <2>1 DEF IInv, TypeOK, OrderlyInv, InCall, CallAt, Enter, Returned
  <2>2. ~isMeasuring /\ msmtThread = "waiting" /\ pinpoint = <<>>
    BY DEF StartsWhileIdle, ThreadIdle, PinpointOfThread, Holding
  <2>3. OneCall'
    BY DEF OneCall
  <2>4. StartsWhileIdle'
    BY DEF StartsWhileIdle, Holding
  <2>5. StartSettings'
    BY DEF StartSettings, Holding
  <2>6. WrittenOnceReset'
    BY DEF WrittenOnceReset
  <2>7. HasExitedTells'
    BY DEF HasExitedTells
  <2>8. ThreadIdle'
    BY DEF ThreadIdle
  <2>9. PinpointSettings'
    BY <2>2 DEF PinpointSettings
  <2>10. RowsWritten'
    BY <2>2 DEF RowsWritten, HasRow
  <2> QED
    BY <2>3, <2>4, <2>5, <2>6, <2>7, <2>8, <2>9, <2>10 DEF OrderlyInv
<1> QED
  BY <1>1, <1>2, <1>3 DEF IInv

LEMMA LogMeasurementFailsIInv ==
  ASSUME IInv, NEW c \in StartCalls, LogMeasurementFails(c)
  PROVE  IInv'
<1> USE CallTypes DEF LogMeasurementFails, ctlvars, flags, threadvars, recvars, histvars
<1>1. /\ TypeOK'
      /\ call'[c] = "failed"
      /\ \A d \in Calls \ {c} : call'[d] = call[d]
  BY CallMoves DEF IInv, TypeOK, PCs, Returned, Enter, Failure
<1>2. PinpointOfThread' /\ MeasurementNamed' /\ CallKinds' /\ FailuresCounted'
  BY <1>1 DEF IInv, TypeOK, CallAt, Enter, Failure,
     PinpointOfThread, MeasurementNamed, CallKinds, FailuresCounted, Holding
<1>3. ~Orderly'
  BY DEF FailuresCounted, Orderly, Failure, IInv, TypeOK
<1> QED
  BY <1>1, <1>2, <1>3 DEF IInv

LEMMA ResetWrittenOnceIInv ==
  ASSUME IInv, NEW c \in StartCalls, ResetWrittenOnce(c)
  PROVE  IInv'
<1> USE CallTypes DEF ResetWrittenOnce, ctlvars, flags, threadvars, recvars, histvars
<1>1. /\ TypeOK'
      /\ call'[c] = "reset"
      /\ \A d \in Calls \ {c} : call'[d] = call[d]
  BY CallMoves, ZenonT(40) DEF IInv, TypeOK, PCs, Returned, Enter, Failure
<1>2. PinpointOfThread' /\ MeasurementNamed' /\ CallKinds' /\ FailuresCounted'
  BY <1>1 DEF IInv, TypeOK, CallAt, Enter, Failure,
     PinpointOfThread, MeasurementNamed, CallKinds, FailuresCounted, Holding
<1>3. ASSUME Orderly' PROVE OrderlyInv'
  <2>1. OrderlyInv /\ InCall(c) /\ \A d \in Calls \ {c} : ~InCall(d)
    BY <1>3 DEF IInv, Orderly, OrderlyInv, OneCall, InCall, CallAt, Returned
  <2> USE <1>1, <2>1 DEF IInv, TypeOK, OrderlyInv, InCall, CallAt, Enter, Returned
  <2>2. ~isMeasuring /\ msmtThread = "waiting" /\ pinpoint = <<>>
    BY DEF StartsWhileIdle, ThreadIdle, PinpointOfThread, Holding
  <2>3. OneCall'
    BY DEF OneCall
  <2>4. StartsWhileIdle'
    BY DEF StartsWhileIdle, Holding
  <2>5. StartSettings'
    BY DEF StartSettings, Holding
  <2>6. WrittenOnceReset'
    BY <2>2 DEF WrittenOnceReset
  <2>7. HasExitedTells'
    BY DEF HasExitedTells
  <2>8. ThreadIdle'
    BY DEF ThreadIdle
  <2>9. PinpointSettings'
    BY DEF PinpointSettings
  <2>10. RowsWritten'
    BY DEF RowsWritten, HasRow
  <2> QED
    BY <2>3, <2>4, <2>5, <2>6, <2>7, <2>8, <2>9, <2>10 DEF OrderlyInv
<1> QED
  BY <1>1, <1>2, <1>3 DEF IInv

LEMMA ResetHasExitedIInv ==
  ASSUME IInv, NEW c \in StartCalls, ResetHasExited(c)
  PROVE  IInv'
<1> USE CallTypes DEF ResetHasExited, ctlvars, flags, threadvars, recvars, histvars
<1>1. /\ TypeOK'
      /\ call'[c] = "ready"
      /\ \A d \in Calls \ {c} : call'[d] = call[d]
  BY CallMoves DEF IInv, TypeOK, PCs, Returned, Enter, Failure
<1>2. PinpointOfThread' /\ MeasurementNamed' /\ CallKinds' /\ FailuresCounted'
  BY <1>1 DEF IInv, TypeOK, CallAt, Enter, Failure,
     PinpointOfThread, MeasurementNamed, CallKinds, FailuresCounted, Holding
<1>3. ASSUME Orderly' PROVE OrderlyInv'
  <2>1. OrderlyInv /\ InCall(c) /\ \A d \in Calls \ {c} : ~InCall(d)
    BY <1>3 DEF IInv, Orderly, OrderlyInv, OneCall, InCall, CallAt, Returned
  <2> USE <1>1, <2>1 DEF IInv, TypeOK, OrderlyInv, InCall, CallAt, Enter, Returned
  <2>2. ~isMeasuring /\ msmtThread = "waiting" /\ pinpoint = <<>>
    BY DEF StartsWhileIdle, ThreadIdle, PinpointOfThread, Holding
  <2>3. OneCall'
    BY DEF OneCall
  <2>4. StartsWhileIdle'
    BY DEF StartsWhileIdle, Holding
  <2>5. StartSettings'
    BY DEF StartSettings, Holding
  <2>6. WrittenOnceReset'
    BY DEF WrittenOnceReset
  <2>7. HasExitedTells'
    BY <2>2 DEF HasExitedTells
  <2>8. ThreadIdle'
    BY DEF ThreadIdle
  <2>9. PinpointSettings'
    BY DEF PinpointSettings
  <2>10. RowsWritten'
    BY DEF RowsWritten, HasRow
  <2> QED
    BY <2>3, <2>4, <2>5, <2>6, <2>7, <2>8, <2>9, <2>10 DEF OrderlyInv
<1> QED
  BY <1>1, <1>2, <1>3 DEF IInv

LEMMA BeginMeasuringIInv ==
  ASSUME IInv, NEW c \in StartCalls, BeginMeasuring(c)
  PROVE  IInv'
<1> USE CallTypes DEF BeginMeasuring, ctlvars, flags, threadvars, recvars, histvars
<1>1. /\ TypeOK'
      /\ call'[c] = "begun"
      /\ \A d \in Calls \ {c} : call'[d] = call[d]
  BY CallMoves DEF IInv, TypeOK, PCs, Returned, Enter, Failure
<1>2. PinpointOfThread' /\ MeasurementNamed' /\ CallKinds' /\ FailuresCounted'
  BY <1>1 DEF IInv, TypeOK, CallAt, Enter, Failure,
     PinpointOfThread, MeasurementNamed, CallKinds, FailuresCounted, Holding
<1>3. ASSUME Orderly' PROVE OrderlyInv'
  <2>1. OrderlyInv /\ InCall(c) /\ \A d \in Calls \ {c} : ~InCall(d)
    BY <1>3 DEF IInv, Orderly, OrderlyInv, OneCall, InCall, CallAt, Returned
  <2> USE <1>1, <2>1 DEF IInv, TypeOK, OrderlyInv, InCall, CallAt, Enter, Returned
  <2>2. OneCall'
    BY DEF OneCall
  <2>3. StartsWhileIdle'
    BY DEF StartsWhileIdle, Holding
  <2>4. StartSettings'
    BY DEF StartSettings, Holding
  <2>5. WrittenOnceReset'
    BY DEF WrittenOnceReset
  <2>6. HasExitedTells'
    BY DEF HasExitedTells, WrittenOnceReset
  <2>7. ThreadIdle'
    BY DEF ThreadIdle
  <2>8. PinpointSettings'
    BY DEF PinpointSettings, StartSettings, Holding
  <2>9. RowsWritten'
    BY DEF RowsWritten, HasRow, WrittenOnceReset
  <2> QED
    BY <2>2, <2>3, <2>4, <2>5, <2>6, <2>7, <2>8, <2>9 DEF OrderlyInv
<1> QED
  BY <1>1, <1>2, <1>3 DEF IInv

LEMMA ReportStartedIInv ==
  ASSUME IInv, NEW c \in StartCalls, ReportStarted(c)
  PROVE  IInv'
<1> USE CallTypes DEF ReportStarted, ctlvars, flags, threadvars, recvars, histvars
<1>1. /\ TypeOK'
      /\ call'[c] = "started"
      /\ \A d \in Calls \ {c} : call'[d] = call[d]
  BY CallMoves DEF IInv, TypeOK, PCs, Returned, Enter, Failure
<1>2. PinpointOfThread' /\ MeasurementNamed' /\ CallKinds' /\ FailuresCounted'
  BY <1>1 DEF IInv, TypeOK, CallAt, Enter, Failure,
     PinpointOfThread, MeasurementNamed, CallKinds, FailuresCounted, Holding
<1>3. ASSUME Orderly' PROVE OrderlyInv'
  <2>1. OrderlyInv /\ InCall(c) /\ \A d \in Calls \ {c} : ~InCall(d)
    BY <1>3 DEF IInv, Orderly, OrderlyInv, OneCall, InCall, CallAt, Returned
  <2> USE <1>1, <2>1 DEF IInv, TypeOK, OrderlyInv, InCall, CallAt, Enter, Returned
  <2>2. OneCall'
    BY DEF OneCall
  <2>3. StartsWhileIdle'
    BY DEF StartsWhileIdle, Holding
  <2>4. StartSettings'
    BY DEF StartSettings, Holding
  <2>5. WrittenOnceReset'
    BY DEF WrittenOnceReset
  <2>6. HasExitedTells'
    BY DEF HasExitedTells
  <2>7. ThreadIdle'
    BY DEF ThreadIdle
  <2>8. PinpointSettings'
    BY DEF PinpointSettings
  <2>9. RowsWritten'
    BY DEF RowsWritten, HasRow, StartsWhileIdle, StartSettings
  <2> QED
    BY <2>2, <2>3, <2>4, <2>5, <2>6, <2>7, <2>8, <2>9 DEF OrderlyInv
<1> QED
  BY <1>1, <1>2, <1>3 DEF IInv

LEMMA StartTimesOutIInv ==
  ASSUME IInv, NEW c \in StartCalls, StartTimesOut(c)
  PROVE  IInv'
<1> USE CallTypes DEF StartTimesOut, ctlvars, flags, threadvars, recvars, histvars
<1>1. /\ TypeOK'
      /\ call'[c] = "timedout"
      /\ \A d \in Calls \ {c} : call'[d] = call[d]
  BY CallMoves DEF IInv, TypeOK, PCs, Returned, Enter, Failure
<1>2. PinpointOfThread' /\ MeasurementNamed' /\ CallKinds' /\ FailuresCounted'
  BY <1>1 DEF IInv, TypeOK, CallAt, Enter, Failure,
     PinpointOfThread, MeasurementNamed, CallKinds, FailuresCounted, Holding
<1>3. ~Orderly'
  BY DEF FailuresCounted, Orderly, Failure, IInv, TypeOK
<1> QED
  BY <1>1, <1>2, <1>3 DEF IInv

LEMMA RetryStartIInv ==
  ASSUME IInv, RetryStart
  PROVE  IInv'
<1> USE CallTypes DEF RetryStart, ctlvars, flags, threadvars, recvars, histvars
<1>1. /\ TypeOK'
      /\ call'[SecondStart] = "applied"
      /\ \A d \in Calls \ {SecondStart} : call'[d] = call[d]
  BY CallMoves DEF IInv, TypeOK, PCs, Returned, Enter, Failure
<1>2. PinpointOfThread' /\ MeasurementNamed' /\ CallKinds' /\ FailuresCounted'
  BY <1>1 DEF IInv, TypeOK, CallAt, Enter, Failure,
     PinpointOfThread, MeasurementNamed, CallKinds, FailuresCounted, Holding
<1>3. ~Orderly'
  BY DEF FailuresCounted, Orderly, Failure, IInv, TypeOK
<1> QED
  BY <1>1, <1>2, <1>3 DEF IInv

\* A measurement that a start has reported has a pinpoint, so that the thread
\* leaves it and sets the flag that the stop waits for.
LEMMA EndMeasuringIInv ==
  ASSUME IInv, NEW c \in Stops, EndMeasuring(c)
  PROVE  IInv'
<1> USE CallTypes DEF EndMeasuring, ctlvars, flags, threadvars, recvars, histvars
<1>1. /\ TypeOK'
      /\ call'[c] = "ending"
      /\ \A d \in Calls \ {c} : call'[d] = call[d]
  BY CallMoves DEF IInv, TypeOK, PCs, Returned, Enter, Failure
<1>2. PinpointOfThread' /\ MeasurementNamed' /\ CallKinds' /\ FailuresCounted'
  BY <1>1 DEF IInv, TypeOK, CallAt, Enter, Failure,
     PinpointOfThread, MeasurementNamed, CallKinds, FailuresCounted, Holding
<1>3. ASSUME Orderly' PROVE OrderlyInv'
  <2>1. OrderlyInv /\ \A d \in Calls : ~InCall(d)
    BY <1>3, EntersAlone DEF IInv, Orderly
  <2> USE <1>1, <2>1 DEF IInv, TypeOK, OrderlyInv, InCall, CallAt, Enter, Returned
  <2>2. OneCall'
    BY DEF OneCall
  <2>3. StartsWhileIdle'
    BY DEF StartsWhileIdle, Holding
  <2>4. StartSettings'
    BY DEF StartSettings, Holding
  <2>5. WrittenOnceReset'
    BY DEF WrittenOnceReset
  <2>6. HasExitedTells'
    BY DEF HasExitedTells
  <2>7. ThreadIdle'
    BY DEF ThreadIdle, WrittenOnceReset, HasExitedTells
  <2>8. PinpointSettings'
    BY DEF PinpointSettings
  <2>9. RowsWritten'
    BY DEF RowsWritten, HasRow
  <2> QED
    BY <2>2, <2>3, <2>4, <2>5, <2>6, <2>7, <2>8, <2>9 DEF OrderlyInv
<1> QED
  BY <1>1, <1>2, <1>3 DEF IInv

LEMMA AwaitExitIInv ==
  ASSUME IInv, NEW c \in Stops, AwaitExit(c)
  PROVE  IInv'
<1> USE CallTypes DEF AwaitExit, ctlvars, flags, threadvars, recvars, histvars
<1>1. /\ TypeOK'
      /\ call'[c] = "stopped"
      /\ \A d \in Calls \ {c} : call'[d] = call[d]
  BY CallMoves DEF IInv, TypeOK, PCs, Returned, Enter, Failure
<1>2. PinpointOfThread' /\ MeasurementNamed' /\ CallKinds' /\ FailuresCounted'
  BY <1>1 DEF IInv, TypeOK, CallAt, Enter, Failure,
     PinpointOfThread, MeasurementNamed, CallKinds, FailuresCounted, Holding
<1>3. ASSUME Orderly' PROVE OrderlyInv'
  <2>1. OrderlyInv /\ InCall(c) /\ \A d \in Calls \ {c} : ~InCall(d)
    BY <1>3 DEF IInv, Orderly, OrderlyInv, OneCall, InCall, CallAt, Returned
  <2> USE <1>1, <2>1 DEF IInv, TypeOK, OrderlyInv, InCall, CallAt, Enter, Returned
  <2>2. OneCall'
    BY DEF OneCall
  <2>3. StartsWhileIdle'
    BY DEF StartsWhileIdle, Holding
  <2>4. StartSettings'
    BY DEF StartSettings, Holding
  <2>5. WrittenOnceReset'
    BY DEF WrittenOnceReset
  <2>6. HasExitedTells'
    BY DEF HasExitedTells
  <2>7. ThreadIdle'
    BY DEF ThreadIdle, HasExitedTells
  <2>8. PinpointSettings'
    BY DEF PinpointSettings
  <2>9. RowsWritten'
    BY DEF RowsWritten, HasRow
  <2> QED
    BY <2>2, <2>3, <2>4, <2>5, <2>6, <2>7, <2>8, <2>9 DEF OrderlyInv
<1> QED
  BY <1>1, <1>2, <1>3 DEF IInv

-----------------------------------------------------------------------------
(* The measurement thread.                                                  *)

LEMMA WakeToMeasureIInv == ASSUME IInv, WakeToMeasure PROVE IInv'
<1> USE CallTypes DEF WakeToMeasure, ThreadGoes, ctlvars, flags, recvars, histvars
<1>1. TypeOK'
  BY DEF IInv, TypeOK, Failure
<1>2. PinpointOfThread' /\ MeasurementNamed' /\ CallKinds' /\ FailuresCounted'
  BY DEF IInv, TypeOK, Failure,
     PinpointOfThread, MeasurementNamed, CallKinds, FailuresCounted, Holding
<1>3. ASSUME Orderly' PROVE OrderlyInv'
  <2>1. OrderlyInv
    BY <1>3 DEF IInv, Orderly
  <2> USE <2>1 DEF IInv, TypeOK, OrderlyInv, InCall, CallAt
  <2>2. OneCall'
    BY DEF OneCall
  <2>3. StartsWhileIdle'
    BY DEF StartsWhileIdle, Holding
  <2>4. StartSettings'
    BY DEF StartSettings, Holding
  <2>5. WrittenOnceReset'
    BY DEF WrittenOnceReset
  <2>6. HasExitedTells'
    BY DEF HasExitedTells
  <2>7. ThreadIdle'
    BY DEF ThreadIdle
  <2>8. PinpointSettings'
    BY DEF PinpointSettings
  <2>9. RowsWritten'
    BY DEF RowsWritten, HasRow
  <2> QED
    BY <2>2, <2>3, <2>4, <2>5, <2>6, <2>7, <2>8, <2>9 DEF OrderlyInv
<1> QED
  BY <1>1, <1>2, <1>3 DEF IInv

LEMMA ClearHasExitedIInv == ASSUME IInv, ClearHasExited PROVE IInv'
<1> USE CallTypes DEF ClearHasExited, ThreadGoes, ctlvars, flags, recvars, histvars
<1>1. TypeOK'
  <2>1. /\ msmtThread' = "forking" /\ ppHasExited' = FALSE
        /\ UNCHANGED <<call, writer, ctlvars, hasWrittenOnce, pinpoint, line, uploadThread, recvars,
                        failures, histvars>>
    OBVIOUS
  <2> QED
    BY <2>1, ZenonT(40) DEF IInv, TypeOK
<1>2. PinpointOfThread' /\ MeasurementNamed' /\ CallKinds' /\ FailuresCounted'
  BY DEF IInv, TypeOK, Failure,
     PinpointOfThread, MeasurementNamed, CallKinds, FailuresCounted, Holding
<1>3. ASSUME Orderly' PROVE OrderlyInv'
  <2>1. OrderlyInv
    BY <1>3 DEF IInv, Orderly
  <2> USE <2>1 DEF IInv, TypeOK, OrderlyInv, InCall, CallAt
  <2>2. OneCall'
    BY DEF OneCall
  <2>3. StartsWhileIdle'
    BY DEF StartsWhileIdle, Holding
  <2>4. StartSettings'
    BY DEF StartSettings, Holding
  <2>5. WrittenOnceReset'
    BY DEF WrittenOnceReset
  <2>6. HasExitedTells'
    BY DEF HasExitedTells
  <2>7. ThreadIdle'
    BY DEF ThreadIdle
  <2>8. PinpointSettings'
    BY DEF PinpointSettings
  <2>9. RowsWritten'
    BY DEF RowsWritten, HasRow
  <2> QED
    BY <2>2, <2>3, <2>4, <2>5, <2>6, <2>7, <2>8, <2>9 DEF OrderlyInv
<1> QED
  BY <1>1, <1>2, <1>3 DEF IInv

LEMMA PipeFailsIInv == ASSUME IInv, PipeFails PROVE IInv'
<1> USE CallTypes DEF PipeFails, ThreadGoes, ctlvars, flags, recvars, histvars
<1>1. TypeOK'
  BY DEF IInv, TypeOK, Failure
<1>2. PinpointOfThread' /\ MeasurementNamed' /\ CallKinds' /\ FailuresCounted'
  BY DEF IInv, TypeOK, Failure,
     PinpointOfThread, MeasurementNamed, CallKinds, FailuresCounted, Holding
<1>3. ~Orderly'
  BY DEF Orderly, Failure, IInv, TypeOK
<1> QED
  BY <1>1, <1>2, <1>3 DEF IInv

LEMMA ForkPinpointIInv == ASSUME IInv, ForkPinpoint PROVE IInv'
<1> USE CallTypes DEF ForkPinpoint, ThreadGoes, ctlvars, flags, recvars, histvars
<1>1. TypeOK'
  <2>1. pinpoint' \in {<<>>} \cup {<<s>> : s \in Settings}
    BY DEF IInv, TypeOK
  <2>2. /\ msmtThread' = "reading" /\ line' = FALSE
        /\ UNCHANGED <<call, writer, ctlvars, flags, uploadThread, recvars, failures, histvars>>
    OBVIOUS
  <2> QED
    BY <2>1, <2>2, ZenonT(40) DEF IInv, TypeOK
<1>2. PinpointOfThread' /\ MeasurementNamed' /\ CallKinds' /\ FailuresCounted'
  BY DEF IInv, TypeOK, Failure,
     PinpointOfThread, MeasurementNamed, CallKinds, FailuresCounted, Holding
<1>3. ASSUME Orderly' PROVE OrderlyInv'
  <2>1. OrderlyInv
    BY <1>3 DEF IInv, Orderly
  <2> USE <2>1 DEF IInv, TypeOK, OrderlyInv, InCall, CallAt
  <2>2. OneCall'
    BY DEF OneCall
  <2>3. StartsWhileIdle'
    BY DEF StartsWhileIdle, Holding
  <2>4. StartSettings'
    BY DEF StartSettings, Holding
  <2>5. WrittenOnceReset'
    BY DEF WrittenOnceReset
  <2>6. HasExitedTells'
    BY DEF HasExitedTells
  <2>7. ThreadIdle'
    BY DEF ThreadIdle
  <2>8. PinpointSettings'
    BY DEF PinpointSettings
  <2>9. RowsWritten'
    BY DEF RowsWritten, HasRow
  <2> QED
    BY <2>2, <2>3, <2>4, <2>5, <2>6, <2>7, <2>8, <2>9 DEF OrderlyInv
<1> QED
  BY <1>1, <1>2, <1>3 DEF IInv

LEMMA ReadCharacterIInv == ASSUME IInv, ReadCharacter PROVE IInv'
<1> USE CallTypes DEF ReadCharacter, ThreadGoes, ctlvars, flags, recvars, histvars
<1>1. TypeOK'
  BY DEF IInv, TypeOK, Failure
<1>2. PinpointOfThread' /\ MeasurementNamed' /\ CallKinds' /\ FailuresCounted'
  BY DEF IInv, TypeOK, Failure,
     PinpointOfThread, MeasurementNamed, CallKinds, FailuresCounted, Holding
<1>3. ASSUME Orderly' PROVE OrderlyInv'
  <2>1. OrderlyInv
    BY <1>3 DEF IInv, Orderly
  <2> USE <2>1 DEF IInv, TypeOK, OrderlyInv, InCall, CallAt
  <2>2. OneCall'
    BY DEF OneCall
  <2>3. StartsWhileIdle'
    BY DEF StartsWhileIdle, Holding
  <2>4. StartSettings'
    BY DEF StartSettings, Holding
  <2>5. WrittenOnceReset'
    BY DEF WrittenOnceReset
  <2>6. HasExitedTells'
    BY DEF HasExitedTells
  <2>7. ThreadIdle'
    BY DEF ThreadIdle
  <2>8. PinpointSettings'
    BY DEF PinpointSettings
  <2>9. RowsWritten'
    BY DEF RowsWritten, HasRow
  <2> QED
    BY <2>2, <2>3, <2>4, <2>5, <2>6, <2>7, <2>8, <2>9 DEF OrderlyInv
<1> QED
  BY <1>1, <1>2, <1>3 DEF IInv

LEMMA InsertSampleIInv == ASSUME IInv, InsertSample PROVE IInv'
<1> USE CallTypes DEF InsertSample, ThreadGoes, ctlvars, flags, recvars, histvars
<1>1. TypeOK'
  <2>1. internalMmtId \in StartCalls
    BY DEF IInv, TypeOK, MeasurementNamed
  <2>2. pinpoint[1] \in Settings
    BY DEF IInv, TypeOK, PinpointOfThread
  <2>3. rows' \subseteq StartCalls \X Settings
    BY <2>1, <2>2 DEF IInv, TypeOK
  <2>4. /\ msmtThread' = "inserted" /\ line' = FALSE /\ fresh' = TRUE
        /\ UNCHANGED <<call, writer, ctlvars, flags, pinpoint, uploadThread, failures, histvars>>
    OBVIOUS
  <2> QED
    BY <2>3, <2>4 DEF IInv, TypeOK
<1>2. PinpointOfThread' /\ MeasurementNamed' /\ CallKinds' /\ FailuresCounted'
  BY DEF IInv, TypeOK, Failure,
     PinpointOfThread, MeasurementNamed, CallKinds, FailuresCounted, Holding
<1>3. ASSUME Orderly' PROVE OrderlyInv'
  <2>1. OrderlyInv
    BY <1>3 DEF IInv, Orderly
  <2> USE <2>1 DEF IInv, TypeOK, OrderlyInv, InCall, CallAt
  <2>2. OneCall'
    BY DEF OneCall
  <2>3. StartsWhileIdle'
    BY DEF StartsWhileIdle, Holding
  <2>4. StartSettings'
    BY DEF StartSettings, Holding
  <2>5. WrittenOnceReset'
    BY DEF WrittenOnceReset
  <2>6. HasExitedTells'
    BY DEF HasExitedTells
  <2>7. ThreadIdle'
    BY DEF ThreadIdle
  <2>8. PinpointSettings'
    BY DEF PinpointSettings
  <2>9. RowsWritten'
    <3>1. pinpoint[1] = SettingsOf(internalMmtId)
      BY DEF PinpointSettings, PinpointOfThread
    <3>2. \E r \in rows' : r[1] = internalMmtId
      <4>1. <<internalMmtId, pinpoint[1]>> \in rows'
        OBVIOUS
      <4> QED
        BY <4>1
    <3>3. \A c \in StartCalls : HasRow(c) => HasRow(c)'
      BY DEF HasRow
    <3> QED
      BY <3>1, <3>2, <3>3 DEF RowsWritten, SettingsOf, HasRow
  <2> QED
    BY <2>2, <2>3, <2>4, <2>5, <2>6, <2>7, <2>8, <2>9 DEF OrderlyInv
<1> QED
  BY <1>1, <1>2, <1>3 DEF IInv

LEMMA InsertFailsIInv == ASSUME IInv, InsertFails PROVE IInv'
<1> USE CallTypes DEF InsertFails, ThreadGoes, ctlvars, flags, recvars, histvars
<1>1. TypeOK'
  <2>1. /\ msmtThread' = "checking" /\ line' = FALSE /\ failures' \in Nat
        /\ UNCHANGED <<call, writer, ctlvars, flags, pinpoint, uploadThread, recvars, histvars>>
    BY DEF Failure, IInv, TypeOK
  <2> QED
    BY <2>1, ZenonT(40) DEF IInv, TypeOK
<1>2. PinpointOfThread' /\ MeasurementNamed' /\ CallKinds' /\ FailuresCounted'
  BY DEF IInv, TypeOK, Failure,
     PinpointOfThread, MeasurementNamed, CallKinds, FailuresCounted, Holding
<1>3. ~Orderly'
  BY DEF Orderly, Failure, IInv, TypeOK
<1> QED
  BY <1>1, <1>2, <1>3 DEF IInv

LEMMA InsertFailsAgainIInv == ASSUME IInv, InsertFailsAgain PROVE IInv'
<1> USE CallTypes DEF InsertFailsAgain, ThreadGoes, ctlvars, flags, recvars, histvars
<1>1. TypeOK'
  <2>1. /\ msmtThread' = "checking" /\ line' = FALSE
        /\ UNCHANGED <<call, writer, ctlvars, flags, pinpoint, pgcon, uploadThread,
                       recvars, failures, histvars>>
    BY DEF IInv, TypeOK
  <2> QED
    BY <2>1, ZenonT(40) DEF IInv, TypeOK
<1>2. PinpointOfThread' /\ MeasurementNamed' /\ CallKinds' /\ FailuresCounted'
  BY DEF IInv, TypeOK,
     PinpointOfThread, MeasurementNamed, CallKinds, FailuresCounted, Holding
<1>3. ~Orderly'
  BY DEF Orderly, FailuresCounted, IInv, TypeOK
<1> QED
  BY <1>1, <1>2, <1>3 DEF IInv

LEMMA ReportWrittenIInv == ASSUME IInv, ReportWritten PROVE IInv'
<1> USE CallTypes DEF ReportWritten, ThreadGoes, ctlvars, flags, recvars, histvars
<1>1. TypeOK'
  BY DEF IInv, TypeOK, Failure
<1>2. PinpointOfThread' /\ MeasurementNamed' /\ CallKinds' /\ FailuresCounted'
  BY DEF IInv, TypeOK, Failure,
     PinpointOfThread, MeasurementNamed, CallKinds, FailuresCounted, Holding
<1>3. ASSUME Orderly' PROVE OrderlyInv'
  <2>1. OrderlyInv
    BY <1>3 DEF IInv, Orderly
  <2> USE <2>1 DEF IInv, TypeOK, OrderlyInv, InCall, CallAt
  <2>2. OneCall'
    BY DEF OneCall
  <2>3. StartsWhileIdle'
    BY DEF StartsWhileIdle, Holding
  <2>4. StartSettings'
    BY DEF StartSettings, Holding
  <2>5. WrittenOnceReset'
    BY DEF WrittenOnceReset, StartsWhileIdle, ThreadIdle, OneCall, CallKinds, Holding, Returned
  <2>6. HasExitedTells'
    BY DEF HasExitedTells
  <2>7. ThreadIdle'
    BY DEF ThreadIdle
  <2>8. PinpointSettings'
    BY DEF PinpointSettings
  <2>9. RowsWritten'
    BY DEF RowsWritten, HasRow
  <2> QED
    BY <2>2, <2>3, <2>4, <2>5, <2>6, <2>7, <2>8, <2>9 DEF OrderlyInv
<1> QED
  BY <1>1, <1>2, <1>3 DEF IInv

LEMMA CheckMeasuringIInv == ASSUME IInv, CheckMeasuring PROVE IInv'
<1> USE CallTypes DEF CheckMeasuring, ThreadGoes, ctlvars, flags, recvars, histvars
<1>1. TypeOK'
  BY DEF IInv, TypeOK, Failure
<1>2. PinpointOfThread' /\ MeasurementNamed' /\ CallKinds' /\ FailuresCounted'
  BY DEF IInv, TypeOK, Failure,
     PinpointOfThread, MeasurementNamed, CallKinds, FailuresCounted, Holding
<1>3. ASSUME Orderly' PROVE OrderlyInv'
  <2>1. OrderlyInv
    BY <1>3 DEF IInv, Orderly
  <2> USE <2>1 DEF IInv, TypeOK, OrderlyInv, InCall, CallAt
  <2>2. OneCall'
    BY DEF OneCall
  <2>3. StartsWhileIdle'
    BY DEF StartsWhileIdle, Holding
  <2>4. StartSettings'
    BY DEF StartSettings, Holding
  <2>5. WrittenOnceReset'
    BY DEF WrittenOnceReset
  <2>6. HasExitedTells'
    BY DEF HasExitedTells
  <2>7. ThreadIdle'
    BY DEF ThreadIdle
  <2>8. PinpointSettings'
    BY DEF PinpointSettings
  <2>9. RowsWritten'
    BY DEF RowsWritten, HasRow
  <2> QED
    BY <2>2, <2>3, <2>4, <2>5, <2>6, <2>7, <2>8, <2>9 DEF OrderlyInv
<1> QED
  BY <1>1, <1>2, <1>3 DEF IInv

LEMMA LosePinpointIInv == ASSUME IInv, LosePinpoint PROVE IInv'
<1> USE CallTypes DEF LosePinpoint, ThreadGoes, ctlvars, flags, recvars, histvars
<1>1. TypeOK'
  BY DEF IInv, TypeOK, Failure
<1>2. PinpointOfThread' /\ MeasurementNamed' /\ CallKinds' /\ FailuresCounted'
  BY DEF IInv, TypeOK, Failure,
     PinpointOfThread, MeasurementNamed, CallKinds, FailuresCounted, Holding
<1>3. ~Orderly'
  BY DEF Orderly, Failure, IInv, TypeOK
<1> QED
  BY <1>1, <1>2, <1>3 DEF IInv

LEMMA ReapPinpointIInv == ASSUME IInv, ReapPinpoint PROVE IInv'
<1> USE CallTypes DEF ReapPinpoint, ThreadGoes, ctlvars, flags, recvars, histvars
<1>1. TypeOK'
  BY DEF IInv, TypeOK, Failure
<1>2. PinpointOfThread' /\ MeasurementNamed' /\ CallKinds' /\ FailuresCounted'
  BY DEF IInv, TypeOK, Failure,
     PinpointOfThread, MeasurementNamed, CallKinds, FailuresCounted, Holding
<1>3. ASSUME Orderly' PROVE OrderlyInv'
  <2>1. OrderlyInv
    BY <1>3 DEF IInv, Orderly
  <2> USE <2>1 DEF IInv, TypeOK, OrderlyInv, InCall, CallAt
  <2>2. OneCall'
    BY DEF OneCall
  <2>3. StartsWhileIdle'
    BY DEF StartsWhileIdle, Holding
  <2>4. StartSettings'
    BY DEF StartSettings, Holding
  <2>5. WrittenOnceReset'
    BY DEF WrittenOnceReset
  <2>6. HasExitedTells'
    BY DEF HasExitedTells
  <2>7. ThreadIdle'
    BY DEF ThreadIdle
  <2>8. PinpointSettings'
    BY DEF PinpointSettings
  <2>9. RowsWritten'
    BY DEF RowsWritten, HasRow
  <2> QED
    BY <2>2, <2>3, <2>4, <2>5, <2>6, <2>7, <2>8, <2>9 DEF OrderlyInv
<1> QED
  BY <1>1, <1>2, <1>3 DEF IInv
-----------------------------------------------------------------------------
(* The theorems.                                                            *)

LEMMA IInvStep == IInv /\ [Next]_vars => IInv'
<1> SUFFICES ASSUME IInv, [Next]_vars PROVE IInv'
  OBVIOUS
<1> USE CallTypes
<1>1. CASE \E c \in Starts : HandleStart(c) \/ RefuseSettings(c) \/ ApplySettings(c)
  BY <1>1, HandleStartIInv, RefuseSettingsIInv, ApplySettingsIInv
<1>2. CASE \E c \in StartCalls : StartMeasurement(c) \/ LogMeasurementFails(c) \/ StartTimesOut(c)
  BY <1>2, LogMeasurementIInv, ResetWrittenOnceIInv, ResetHasExitedIInv, BeginMeasuringIInv,
     ReportStartedIInv, LogMeasurementFailsIInv, StartTimesOutIInv DEF StartMeasurement
<1>3. CASE RetryStart
  BY <1>3, RetryStartIInv
<1>4. CASE \E c \in Stops : EndMeasuring(c) \/ AwaitExit(c)
  BY <1>4, EndMeasuringIInv, AwaitExitIInv
<1>5. CASE Recording \/ PipeFails \/ InsertFails \/ LosePinpoint
  BY <1>5, WakeToMeasureIInv, ClearHasExitedIInv, ForkPinpointIInv, ReadCharacterIInv,
     InsertSampleIInv, ReportWrittenIInv, CheckMeasuringIInv, ReapPinpointIInv, PipeFailsIInv,
     InsertFailsIInv, InsertFailsAgainIInv, LosePinpointIInv DEF Recording
<1>6. CASE Uploading
  BY <1>6, UploadIInv
<1>7. CASE UNCHANGED vars
  BY <1>7 DEF vars, IInv, TypeOK, PinpointOfThread, MeasurementNamed, CallKinds, FailuresCounted,
     Orderly, OrderlyInv, OneCall, StartsWhileIdle, StartSettings, WrittenOnceReset,
     HasExitedTells, ThreadIdle, PinpointSettings, RowsWritten, HasRow, InCall, CallAt
<1> QED
  BY <1>1, <1>2, <1>3, <1>4, <1>5, <1>6, <1>7 DEF Next

LEMMA Invariance == Spec => []IInv
  BY InitIInv, IInvStep, PTL DEF Spec

\* The state of the client's threads keeps its type.
THEOREM TypeCorrect == Spec => []TypeOK
<1>1. IInv => TypeOK
  BY DEF IInv
<1> QED
  BY <1>1, Invariance, PTL

\* After stopMeasurement has returned, pinpoint has exited and no sample is
\* recorded until the next start: the wait for ppHasExited
\* (src/client/client.cc:561) is enough, as nothing overlaps and nothing fails.
THEOREM StopIsFinal == Spec => []StoppedIsQuiet
<1>1. IInv => StoppedIsQuiet
  BY DEF IInv, OrderlyInv, ThreadIdle, PinpointOfThread, StoppedIsQuiet
<1> QED
  BY <1>1, Invariance, PTL

\* The device and the interval are read by the child when it is forked
\* (src/client/client.cc:348), long after handleMeasurementStart has set them:
\* they are those of the measurement that its samples are inserted for.
THEOREM SamplesHaveTheirSettings == Spec => []OwnSettings
<1>1. IInv => OwnSettings
  BY DEF IInv, OrderlyInv, RowsWritten, OwnSettings
<1> QED
  BY <1>1, Invariance, PTL

\* startMeasurement reports success for a sample of its own measurement, not
\* for one that an earlier measurement has left the flag of.
THEOREM StartHasSample == Spec => []StartedHasRows
<1>1. IInv => StartedHasRows
  BY DEF IInv, OrderlyInv, RowsWritten, HasRow, StartedHasRows
<1> QED
  BY <1>1, Invariance, PTL

-----------------------------------------------------------------------------
(* Who waits for whom: the safety part of StopReturns, also with calls that *)
(* overlap and with failures.                                               *)

\* measuringMtx is held exclusively by one call, between the INSERT and setMeasuring, and then
\* not by the upload thread.
LockOfHolder ==
    /\ \A c \in Calls : call[c] \in Holding <=> writer = c
    /\ writer # None => uploadThread # "uploading"

\* While ppHasExited is false the measurement thread has a pinpoint to reap, or will have one.
ExitToCome == ~ppHasExited => msmtThread \in {"forking", "reading", "inserted", "checking", "leaving"}

WaitsHaveCause ==
    /\ ~Readable => writer \in StartCalls /\ call[writer] \in Holding
    /\ ~Writable => ~Readable \/ uploadThread = "uploading"
    /\ ~(~Readable /\ uploadThread = "uploading")
    /\ \A c \in Stops : CallAt(c, "ending") => ppHasExited \/ msmtThread \notin {"waiting", "woken", "gone"}

\* A step of a call that does not take or leave the mutex.
LEMMA GoesHolds ==
  ASSUME TypeOK, LockOfHolder, NEW c \in Calls, NEW pc \in PCs, Goes(c, pc),
         call[c] \in Holding <=> pc \in Holding, writer' = writer, uploadThread' = uploadThread
  PROVE  LockOfHolder'
<1>1. call'[c] = pc /\ \A d \in Calls \ {c} : call'[d] = call[d]
  BY GoesCall
<1> QED
  BY <1>1 DEF LockOfHolder

LEMMA LockStep == TypeOK /\ LockOfHolder /\ [Next]_vars => LockOfHolder'
<1> SUFFICES ASSUME TypeOK, LockOfHolder, [Next]_vars PROVE LockOfHolder'
  OBVIOUS
<1> USE CallTypes DEF ctlvars, flags, threadvars, recvars, histvars
<1>1. ASSUME UNCHANGED <<call, writer, uploadThread>> PROVE LockOfHolder'
  BY <1>1 DEF LockOfHolder
<1>2. ASSUME NEW c \in Starts, HandleStart(c) \/ RefuseSettings(c) \/ ApplySettings(c)
      PROVE  LockOfHolder'
  <2>1. PICK pc \in PCs \ Holding : Goes(c, pc)
    BY <1>2 DEF HandleStart, RefuseSettings, ApplySettings, PCs, Holding, Returned
  <2>2. call[c] \notin Holding /\ writer' = writer /\ uploadThread' = uploadThread
    BY <1>2 DEF HandleStart, RefuseSettings, ApplySettings, Enter, CallAt, Holding
  <2> QED
    BY <2>1, <2>2, GoesHolds
<1>3. ASSUME NEW c \in StartCalls, LogMeasurementFails(c) \/ StartTimesOut(c) \/ ReportStarted(c)
      PROVE  LockOfHolder'
  <2>1. PICK pc \in PCs \ Holding : Goes(c, pc)
    BY <1>3 DEF LogMeasurementFails, StartTimesOut, ReportStarted, PCs, Holding, Returned
  <2>2. call[c] \notin Holding /\ writer' = writer /\ uploadThread' = uploadThread
    BY <1>3 DEF LogMeasurementFails, StartTimesOut, ReportStarted, CallAt, Holding
  <2> QED
    BY <2>1, <2>2, GoesHolds
<1>4. ASSUME NEW c \in StartCalls, ResetWrittenOnce(c) \/ ResetHasExited(c) PROVE LockOfHolder'
  <2>1. PICK pc \in Holding : Goes(c, pc)
    BY <1>4 DEF ResetWrittenOnce, ResetHasExited, Holding
  <2>2. call[c] \in Holding /\ writer' = writer /\ uploadThread' = uploadThread
    BY <1>4 DEF ResetWrittenOnce, ResetHasExited, CallAt, Holding
  <2> QED
    BY <2>1, <2>2, GoesHolds DEF Holding, PCs
<1>5. ASSUME NEW c \in StartCalls, LogMeasurement(c) PROVE LockOfHolder'
  <2>1. /\ call'[c] = "logged" /\ \A d \in Calls \ {c} : call'[d] = call[d]
    BY <1>5, GoesCall DEF LogMeasurement, PCs
  <2> QED
    BY <1>5, <2>1 DEF LogMeasurement, LockOfHolder, Writable, Holding
<1>6. ASSUME NEW c \in StartCalls, BeginMeasuring(c) PROVE LockOfHolder'
  <2>1. /\ call'[c] = "begun" /\ \A d \in Calls \ {c} : call'[d] = call[d]
    BY <1>6, GoesCall DEF BeginMeasuring, PCs
  <2>2. writer = c /\ writer' = None
    BY <1>6 DEF BeginMeasuring, LockOfHolder, CallAt, Holding
  <2> QED
    BY <2>1, <2>2 DEF LockOfHolder, Holding
<1>7. CASE RetryStart
  <2>1. Goes(SecondStart, "applied") /\ call[SecondStart] \notin Holding
    BY <1>7 DEF RetryStart, Enter, CallAt, Holding
  <2>2. writer' = writer /\ uploadThread' = uploadThread
    BY <1>7 DEF RetryStart
  <2> QED
    BY <2>1, <2>2, GoesHolds DEF PCs, Holding
<1>8. ASSUME NEW c \in Stops, EndMeasuring(c) \/ AwaitExit(c) PROVE LockOfHolder'
  <2>1. PICK pc \in PCs \ Holding : Goes(c, pc)
    BY <1>8 DEF EndMeasuring, AwaitExit, PCs, Holding, Returned
  <2>2. call[c] \notin Holding /\ writer' = writer /\ uploadThread' = uploadThread
    BY <1>8 DEF EndMeasuring, AwaitExit, Enter, CallAt, Holding
  <2> QED
    BY <2>1, <2>2, GoesHolds
<1>9. CASE Recording \/ PipeFails \/ InsertFails \/ LosePinpoint
  BY <1>1, <1>9 DEF Recording, WakeToMeasure, ClearHasExited, ForkPinpoint, ReadCharacter,
     InsertSample, InsertFailsAgain, ReportWritten, CheckMeasuring, ReapPinpoint, PipeFails, InsertFails, LosePinpoint
<1>10. CASE Uploading
  <2>1. UNCHANGED <<call, writer>> /\ (uploadThread' = "uploading" => writer = None)
    BY <1>10 DEF Uploading, StartUpload, StartIdling, StopIdling, EndUpload, EndPause, UploadGoes,
       Readable
  <2> QED
    BY <2>1 DEF LockOfHolder
<1>11. CASE UNCHANGED vars
  BY <1>1, <1>11 DEF vars
<1> QED
  BY <1>2, <1>3, <1>4, <1>5, <1>6, <1>7, <1>8, <1>9, <1>10, <1>11 DEF Next, StartMeasurement

LEMMA ExitStep == ExitToCome /\ [Next]_vars => ExitToCome'
<1> SUFFICES ASSUME ExitToCome, [Next]_vars PROVE ExitToCome'
  OBVIOUS
<1> USE DEF ExitToCome, ctlvars, flags, threadvars, recvars, histvars
<1>1. ASSUME NEW c \in Calls,
             \/ HandleStart(c) \/ RefuseSettings(c) \/ ApplySettings(c)
             \/ StartMeasurement(c) \/ LogMeasurementFails(c) \/ StartTimesOut(c)
             \/ EndMeasuring(c) \/ AwaitExit(c)
      PROVE  ExitToCome'
  BY <1>1 DEF HandleStart, RefuseSettings, ApplySettings, StartMeasurement, LogMeasurement,
     ResetWrittenOnce, ResetHasExited, BeginMeasuring, ReportStarted, LogMeasurementFails,
     StartTimesOut, EndMeasuring, AwaitExit
<1>2. CASE RetryStart \/ Uploading
  BY <1>2 DEF RetryStart, Uploading, StartUpload, StartIdling, StopIdling, EndUpload, EndPause
<1>3. CASE Recording \/ PipeFails \/ InsertFails \/ LosePinpoint
  BY <1>3 DEF Recording, WakeToMeasure, ClearHasExited, ForkPinpoint, ReadCharacter,
     InsertSample, InsertFailsAgain, ReportWritten, CheckMeasuring, ReapPinpoint, PipeFails, InsertFails,
     LosePinpoint, ThreadGoes
<1>4. CASE UNCHANGED vars
  BY <1>4 DEF vars
<1> QED
  BY <1>1, <1>2, <1>3, <1>4, CallTypes DEF Next

\* Nobody waits for a lock that nobody holds, or for the exit of a pinpoint that nobody
\* will reap: measuringMtx (src/client/client.cc:493-513) is held by a call that needs no other
\* lock or by an upload, never by both, and a stop that waits for ppHasExited (561) has a
\* measurement thread that is on its way to setting it, however calls overlap and whatever
\* fails.
THEOREM WaitsAlwaysHaveCause == Spec => []WaitsHaveCause
<1>1. Init => LockOfHolder /\ ExitToCome
  BY CallTypes DEF Init, LockOfHolder, ExitToCome, Holding
<1>2. TypeOK /\ LockOfHolder /\ ExitToCome => WaitsHaveCause
  BY CallTypes DEF TypeOK, LockOfHolder, ExitToCome, WaitsHaveCause, Readable, Writable
<1> QED
  BY <1>1, <1>2, LockStep, ExitStep, TypeCorrect, PTL DEF Spec
=============================================================================
