---------------------------- MODULE SampleUpload ----------------------------
(***************************************************************************)
(* The way of a power sample from the client's database to the server's.   *)
(* Client: src/client/client.cc (the measurement thread that records, the  *)
(* periodic upload thread, the handler of MEASUREMENT_DATA requests).      *)
(* Server: putMeasurement of src/server/server.py and deleteMeasurement of *)
(* src/server/management/app.py.                                           *)
(*                                                                         *)
(* One stream is one call of the putMeasurement RPC.  Its client half and  *)
(* its server half fail independently: when the connection breaks after    *)
(* the server has read the whole stream, the handler still inserts, while  *)
(* the client may already be uploading the same samples on a new stream.   *)
(***************************************************************************)
EXTENDS Integers, FiniteSets

CONSTANTS
    Samples,         \* rows of the client's measurement_data, by md_id
    Measurements,    \* shared measurement ids
    MsmtOf,          \* the measurement a sample belongs to
    ThreadStreams,   \* streams for the periodic upload thread
    RequestStreams,  \* streams for MEASUREMENT_DATA requests
    None,            \* no measurement
    Intervals,       \* upload intervals of START requests, 0: no upload
    MaxFaults,       \* broken connections, failed transactions and crashes
    MaxDeletes       \* deletions of a measurement by the user

ASSUME MsmtOfAssumption == MsmtOf \in [Samples -> Measurements]
ASSUME NoneAssumption == None \notin Measurements
ASSUME IntervalsAssumption == Intervals \subseteq Nat
ASSUME BoundsAssumption == MaxFaults \in Nat /\ MaxDeletes \in Nat

VARIABLES
    recorded,     \* client DB: samples in measurement_data
    uploaded,     \* client DB: samples with was_uploaded = true
    measuring,    \* client: isMeasuring
    periodicUploadMinutes, \* client: the upload interval
    doLastUpload, \* client: an upload is due although not measuring
    idling,       \* client: the upload thread waits for the end of a measurement
                  \* that is not to be uploaded
    sampling,     \* client: pinpoint runs and its samples are recorded
    client,       \* client half of each stream
    server,       \* handler of each stream in the server
    link,         \* connection of each stream
    acks,         \* acks the handler sent and the client has not read
    msmtRow,      \* server DB: server_measurement_id of a measurement, 0: none
    nextId,       \* server DB: the sequence of server_measurement_id
    rows,         \* server DB: measurement_data as (ack_id, server_measurement_id)
    faults, deletes, \* counted against their bounds
    erased        \* history: samples a deletion took off the server

cvars == <<recorded, measuring, sampling, periodicUploadMinutes, idling>>
dbvars == <<msmtRow, nextId, rows, erased>>
vars == <<recorded, uploaded, measuring, periodicUploadMinutes, doLastUpload,
          idling, sampling, client, server, link, acks, msmtRow, nextId, rows,
          faults, deletes, erased>>

Streams == ThreadStreams \cup RequestStreams

\* toSend: rows the cursor has not returned; acked: acknowledged in the still
\* uncommitted transaction of the ack thread.
IdleClient == [pc |-> "idle", toSend |-> {}, acked |-> {}]

\* msmt and id: msmtIdSoFar and internalId; batch: mmlist.
IdleServer == [pc |-> "idle", msmt |-> None, id |-> 0, batch |-> {}]

ClientHalf == [pc : {"idle", "sending", "sent"},
               toSend : SUBSET Samples,
               acked : SUBSET Samples]
ServerHalf == [pc : {"idle", "reading", "inserting"},
               msmt : Measurements \cup {None},
               id : Nat,
               batch : SUBSET (Samples \X Nat)]

\* Of client.h, until a START request brings another one.
DefaultInterval == 5

TypeOK ==
    /\ recorded \subseteq Samples
    /\ uploaded \subseteq Samples
    /\ measuring \in BOOLEAN /\ sampling \in BOOLEAN
    /\ periodicUploadMinutes \in Nat
    /\ doLastUpload \in BOOLEAN /\ idling \in BOOLEAN
    /\ client \in [Streams -> ClientHalf]
    /\ server \in [Streams -> ServerHalf]
    /\ link \in [Streams -> {"up", "closed", "down"}]
    /\ acks \in [Streams -> SUBSET Samples]
    /\ msmtRow \in [Measurements -> Nat]
    /\ nextId \in Nat \ {0}
    /\ rows \subseteq Samples \X Nat
    /\ faults \in Nat /\ deletes \in Nat
    /\ erased \subseteq Samples

Init ==
    /\ recorded = {} /\ uploaded = {}
    /\ measuring = FALSE /\ sampling = FALSE
    /\ periodicUploadMinutes = DefaultInterval
    /\ doLastUpload = FALSE /\ idling = FALSE
    /\ client = [u \in Streams |-> IdleClient]
    /\ server = [u \in Streams |-> IdleServer]
    /\ link = [u \in Streams |-> "closed"]
    /\ acks = [u \in Streams |-> {}]
    /\ msmtRow = [m \in Measurements |-> 0]
    /\ nextId = 1
    /\ rows = {}
    /\ faults = 0 /\ deletes = 0
    /\ erased = {}

Active(u) == client[u].pc # "idle"

\* The thread uploads inside doPeriodicDataUpload, with measuringMtx shared.
ThreadUploading == \E u \in ThreadStreams : Active(u)

\* A stream can be opened anew once both of its halves are gone.
Free(u) == ~Active(u) /\ server[u].pc = "idle"

Unsent == recorded \ uploaded
SamplesOf(m) == {s \in Samples : MsmtOf[s] = m}
Rows(S) == {r \in rows : r[1] \in S}
Held == {r[1] : r \in rows}

-----------------------------------------------------------------------------
(* The client's measurement.  Starting and stopping take measuringMtx       *)
(* exclusively, so neither happens while the thread uploads.                *)

\* The settings of a START request, which may come beside another one.
ApplySettings(i) ==
    /\ ~ThreadUploading
    /\ periodicUploadMinutes' = i
    /\ UNCHANGED <<recorded, uploaded, measuring, doLastUpload, idling, sampling,
                   client, server, link, acks, dbvars, faults, deletes>>

StartMeasurement ==
    /\ ~ThreadUploading
    /\ ~measuring
    /\ measuring' = TRUE
    /\ UNCHANGED <<recorded, uploaded, periodicUploadMinutes, doLastUpload, idling,
                   sampling, client, server, link, acks, dbvars, faults, deletes>>

StopMeasurement ==
    /\ ~ThreadUploading
    /\ measuring' = FALSE
    /\ doLastUpload' = (doLastUpload \/ periodicUploadMinutes # 0)
    /\ UNCHANGED <<recorded, uploaded, periodicUploadMinutes, idling, sampling,
                   client, server, link, acks, dbvars, faults, deletes>>

\* The measurement thread notices isMeasuring between two characters only.
PinpointStarts ==
    /\ measuring /\ ~sampling
    /\ sampling' = TRUE
    /\ UNCHANGED <<recorded, uploaded, measuring, periodicUploadMinutes,
                   doLastUpload, idling, client, server, link, acks, dbvars,
                   faults, deletes>>

PinpointStops ==
    /\ ~measuring /\ sampling
    /\ sampling' = FALSE
    /\ UNCHANGED <<recorded, uploaded, measuring, periodicUploadMinutes,
                   doLastUpload, idling, client, server, link, acks, dbvars,
                   faults, deletes>>

Record(s) ==
    /\ sampling
    /\ s \notin recorded
    /\ recorded' = recorded \cup {s}
    /\ UNCHANGED <<uploaded, measuring, periodicUploadMinutes, doLastUpload, idling,
                   sampling, client, server, link, acks, dbvars, faults, deletes>>

-----------------------------------------------------------------------------
(* streamMeasurementData, the client half of a stream.                      *)

\* The cursor's snapshot is the set S of rows that the query selects.
OpenStream(u, S) ==
    /\ Free(u)
    /\ client' = [client EXCEPT ![u] = [pc |-> "sending", toSend |-> S, acked |-> {}]]
    /\ server' = [server EXCEPT ![u] = [IdleServer EXCEPT !.pc = "reading"]]
    /\ link' = [link EXCEPT ![u] = "up"]
    /\ acks' = [acks EXCEPT ![u] = {}]
    /\ UNCHANGED <<cvars, uploaded, doLastUpload, dbvars, faults, deletes>>

\* The thread's wait for work, and its look at the interval.
UploadWanted == measuring \/ doLastUpload
UploadForbidden == periodicUploadMinutes = 0 /\ ~doLastUpload

ThreadUploads(u) ==
    /\ ~ThreadUploading /\ ~idling
    /\ UploadWanted /\ ~UploadForbidden
    /\ OpenStream(u, Unsent)

\* With an interval of 0 the thread waits for the end of the measurement ...
ThreadIdles ==
    /\ ~ThreadUploading /\ ~idling
    /\ UploadWanted /\ UploadForbidden
    /\ idling' = TRUE
    /\ UNCHANGED <<recorded, uploaded, measuring, periodicUploadMinutes,
                   doLastUpload, sampling, client, server, link, acks, dbvars,
                   faults, deletes>>

\* ... which it misses when the next one begins before it looks.
ThreadAwakes ==
    /\ idling /\ ~measuring
    /\ idling' = FALSE
    /\ UNCHANGED <<recorded, uploaded, measuring, periodicUploadMinutes,
                   doLastUpload, sampling, client, server, link, acks, dbvars,
                   faults, deletes>>

\* An empty measurement id in the request selects the unsent samples.
RequestUploads(u) ==
    \E S \in {Unsent} \cup {recorded \cap SamplesOf(m) : m \in Measurements} :
        OpenStream(u, S)

\* The handler looks a measurement up, or inserts it, only when the sample
\* before was of another one, and keeps the id it found for the batch.
CachedId(u, s) == server[u].msmt = MsmtOf[s]

\* Faulty variants: the id of the first sample is kept for all of them, and
\* the id of a row just inserted is not fetched.
LookUpIdOnce(u, s) ==
    IF server[u].id # 0 THEN server[u].id
    ELSE IF msmtRow[MsmtOf[s]] # 0 THEN msmtRow[MsmtOf[s]] ELSE nextId
LookUpIdOfKnown(u, s) ==
    IF CachedId(u, s) THEN server[u].id
    ELSE IF msmtRow[MsmtOf[s]] # 0 THEN msmtRow[MsmtOf[s]] ELSE None

LookUpId(u, s) ==
    IF CachedId(u, s) THEN server[u].id
    ELSE IF msmtRow[MsmtOf[s]] # 0 THEN msmtRow[MsmtOf[s]] ELSE nextId

Insertion(u, s) == ~CachedId(u, s) /\ msmtRow[MsmtOf[s]] = 0

\* Write of the client and the handler's next turn of its loop.
SendSample(u, s) ==
    /\ client[u].pc = "sending" /\ link[u] = "up"
    /\ s \in client[u].toSend
    /\ client' = [client EXCEPT ![u].toSend = @ \ {s}]
    /\ server' = [server EXCEPT
                    ![u].msmt = MsmtOf[s],
                    ![u].id = LookUpId(u, s),
                    ![u].batch = @ \cup {<<s, LookUpId(u, s)>>}]
    /\ IF Insertion(u, s)
       THEN /\ msmtRow' = [msmtRow EXCEPT ![MsmtOf[s]] = nextId]
            /\ nextId' = nextId + 1
       ELSE UNCHANGED <<msmtRow, nextId>>
    /\ UNCHANGED <<cvars, uploaded, doLastUpload, link, acks, rows, faults,
                   deletes, erased>>

\* WritesDone reaches the handler, whose loop over the stream ends.
EndOfStream(u) ==
    /\ client[u].pc = "sending" /\ link[u] = "up"
    /\ client[u].toSend = {}
    /\ client' = [client EXCEPT ![u].pc = "sent"]
    /\ server' = [server EXCEPT ![u].pc = "inserting"]
    /\ UNCHANGED <<cvars, uploaded, doLastUpload, link, acks, dbvars, faults, deletes>>

-----------------------------------------------------------------------------
(* putMeasurement after its loop: one INSERT for all samples, commit, then  *)
(* one ack for each sample received, whether the row was new or not.        *)

\* Faulty variant: only rows that are new are acknowledged.
NewInBatch(u) == {r[1] : r \in server[u].batch \ rows}

BatchOf(u) == {r[1] : r \in server[u].batch}

\* Faulty variant: no foreign key.
NoForeignKey(u) == TRUE

\* The foreign key of measurement_data: no sample without its measurement.
KnownIds(u) == \A r \in server[u].batch : \E m \in Measurements : msmtRow[m] = r[2]

StoreBatch(u) ==
    /\ server[u].pc = "inserting"
    /\ KnownIds(u)
    /\ rows' = rows \cup server[u].batch
    /\ IF link[u] = "up"
       THEN /\ acks' = [acks EXCEPT ![u] = BatchOf(u)]
            /\ link' = [link EXCEPT ![u] = "closed"]
       ELSE UNCHANGED <<acks, link>>
    /\ server' = [server EXCEPT ![u] = IdleServer]
    /\ UNCHANGED <<cvars, uploaded, doLastUpload, client, msmtRow, nextId,
                   faults, deletes, erased>>

\* Faulty variant: the samples are acknowledged although the INSERT failed.
RejectAndAck(u) ==
    /\ server[u].pc = "inserting"
    /\ ~KnownIds(u)
    /\ server' = [server EXCEPT ![u] = IdleServer]
    /\ acks' = [acks EXCEPT ![u] = BatchOf(u)]
    /\ UNCHANGED <<cvars, uploaded, doLastUpload, client, link, dbvars, faults, deletes>>

\* A measurement of the batch was deleted meanwhile: the INSERT raises, the
\* transaction is rolled back and the call ends with an error status.
RejectBatch(u) ==
    /\ server[u].pc = "inserting"
    /\ ~KnownIds(u)
    /\ server' = [server EXCEPT ![u] = IdleServer]
    /\ link' = [link EXCEPT ![u] = "down"]
    /\ UNCHANGED <<cvars, uploaded, doLastUpload, client, acks, dbvars, faults, deletes>>

-----------------------------------------------------------------------------
(* The ack thread of the client: its transaction is committed at the end of *)
(* the stream, whatever ended it.                                           *)

ReadAck(u, s) ==
    /\ Active(u)
    /\ s \in acks[u]
    /\ acks' = [acks EXCEPT ![u] = @ \ {s}]
    /\ client' = [client EXCEPT ![u].acked = @ \cup {s}]
    /\ UNCHANGED <<cvars, uploaded, doLastUpload, server, link, dbvars, faults, deletes>>

\* The upload thread forgets that a last upload was due after every upload,
\* the failed ones included.
CloseClientHalf(u) ==
    /\ client' = [client EXCEPT ![u] = IdleClient]
    /\ acks' = [acks EXCEPT ![u] = {}]
    /\ doLastUpload' = (doLastUpload /\ u \notin ThreadStreams)

\* Faulty variants: whatever was written to the stream is marked as uploaded,
\* and a broken connection is not noticed.
FinishUploadOfSent(u) ==
    /\ Active(u)
    /\ \/ link[u] = "closed" /\ acks[u] = {}
       \/ link[u] = "down"
    /\ uploaded' = uploaded \cup (recorded \ client[u].toSend)
    /\ CloseClientHalf(u)
    /\ UNCHANGED <<cvars, server, link, dbvars, faults, deletes>>
FinishUploadOfAcked(u) ==
    /\ Active(u)
    /\ link[u] = "closed" /\ acks[u] = {}
    /\ uploaded' = uploaded \cup client[u].acked
    /\ CloseClientHalf(u)
    /\ UNCHANGED <<cvars, server, link, dbvars, faults, deletes>>

\* Read returned false: all acks were read, or the connection broke.
FinishUpload(u) ==
    /\ Active(u)
    /\ \/ link[u] = "closed" /\ acks[u] = {}
       \/ link[u] = "down"
    /\ uploaded' = uploaded \cup client[u].acked
    /\ CloseClientHalf(u)
    /\ UNCHANGED <<cvars, server, link, dbvars, faults, deletes>>

-----------------------------------------------------------------------------
(* Failures.                                                                *)

Fault == faults < MaxFaults /\ faults' = faults + 1

\* A handler that still reads gets an error from its request iterator; one
\* past its loop does not look at the connection before its first yield.
AbortReader(u) == IF server[u].pc = "reading" THEN IdleServer ELSE server[u]

BreakLink(u) ==
    /\ Fault
    /\ Active(u) /\ link[u] # "down"
    /\ link' = [link EXCEPT ![u] = "down"]
    /\ server' = [server EXCEPT ![u] = AbortReader(u)]
    /\ UNCHANGED <<cvars, uploaded, doLastUpload, client, acks, dbvars, deletes>>

\* The writer thread gets an error from its database or on a timestamp and
\* ends the stream early, as if it had written every row.
WriterFails(u) ==
    /\ Fault
    /\ client[u].pc = "sending" /\ link[u] = "up"
    /\ client' = [client EXCEPT ![u].pc = "sent"]
    /\ server' = [server EXCEPT ![u].pc = "inserting"]
    /\ UNCHANGED <<cvars, uploaded, doLastUpload, link, acks, dbvars, deletes>>

\* The ack thread's transaction fails (say, a deadlock with the transaction
\* of a concurrent upload): it is rolled back and the call is cancelled.
AckTransactionFails(u) ==
    /\ Fault
    /\ Active(u)
    /\ server' = [server EXCEPT ![u] = AbortReader(u)]
    /\ link' = [link EXCEPT ![u] = "down"]
    /\ CloseClientHalf(u)
    /\ UNCHANGED <<cvars, uploaded, dbvars, deletes>>

ClientCrash ==
    /\ Fault
    /\ client' = [u \in Streams |-> IdleClient]
    /\ acks' = [u \in Streams |-> {}]
    /\ server' = [u \in Streams |-> AbortReader(u)]
    /\ link' = [u \in Streams |-> IF Active(u) THEN "down" ELSE link[u]]
    /\ measuring' = FALSE /\ sampling' = FALSE
    /\ periodicUploadMinutes' = DefaultInterval
    /\ doLastUpload' = FALSE /\ idling' = FALSE
    /\ UNCHANGED <<recorded, uploaded, dbvars, deletes>>

ServerCrash ==
    /\ Fault
    /\ server' = [u \in Streams |-> IdleServer]
    /\ link' = [u \in Streams |-> IF Active(u) THEN "down" ELSE link[u]]
    /\ UNCHANGED <<cvars, uploaded, doLastUpload, client, acks, dbvars, deletes>>

\* The web application deletes the samples and the measurement in one
\* transaction.
DeleteMeasurement(m) ==
    /\ deletes < MaxDeletes
    /\ deletes' = deletes + 1
    /\ msmtRow[m] # 0
    /\ LET gone == {r \in rows : r[2] = msmtRow[m]} IN
         /\ rows' = rows \ gone
         /\ erased' = erased \cup {r[1] : r \in gone}
    /\ msmtRow' = [msmtRow EXCEPT ![m] = 0]
    /\ UNCHANGED <<cvars, uploaded, doLastUpload, client, server, link, acks,
                   nextId, faults>>

-----------------------------------------------------------------------------
Next ==
    \/ \E i \in Intervals : ApplySettings(i)
    \/ StartMeasurement \/ StopMeasurement \/ PinpointStarts \/ PinpointStops
    \/ \E s \in Samples : Record(s)
    \/ \E u \in ThreadStreams : ThreadUploads(u)
    \/ ThreadIdles \/ ThreadAwakes
    \/ \E u \in RequestStreams : RequestUploads(u)
    \/ \E u \in Streams :
          \/ \E s \in Samples : SendSample(u, s) \/ ReadAck(u, s)
          \/ EndOfStream(u) \/ StoreBatch(u) \/ RejectBatch(u)
          \/ FinishUpload(u) \/ BreakLink(u) \/ WriterFails(u)
          \/ AckTransactionFails(u)
    \/ ClientCrash \/ ServerCrash
    \/ \E m \in Measurements : DeleteMeasurement(m)

\* The threads of both programs run, and the network delivers or reports a
\* failure.  Nothing forces a user, a request or a fault.
StreamProgress(u) ==
    \/ \E s \in Samples : SendSample(u, s) \/ ReadAck(u, s)
    \/ EndOfStream(u) \/ StoreBatch(u) \/ RejectBatch(u) \/ FinishUpload(u)

ThreadProgress ==
    (\E u \in ThreadStreams : ThreadUploads(u)) \/ ThreadIdles \/ ThreadAwakes

Fairness ==
    /\ WF_vars(ThreadProgress)
    /\ \A u \in Streams : WF_vars(StreamProgress(u))

Spec == Init /\ [][Next]_vars
FairSpec == Spec /\ Fairness

-----------------------------------------------------------------------------
(* Properties.                                                              *)

\* A sample that the client will not send again of its own accord (its
\* was_uploaded is set) is in the server's database, unless the user deleted
\* its measurement there after it had arrived.
UploadedIsKept == uploaded \subseteq Held \cup erased

\* However often a sample is sent (again after a lost ack, by a request and
\* the thread at once, by a handler that outlived its connection, after its
\* measurement was deleted and created anew), the server has one row of it.
OneRowPerSample == \A r1, r2 \in rows : r1[1] = r2[1] => r1 = r2

\* The id that the handler caches while it reads never attributes a sample to
\* another measurement or to one that no longer exists.
RowsOfTheirMeasurement == \A r \in rows : msmtRow[MsmtOf[r[1]]] = r[2]

\* Recording, delivering, confirming and deleting are all that happens to a
\* sample: the upload implements the reliable transfer.
Transfer == INSTANCE ReliableTransfer WITH
    delivered <- Held \cup erased, held <- Held, confirmed <- uploaded
ImplementsTransfer == Transfer!TSpec

\* While the client keeps measuring with an upload interval, every sample it
\* recorded is marked as uploaded some day, whatever finite number of streams
\* fails.  A thread that still waits for the end of an earlier measurement that
\* was not to be uploaded is excepted: it may have missed it for good (see
\* UploadsGoOn of MeasurementControl).
UploadsDue == measuring /\ periodicUploadMinutes # 0 /\ ~idling
EventuallyUploaded ==
    <>[]UploadsDue => \A s \in Samples : (s \in recorded) ~> (s \in uploaded)

\* The upload thread, which holds measuringMtx meanwhile, always gets out of
\* an upload, so that starting and stopping are never blocked for good.
UploadsEnd == \A u \in Streams : Active(u) ~> ~Active(u)
=============================================================================
