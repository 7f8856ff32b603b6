-------------------------------- MODULE Plotter --------------------------------
(***************************************************************************)
(* The page of a device under test in the plotter                           *)
(* (src/server/plotter/pages/dut.py): the user chooses a run, measurements,  *)
(* a time frame and a bin width, and asks for the graphs, while samples       *)
(* arrive and the management application deletes measurements.              *)
(*                                                                          *)
(* The page's callbacks are called by Dash: a change of one of its inputs   *)
(* requests a callback; a request replaces an earlier one of the same       *)
(* callback, the result of which is no longer heard of if it already runs;  *)
(* and a callback waits for those that are to set one of its inputs.  So a   *)
(* callback that is heard of has had the inputs that the page has.          *)
(***************************************************************************)
EXTENDS Integers, FiniteSets

CONSTANTS
    Msmts,        \* measurements of the device under test
    RunIds,       \* its runs as the page lists them
    RunOf,        \* the run of each measurement
    OpenRuns,     \* runs without a stop time
    MaxTime,      \* time goes from 0 to MaxTime; runs begin at 0
    BinWidths, DefaultBin,
    MaxInputs,    \* bound on what the user does
    MaxChanges,   \* bound on changes of the database
    None

ASSUME RunOfAssumption == RunOf \in [Msmts -> RunIds] /\ OpenRuns \subseteq RunIds
ASSUME NumbersAssumption ==
    /\ MaxTime \in Nat /\ BinWidths \subseteq Nat \ {0} /\ DefaultBin \in BinWidths
    /\ MaxInputs \in Nat /\ MaxChanges \in Nat
\* A measurement is not one of the other queries of showMsmtPlot.
ASSUME MsmtsAssumption == Msmts \cap {"sum", "hour", "day"} = {}
ASSUME NoneAssumption ==
    None \notin RunIds \cup 0..MaxTime \cup BinWidths /\ \A S \in SUBSET (Msmts \cup Msmts \X (0..MaxTime)) : None # S

VARIABLES
    samples,    \* rows of measurement_data: measurement and time
    existing,   \* rows of measurements
    runs,       \* rows of runs
    \* The page.
    run,        \* runIdDropdown
    msmts,      \* dutMsmtDropdown
    start, end, \* dutMsmtTimeSelect
    bin,        \* dutMsmtBinSelect, None if it is cleared
    clicks,     \* n_clicks of dutShowMsmtBtn
    disabled,   \* whether it is disabled
    shown,      \* what the graphs show: what was chosen, and the rows read for each
    pending,    \* callbacks that are requested or run
    read,       \* rows that showMsmtPlot has read so far, for each of its queries
    news,       \* history: rows that were added or deleted since it began
    inputs,     \* number of inputs so far
    changes     \* number of changes of the database so far

page == <<run, msmts, start, end, bin, clicks, disabled, shown>>
vars == <<samples, existing, runs, run, msmts, start, end, bin, clicks, disabled, shown, pending, read,
          news, inputs, changes>>
dbvars == <<samples, existing, runs, changes>>

Times == 0..MaxTime
Rows == Msmts \X Times
Callbacks == {"selection", "range", "button", "plot"}
Queries == {"sum", "hour", "day"} \cup Msmts
Choice == [msmts |-> msmts, start |-> start, end |-> end, bin |-> bin]
Choices == [msmts : {None} \cup SUBSET Msmts, start : Times \cup {None},
            end : Times \cup {None}, bin : BinWidths]
Graphs == [choice : Choices, rows : [Queries -> SUBSET Rows], news : SUBSET Rows]

Nothing == [q \in Queries |-> None]
Smallest(S) == CHOOSE x \in S : \A y \in S : x <= y
Largest(S) == CHOOSE x \in S : \A y \in S : x >= y
TimesOf(m) == {s[2] : s \in {x \in samples : x[1] = m}}

TypeOK ==
    /\ samples \subseteq Rows /\ existing \subseteq Msmts /\ runs \subseteq RunIds
    /\ \A s \in samples : s[1] \in existing
    /\ \A m \in existing : RunOf[m] \in runs
    /\ run \in RunIds \cup {None}
    /\ msmts \in {None} \cup SUBSET Msmts
    /\ start \in Times \cup {None} /\ end \in Times \cup {None}
    /\ bin \in BinWidths \cup {None}
    /\ clicks \in 0..1 /\ disabled \in BOOLEAN
    /\ shown = None \/ shown \in Graphs
    /\ pending \subseteq Callbacks
    /\ read \in [Queries -> {None} \cup SUBSET Rows]
    /\ "plot" \notin pending => read = Nothing /\ news = {}
    /\ news \subseteq Rows
    /\ inputs \in 0..MaxInputs /\ changes \in 0..MaxChanges

\* The page as layoutDutPage makes it.
Init ==
    /\ \E from \in [Msmts -> Times] : samples = {<<m, from[m]>> : m \in Msmts}
    /\ existing = Msmts /\ runs = RunIds
    /\ run = None /\ msmts = None /\ start = None /\ end = None
    /\ bin = DefaultBin
    /\ clicks = 0 /\ disabled = TRUE /\ shown = None
    /\ pending = {} /\ read = Nothing /\ news = {} /\ inputs = 0 /\ changes = 0

-----------------------------------------------------------------------------
(* Dash.                                                                    *)

InputsOf ==
    [selection |-> {"run"}, range |-> {"run", "msmts"},
     button |-> {"start", "end", "msmts", "bin"},
     plot |-> {"start", "end", "msmts", "bin", "clicks"}]
\* Faulty variant: the bin width is no input of the graphs.
InputsWithoutBin == [InputsOf EXCEPT !.plot = @ \ {"bin"}]
TriggeredBy == InputsOf
OutputsOf ==
    [selection |-> {"msmts"}, range |-> {"start", "end"}, button |-> {}, plot |-> {"clicks"}]

\* These have changed, and the callback that has changed them is done.
Changed(props, done) ==
    LET requested == {c \in Callbacks \ done : TriggeredBy[c] \cap props # {}} IN
    /\ pending' = (pending \ done) \cup requested
    /\ IF "plot" \in done \cup requested
       THEN read' = Nothing /\ news' = {}
       ELSE UNCHANGED <<read, news>>

Ready(c) ==
    /\ c \in pending
    /\ \A d \in pending \ {c} : OutputsOf[d] \cap TriggeredBy[c] = {}

-----------------------------------------------------------------------------
(* The user.                                                                *)

Input ==
    /\ inputs < MaxInputs /\ inputs' = inputs + 1
    /\ UNCHANGED <<dbvars, shown, disabled>>

ChooseRun(r) ==
    /\ Input /\ run' = r /\ Changed({"run"}, {})
    /\ UNCHANGED <<msmts, start, end, bin, clicks>>
ChooseMsmts(S) ==
    /\ Input /\ msmts' = S /\ Changed({"msmts"}, {})
    /\ UNCHANGED <<run, start, end, bin, clicks>>
ChooseStart(t) ==
    /\ Input /\ start' = t /\ Changed({"start"}, {})
    /\ UNCHANGED <<run, msmts, end, bin, clicks>>
ChooseEnd(t) ==
    /\ Input /\ end' = t /\ Changed({"end"}, {})
    /\ UNCHANGED <<run, msmts, start, bin, clicks>>
\* A dropdown can be cleared, too.
ChooseBin(w) ==
    /\ Input /\ bin' = w /\ Changed({"bin"}, {})
    /\ UNCHANGED <<run, msmts, start, end, clicks>>
\* More clicks count as one: what counts is whether there is any.
Click ==
    /\ ~disabled
    /\ Input /\ clicks' = 1 /\ Changed({"clicks"}, {})
    /\ UNCHANGED <<run, msmts, start, end, bin>>

-----------------------------------------------------------------------------
(* The database: a measurement's samples arrive in their order, and all of   *)
(* them go with the measurement.                                            *)

Change == changes < MaxChanges /\ changes' = changes + 1

Upload(m, t) ==
    /\ Change
    /\ m \in existing /\ \A u \in TimesOf(m) : u < t
    /\ samples' = samples \cup {<<m, t>>}
    /\ news' = IF "plot" \in pending THEN news \cup {<<m, t>>} ELSE news
    /\ UNCHANGED <<existing, runs, page, pending, read, inputs>>

\* Faulty variant: the samples of the measurement stay.
DeleteMeasurementOnly(m) ==
    /\ Change
    /\ m \in existing
    /\ existing' = existing \ {m}
    /\ UNCHANGED <<samples, runs, news, page, pending, read, inputs>>
DeleteMeasurement(m) ==
    /\ Change
    /\ m \in existing
    /\ existing' = existing \ {m}
    /\ samples' = {s \in samples : s[1] # m}
    /\ news' = IF "plot" \in pending THEN news \cup (samples \ samples') ELSE news
    /\ UNCHANGED <<runs, page, pending, read, inputs>>

\* A run that no measurement refers to.
DeleteRun(r) ==
    /\ r \in runs /\ \A m \in existing : RunOf[m] # r
    /\ runs' = runs \ {r}
    /\ UNCHANGED <<samples, existing, changes, page, pending, read, news, inputs>>

-----------------------------------------------------------------------------
(* updateRunSelection, updateStartEndSelection, showMsmtButton.             *)

UpdateRunSelection ==
    /\ Ready("selection")
    /\ msmts' = IF run = None THEN None ELSE {m \in existing : RunOf[m] = run}
    /\ Changed({"msmts"}, {"selection"})
    /\ UNCHANGED <<dbvars, run, start, end, bin, clicks, disabled, shown, inputs>>

Now == IF samples = {} THEN 0 ELSE Largest({s[2] : s \in samples})

\* From where the last of the measurements begins to where the first of them ends.
CommonTimes(S) ==
    LET some == {m \in S : TimesOf(m) # {}} IN
    IF some = {} THEN <<None, None>>
    ELSE <<Largest({Smallest(TimesOf(m)) : m \in some}),
           Smallest({Largest(TimesOf(m)) : m \in some})>>

\* The times of the run, which may be another one's than the measurements'.
UpdateStartEndSelection ==
    /\ Ready("range") /\ run \in runs \cup {None}
    /\ LET times == IF run # None
                    THEN <<0, IF run \in OpenRuns THEN Now ELSE MaxTime>>
                    ELSE CommonTimes(IF msmts = None THEN {} ELSE msmts) IN
       start' = times[1] /\ end' = times[2]
    /\ Changed({"start", "end"}, {"range"})
    /\ UNCHANGED <<dbvars, run, msmts, bin, clicks, disabled, shown, inputs>>

\* The run has been deleted: there is no row, and the page stays as it is.
RangeFails ==
    /\ Ready("range") /\ run \notin runs \cup {None}
    /\ Changed({}, {"range"})
    /\ UNCHANGED <<dbvars, page, inputs>>

ShowMsmtButton ==
    /\ Ready("button")
    /\ disabled' = (start = None \/ end = None \/ msmts \in {None, {}} \/ bin = None)
    /\ pending' = pending \ {"button"}
    /\ UNCHANGED <<dbvars, run, msmts, start, end, bin, clicks, shown, read, news, inputs>>

-----------------------------------------------------------------------------
(* showMsmtPlot.                                                            *)

Chosen == IF msmts = None THEN {} ELSE msmts
\* WHERE server_measurement_id = ANY (...) AND measurement_timestamp BETWEEN ...
Between(S) ==
    IF start = None \/ end = None THEN {}
    ELSE {s \in samples : s[1] \in S /\ s[2] \in start..end}
\* Faulty variant: a part ends before the last time.
BeforeEnd(m) ==
    IF start = None \/ end = None THEN {}
    ELSE {s \in samples : s[1] = m /\ s[2] \in start..(end - 1)}
\* getMmtPtsBinned.
PartOf(m) == Between({m})

\* date_bin
BinOf(w, origin, t) == origin + ((t - origin) \div w) * w

\* The averages of a trace: what is averaged in each bin.
Trace(choice, rows) ==
    [b \in {BinOf(choice.bin, choice.start, s[2]) : s \in rows} |->
        {s \in rows : BinOf(choice.bin, choice.start, s[2]) = b}]

Building == Ready("plot") /\ clicks > 0
Reads(q, rows) ==
    /\ read[q] = None
    /\ read' = [read EXCEPT ![q] = rows]
    /\ UNCHANGED <<dbvars, page, pending, news, inputs>>

\* Three threads, of which the first has three more, each with a connection.
ReadSum == Building /\ Reads("sum", Between(Chosen))
ReadPart(m) == Building /\ read["sum"] # None /\ m \in Chosen /\ Reads(m, PartOf(m))
ReadHours == Building /\ Reads("hour", Between(Chosen))
ReadDays == Building /\ Reads("day", Between(Chosen))

AllRead == {"sum", "hour", "day"} \cup Chosen
Complete == Building /\ \A q \in AllRead : read[q] # None

\* Before the first click, and when another choice is made: there is nothing to see.
ClearPlot ==
    /\ Ready("plot") /\ clicks = 0
    /\ shown' = None
    /\ Changed({}, {"plot"})
    /\ UNCHANGED <<dbvars, run, msmts, start, end, bin, clicks, disabled, inputs>>

\* "Didn't get any data."
NoData ==
    /\ Complete /\ msmts # None /\ read["sum"] = {}
    /\ shown' = None /\ clicks' = 0
    /\ Changed({}, {"plot"})
    /\ UNCHANGED <<dbvars, run, msmts, start, end, bin, disabled, inputs>>

\* An iteration over no list, or over the columns of an empty frame, or the time of a
\* sample that is in no bin: the page stays as it is.
PlotFails ==
    /\ Complete
    /\ msmts = None \/ (read["sum"] # {} /\ (bin = None \/ read["day"] = {}))
    /\ Changed({}, {"plot"})
    /\ UNCHANGED <<dbvars, page, inputs>>

\* Faulty variant: the click still counts.
ClicksStay ==
    /\ Complete /\ msmts # None /\ bin # None /\ read["sum"] # {} /\ read["day"] # {}
    /\ shown' = [choice |-> Choice, rows |-> [q \in Queries |-> IF q \in AllRead THEN read[q] ELSE {}],
                 news |-> news]
    /\ Changed({}, {"plot"})
    /\ UNCHANGED <<dbvars, run, msmts, start, end, bin, clicks, disabled, inputs>>

ShowMsmtPlot ==
    /\ Complete /\ msmts # None /\ bin # None /\ read["sum"] # {} /\ read["day"] # {}
    /\ shown' = [choice |-> Choice, rows |-> [q \in Queries |-> IF q \in AllRead THEN read[q] ELSE {}],
                 news |-> news]
    /\ clicks' = 0
    /\ Changed({}, {"plot"})
    /\ UNCHANGED <<dbvars, run, msmts, start, end, bin, disabled, inputs>>

-----------------------------------------------------------------------------

Callback ==
    \/ UpdateRunSelection \/ UpdateStartEndSelection \/ RangeFails \/ ShowMsmtButton
    \/ ReadSum \/ (\E m \in Msmts : ReadPart(m)) \/ ReadHours \/ ReadDays
    \/ ClearPlot \/ NoData \/ PlotFails \/ ShowMsmtPlot

Next ==
    \/ \E r \in RunIds \cup {None} : ChooseRun(r)
    \/ \E S \in SUBSET Msmts : ChooseMsmts(S)
    \/ \E t \in Times : ChooseStart(t) \/ ChooseEnd(t)
    \/ \E w \in BinWidths \cup {None} : ChooseBin(w)
    \/ Click
    \/ \E m \in Msmts : (\E t \in Times : Upload(m, t)) \/ DeleteMeasurement(m)
    \/ \E r \in RunIds : DeleteRun(r)
    \/ Callback

Spec == Init /\ [][Next]_vars
\* The server answers the callbacks of the page.
FairSpec == Spec /\ WF_vars(Callback)

-----------------------------------------------------------------------------
(* Properties.                                                              *)

\* Graphs that are shown are those of what is chosen, once the callbacks are done and
\* unless the last one has failed (the click then still counts): a plot of an earlier
\* choice does not come after that of a later one.
ShownIsChosen ==
    shown # None /\ pending = {} /\ clicks = 0 => shown.choice = Choice

\* The summed trace is the sum of the traces of the measurements in each bin for which
\* no sample came or went while they were read, one query after the other; and the
\* graphs per day and per week are made from the same samples.
SumOfParts ==
    shown # None =>
        LET choice == shown.choice
            sum == Trace(choice, shown.rows["sum"])
            touched == {BinOf(choice.bin, choice.start, s[2]) : s \in shown.news} IN
        /\ \A m \in choice.msmts :
              LET part == Trace(choice, shown.rows[m]) IN
              \A b \in (DOMAIN sum \cup DOMAIN part) \ touched :
                  {s \in Rows : b \in DOMAIN sum /\ s \in sum[b] /\ s[1] = m}
                      = IF b \in DOMAIN part THEN part[b] ELSE {}
        /\ \A q \in {"hour", "day"} :
              shown.rows[q] \ shown.news = shown.rows["sum"] \ shown.news

\* A click is answered, whatever is chosen meanwhile, unless no measurement or no bin
\* width is chosen, or samples come or go while the graphs are built: one query may then
\* find some and another one none.  A click that has been lost to such a failure still
\* counts, and is answered when another choice is made.
ClicksAnswered ==
    clicks = 1 /\ "plot" \in pending ~>
        clicks = 0 \/ msmts = None \/ bin = None \/ news # {}
=============================================================================
