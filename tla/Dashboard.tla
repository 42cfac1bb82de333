----------------------------- MODULE Dashboard -----------------------------
(***************************************************************************)
(* The dashboard of the browser: frontend/src/App.tsx, which keeps the     *)
(* list of runs and selects one of them, and hooks/useDashboardData.ts,    *)
(* which keeps the data of that run, both by polling the REST API.         *)
(*                                                                         *)
(* A dashboard request is nine GETs awaited together (Promise.all): the    *)
(* run itself, and its rows.  The server may move on between any two of    *)
(* them, and answers come back in any order.  requestId is a counter that  *)
(* is only ever compared with its newest value, so a request here carries  *)
(* whether it is the newest, instead of its number.                        *)
(***************************************************************************)
EXTENDS Integers, Sequences, FiniteSets

CONSTANTS
    Runs,          \* ids of the runs that may exist
    None,          \* no run
    MaxProgress,   \* bound: rounds a run stores on the server
    MaxInFlight    \* bound: dashboard requests under way at a time

ASSUME DashboardAssumption ==
    /\ None \notin Runs
    /\ MaxProgress \in Nat
    /\ MaxInFlight \in Nat \ {0}

VARIABLES
    stored,        \* the server: rounds stored per run that exists
    selectedRun,   \* App: the selected run or None
    lists,         \* App: the preferRun of every list request under way
    autoRefresh,   \* App: the polling switch
    data,          \* hook: the data shown, or NoData
    requests,      \* hook: the dashboard requests under way
    loading, refreshing, error    \* hook: its three flags

serverVars == <<stored>>
appVars    == <<selectedRun, lists, autoRefresh>>
hookVars   == <<data, requests, loading, refreshing, error>>
dashboardVars == <<stored, selectedRun, lists, autoRefresh,
                   data, requests, loading, refreshing, error>>

Created == DOMAIN stored

Unread == -1                  \* this part of the answer has not been read yet
Parts == {"summary", "rows"}
NoData == [run |-> None, summary |-> Unread, rows |-> Unread]    \* emptyData

-----------------------------------------------------------------------------
(* The hook. *)

\* ++requestId: whatever is under way is no longer the newest.
Outdate(rs) == { [r EXCEPT !.newest = FALSE] : r \in rs }

NewRequest(run) ==
    [run |-> run, newest |-> TRUE, failed |-> FALSE, summary |-> Unread, rows |-> Unread]

\* Mutant: deselecting a run outdates the request in flight as well.
RefreshNothingOutdating ==
    /\ data' = NoData
    /\ requests' = Outdate(requests)
    /\ UNCHANGED <<loading, refreshing, error>>

\* Without a run the data is emptied, and that is all.
RefreshNothing ==
    /\ data' = NoData
    /\ UNCHANGED <<requests, loading, refreshing, error>>

Refresh(run, quiet) ==
    \/ run = None /\ RefreshNothing
    \/ /\ run # None
       /\ requests' = Outdate(requests) \cup {NewRequest(run)}
       /\ loading' = (loading \/ ~quiet)
       /\ refreshing' = (refreshing \/ quiet)
       /\ UNCHANGED <<data, error>>

Room == Cardinality(requests) < MaxInFlight

\* The effect on [runId]: it runs when the selected run has changed.
Select(run) ==
    /\ selectedRun' = run
    /\ IF run = selectedRun THEN UNCHANGED hookVars
       ELSE (run # None => Room) /\ Refresh(run, FALSE)

\* The interval of the hook.
PollData ==
    /\ autoRefresh /\ selectedRun # None
    /\ Room
    /\ Refresh(selectedRun, TRUE)
    /\ UNCHANGED <<serverVars, appVars>>

\* The refresh button, and Retry, of the page.
RefreshByHand ==
    /\ Room
    /\ Refresh(selectedRun, FALSE)
    /\ UNCHANGED <<serverVars, appVars>>

\* The server answers one part of a request.
Serve(r, part) ==
    /\ r[part] = Unread /\ ~r.failed
    /\ requests' = (requests \ {r}) \cup { [r EXCEPT ![part] = stored[r.run]] }
    /\ UNCHANGED <<serverVars, appVars, data, loading, refreshing, error>>

\* One of the nine GETs fails, and Promise.all with it.
FailRequest(r) ==
    /\ ~r.failed /\ \E part \in Parts : r[part] = Unread
    /\ requests' = (requests \ {r}) \cup
                    { [r EXCEPT !.failed = TRUE, !.summary = Unread, !.rows = Unread] }
    /\ UNCHANGED <<serverVars, appVars, data, loading, refreshing, error>>

Answered(r) == r.failed \/ \A part \in Parts : r[part] # Unread

\* Mutant: every answer is taken.
TakesAny(r) == TRUE

\* Mutant: a quiet refresh is not shown.
TakesLoud(r) == r.newest /\ loading

\* An answer is taken if it is the newest request's.
Takes(r) == r.newest

\* Mutant: a failure is not reported.
ErrorNever(r) == FALSE

\* setError(message) in the catch block, setError(null) otherwise.
ErrorAfter(r) == r.failed

Deliver(r) ==
    /\ Answered(r)
    /\ requests' = requests \ {r}
    /\ \/ /\ Takes(r)
          /\ data' = IF r.failed THEN data
                     ELSE [run |-> r.run, summary |-> r.summary, rows |-> r.rows]
          /\ error' = ErrorAfter(r)
          /\ loading' = FALSE /\ refreshing' = FALSE
       \/ ~Takes(r) /\ UNCHANGED <<data, error, loading, refreshing>>
    /\ UNCHANGED <<serverVars, appVars>>

-----------------------------------------------------------------------------
(* The application. *)

\* Choosing in the picker, where "" stands for no simulation.  The list in the
\* picker is left out: it offers some of the runs that exist.
SelectByHand(run) ==
    /\ run \in Created \cup {None}
    /\ run # selectedRun
    /\ Select(run)
    /\ UNCHANGED <<serverVars, lists, autoRefresh>>

ToggleAutoRefresh ==
    /\ autoRefresh' = ~autoRefresh
    /\ UNCHANGED <<serverVars, selectedRun, lists, hookVars>>

\* loadRuns: on the interval, on a change of route, by Retry.
LoadRuns ==
    /\ lists' = lists \cup {None}
    /\ UNCHANGED <<serverVars, selectedRun, autoRefresh, hookVars>>

\* The POST of startSimulation has created a run; loadRuns is told to prefer
\* it.  One simulation is started at a time (the button is disabled).
StartSimulation(run) ==
    /\ run \notin Created /\ lists \subseteq {None}
    /\ stored' = [r \in Created \cup {run} |-> IF r = run THEN 0 ELSE stored[r]]
    /\ lists' = lists \cup {run}
    /\ UNCHANGED <<selectedRun, autoRefresh, hookVars>>

\* preferRun || current || next[0]; startSimulation selects its run in any case.
Preferred(prefer, first) ==
    IF prefer # None THEN prefer
    ELSE IF selectedRun # None THEN selectedRun ELSE first

\* A list arrives, in any order.  The order within the list is left open.
DeliverList(prefer) ==
    /\ lists' = lists \ {prefer}
    /\ \E first \in (IF Created = {} THEN {None} ELSE Created) : Select(Preferred(prefer, first))
    /\ UNCHANGED <<serverVars, autoRefresh>>

\* loadRuns swallows the error; a run just started is selected all the same.
FailList(prefer) ==
    /\ lists' = lists \ {prefer}
    /\ Select(Preferred(prefer, selectedRun))
    /\ UNCHANGED <<serverVars, autoRefresh>>

-----------------------------------------------------------------------------
\* The simulation behind the API stores another round.
Advance(run) ==
    /\ run \in Created /\ stored[run] < MaxProgress
    /\ stored' = [stored EXCEPT ![run] = @ + 1]
    /\ UNCHANGED <<appVars, hookVars>>

DashboardInit ==
    /\ stored \in { [r \in S |-> 0] : S \in SUBSET Runs }
    /\ selectedRun = None /\ lists = {None} /\ autoRefresh = TRUE
    /\ data = NoData /\ requests = {}
    /\ loading = FALSE /\ refreshing = FALSE /\ error = FALSE

DashboardNext ==
    \/ PollData \/ RefreshByHand \/ ToggleAutoRefresh \/ LoadRuns
    \/ \E r \in requests : FailRequest(r) \/ Deliver(r) \/ \E part \in Parts : Serve(r, part)
    \/ \E prefer \in lists : DeliverList(prefer) \/ FailList(prefer)
    \/ \E run \in Runs \cup {None} : SelectByHand(run)
    \/ \E run \in Runs : StartSimulation(run) \/ Advance(run)

\* The timer fires again and again while the switch is on, and an answer that
\* has arrived is processed; strongly, because a new request may come first.
DashboardFairness ==
    /\ WF_dashboardVars(PollData)
    /\ WF_dashboardVars(\E r \in requests : Deliver(r))
    /\ WF_dashboardVars(\E r \in requests, part \in Parts : Serve(r, part))
    /\ SF_dashboardVars(\E r \in requests : r.newest /\ ~r.failed /\ Deliver(r))

DashboardSpec == DashboardInit /\ [][DashboardNext]_dashboardVars /\ DashboardFairness

-----------------------------------------------------------------------------
\* Under a selected run the page never passes another run's data off as its
\* own: it shows the spinner, or nothing yet, or the error banner.  (With no
\* run selected it may: an answer in flight is still taken, useDashboardData.ts:26.)
ForeignDataIsFlagged ==
    (selectedRun # None /\ ~loading) =>
        \/ data = NoData
        \/ data.run = selectedRun
        \/ error

\* What is shown of a run never goes back in time, part by part, whatever
\* order answers arrive in (the comparison with requestId.current).
DisplayNeverGoesBack ==
    [][ (data.run # None /\ data'.run = data.run) =>
            \A part \in Parts : data'[part] >= data[part] ]_dashboardVars

\* A spinner is never left on: while one is shown the newest request is under
\* way, and its answer, good or bad, will clear it (the flags are cleared by
\* the newest request alone, and deselecting a run keeps it the newest).
SpinnerHasARequest ==
    (loading \/ refreshing) => \E r \in requests : r.newest

\* The network keeps up with the poll now and then: some newest request is
\* answered before the next one makes it stale.  The code does not see to it;
\* with every answer slower than the interval nothing is ever shown.
AnsweredInTime == \E r \in requests : r.newest /\ ~r.failed /\ Answered(r)

\* While polling stays on and a run stays selected, its data catches up with
\* what the server has stored, the two parts with each other too, whatever
\* else was in flight when it was selected.
CatchesUp ==
    \A run \in Runs :
        (<>[](autoRefresh /\ selectedRun = run) /\ []<>AnsweredInTime) =>
            <>[](/\ data.run = run
                 /\ data.summary = stored[run] /\ data.rows = stored[run])
=============================================================================
