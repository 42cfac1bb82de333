--------------------------- MODULE DashboardProofs ---------------------------
(***************************************************************************)
(* Proofs about Dashboard: what the page shows, and what its spinner means,*)
(* for any number of runs, of rounds and of requests in flight, whatever   *)
(* order their parts are answered in and their answers arrive in.          *)
(***************************************************************************)
EXTENDS Dashboard, TLAPS

Readings == Nat \cup {Unread}
Requests == [run : Runs, newest : BOOLEAN, failed : BOOLEAN, summary : Readings, rows : Readings]
Shown == [run : Runs \cup {None}, summary : Readings, rows : Readings]

\* Runs are selected, asked for and shown only once the server has them.
TypeInv ==
    /\ Created \subseteq Runs /\ \A run \in Created : stored[run] \in Nat
    /\ selectedRun \in Created \cup {None}
    /\ lists \subseteq Created \cup {None}
    /\ data \in Shown /\ requests \subseteq Requests
    /\ \A r \in requests : r.run \in Created
    /\ loading \in BOOLEAN /\ refreshing \in BOOLEAN /\ error \in BOOLEAN

\* At most one request is the newest, and under a selected run it asks for that run.
NewestInv ==
    /\ \A r, s \in requests : r.newest /\ s.newest => r = s
    /\ selectedRun # None => \A r \in requests : r.newest => r.run = selectedRun

\* Two readings of a part, the later one not behind the earlier one.
Follows(later, earlier) == later # Unread => later >= earlier

\* The newest request has read nothing that was not stored.
ReadInv ==
    \A r \in requests : r.newest => stored[r.run] >= r.summary /\ stored[r.run] >= r.rows

\* What is shown was stored, and the newest request has read nothing older.
FreshInv ==
    data.run # None =>
        /\ data.run \in Created
        /\ stored[data.run] >= data.summary /\ stored[data.run] >= data.rows
        /\ \A r \in requests : r.newest /\ r.run = data.run =>
               Follows(r.summary, data.summary) /\ Follows(r.rows, data.rows)

DashboardInv ==
    /\ TypeInv /\ NewestInv /\ ReadInv /\ FreshInv
    /\ SpinnerHasARequest /\ ForeignDataIsFlagged

-----------------------------------------------------------------------------
(* The operations of the hook. *)

\* Nothing that was under way stays the newest.
LEMMA OutdateLemma ==
    ASSUME NEW rs, rs \subseteq Requests
    PROVE  \A s \in Outdate(rs) :
               /\ s \in Requests /\ ~s.newest
               /\ \E r \in rs : s.run = r.run
BY DEF Outdate, Requests

\* A request's fields once a part of it is answered.
LEMMA ServedRequest ==
    ASSUME NEW r \in Requests, NEW part \in Parts, NEW value \in Nat
    PROVE  LET s == [r EXCEPT ![part] = value]
           IN  /\ s \in Requests /\ s.run = r.run /\ s.newest = r.newest
               /\ s.summary = (IF part = "summary" THEN value ELSE r.summary)
               /\ s.rows = (IF part = "rows" THEN value ELSE r.rows)
<1>1. CASE part = "summary"
  BY <1>1 DEF Requests, Readings
<1>2. CASE part = "rows"
  BY <1>2 DEF Requests, Readings
<1>3. QED
  BY <1>1, <1>2 DEF Parts

LEMMA FailedRequest ==
    ASSUME NEW r \in Requests
    PROVE  LET s == [r EXCEPT !.failed = TRUE, !.summary = Unread, !.rows = Unread]
           IN  /\ s \in Requests /\ s.run = r.run /\ s.newest = r.newest
               /\ s.summary = Unread /\ s.rows = Unread
BY DEF Requests, Readings

LEMMA NewRequestLemma ==
    ASSUME NEW run \in Runs
    PROVE  LET s == NewRequest(run)
           IN  s \in Requests /\ s.run = run /\ s.newest /\ s.summary = Unread /\ s.rows = Unread
BY DEF NewRequest, Requests, Readings

\* A refresh of a run that exists, as the selection, the poll and the button do it.
LEMMA RefreshKeepsInv ==
    ASSUME DashboardInv, NEW run \in Created, NEW quiet \in BOOLEAN, Refresh(run, quiet),
           UNCHANGED stored, selectedRun' = run, lists' \subseteq Created \cup {None},
           run # selectedRun => ~quiet
    PROVE  DashboardInv'
<1>1. /\ run \in Runs /\ run # None
  BY DashboardAssumption DEF DashboardInv, TypeInv
<1>2. /\ requests' = Outdate(requests) \cup {NewRequest(run)}
      /\ loading' = (loading \/ ~quiet) /\ refreshing' = (refreshing \/ quiet)
      /\ data' = data /\ error' = error /\ stored' = stored /\ Created' = Created
  BY <1>1 DEF Refresh, Created
<1>3. requests \subseteq Requests /\ \A r \in requests : r.run \in Created
  BY DEF DashboardInv, TypeInv
<1>4. PICK new : new = NewRequest(run)
  OBVIOUS
<1>5. /\ new \in Requests /\ new.run = run /\ new.newest
      /\ new.summary = Unread /\ new.rows = Unread
  BY <1>1, <1>4, NewRequestLemma
<1>6. \A s \in requests' :
          /\ s \in Requests /\ s.run \in Created
          /\ s.newest => s = new
  BY <1>2, <1>3, <1>4, <1>5, OutdateLemma
<1>7. new \in requests'
  BY <1>2, <1>4
<1>8. TypeInv'
  BY <1>2, <1>6 DEF DashboardInv, TypeInv
<1>9. NewestInv'
  BY <1>5, <1>6 DEF NewestInv
<1>10. FreshInv'
  BY <1>2, <1>5, <1>6 DEF DashboardInv, FreshInv, Follows
<1>11. SpinnerHasARequest'
  BY <1>5, <1>7 DEF SpinnerHasARequest
<1>12. ForeignDataIsFlagged'
  BY <1>2 DEF DashboardInv, ForeignDataIsFlagged, TypeInv
<1>13. ReadInv'
  <2>1. stored[run] \in Nat
    BY DEF DashboardInv, TypeInv
  <2>2. stored[run] >= Unread
    BY <2>1 DEF Unread
  <2>3. QED
    BY <1>2, <1>5, <1>6, <2>2 DEF ReadInv
<1>14. QED
  BY <1>8, <1>9, <1>10, <1>11, <1>12, <1>13 DEF DashboardInv

\* Without a run the data goes, and the newest request stays in flight.
LEMMA RefreshNothingKeepsInv ==
    ASSUME DashboardInv, RefreshNothing, UNCHANGED stored, selectedRun' = None,
           lists' \subseteq Created \cup {None}
    PROVE  DashboardInv'
<1>1. /\ data' = NoData /\ requests' = requests /\ stored' = stored /\ Created' = Created
      /\ loading' = loading /\ refreshing' = refreshing /\ error' = error
  BY DEF RefreshNothing, Created
<1>2. NoData \in Shown /\ NoData.run = None
  BY DEF NoData, Shown, Readings
<1>3. TypeInv'
  BY <1>1, <1>2 DEF DashboardInv, TypeInv
<1>4. NewestInv' /\ ReadInv' /\ FreshInv' /\ SpinnerHasARequest' /\ ForeignDataIsFlagged'
  BY <1>1, <1>2 DEF DashboardInv, NewestInv, ReadInv, FreshInv, SpinnerHasARequest,
                    ForeignDataIsFlagged
<1>5. QED
  BY <1>3, <1>4 DEF DashboardInv

LEMMA SelectKeepsInv ==
    ASSUME DashboardInv, NEW run \in Created \cup {None}, Select(run), UNCHANGED stored,
           lists' \subseteq Created \cup {None}
    PROVE  DashboardInv'
<1>1. CASE run = selectedRun
  <2>1. /\ UNCHANGED hookVars /\ selectedRun' = selectedRun /\ Created' = Created
    BY <1>1 DEF Select, Created
  <2>2. QED
    BY <2>1 DEF hookVars, DashboardInv, TypeInv, NewestInv, ReadInv, FreshInv, SpinnerHasARequest,
                ForeignDataIsFlagged
<1>2. CASE run # selectedRun /\ run = None
  <2>1. RefreshNothing /\ selectedRun' = None
    BY <1>2 DEF Select, Refresh
  <2>2. QED
    BY <2>1, RefreshNothingKeepsInv
<1>3. CASE run # selectedRun /\ run # None
  <2>1. Refresh(run, FALSE) /\ selectedRun' = run /\ run \in Created
    BY <1>3 DEF Select
  <2>2. QED
    BY <2>1, RefreshKeepsInv
<1>4. QED
  BY <1>1, <1>2, <1>3

-----------------------------------------------------------------------------
(* The answers. *)

\* A request that is replaced by itself with other readings, none of them too old.
LEMMA ReplacedKeepsInv ==
    ASSUME DashboardInv, NEW r \in requests, NEW s \in Requests,
           s.run = r.run, s.newest = r.newest,
           s.summary \in {r.summary, Unread, stored[r.run]},
           s.rows \in {r.rows, Unread, stored[r.run]},
           requests' = (requests \ {r}) \cup {s},
           UNCHANGED <<serverVars, appVars, data, loading, refreshing, error>>
    PROVE  DashboardInv'
<1>1. /\ stored' = stored /\ Created' = Created /\ selectedRun' = selectedRun
      /\ lists' = lists /\ data' = data
      /\ loading' = loading /\ refreshing' = refreshing /\ error' = error
  BY DEF serverVars, appVars, Created
<1>2. r \in Requests /\ r.run \in Created
  BY DEF DashboardInv, TypeInv
<1>3. TypeInv'
  BY <1>1, <1>2 DEF DashboardInv, TypeInv
<1>4. NewestInv'
  BY <1>1 DEF DashboardInv, NewestInv
<1>5. FreshInv' /\ ReadInv'
  <2>1. stored[s.run] \in Nat
    BY <1>2 DEF DashboardInv, TypeInv
  <2>2. s.newest => stored[s.run] >= s.summary /\ stored[s.run] >= s.rows
    <3>1. PICK n \in Nat : n = stored[s.run]
      BY <2>1
    <3>2. n >= Unread /\ n >= n
      BY DEF Unread
    <3>3. s.newest => n >= r.summary /\ n >= r.rows
      BY <3>1 DEF DashboardInv, ReadInv
    <3>4. s.summary \in {r.summary, Unread, n} /\ s.rows \in {r.rows, Unread, n}
      BY <3>1
    <3>5. QED
      BY <3>1, <3>2, <3>3, <3>4
  <2>3. s.newest /\ s.run = data.run =>
            Follows(s.summary, data.summary) /\ Follows(s.rows, data.rows)
    BY <1>2, DashboardAssumption DEF DashboardInv, TypeInv, FreshInv, Follows
  <2>4. QED
    BY <1>1, <2>2, <2>3 DEF DashboardInv, FreshInv, ReadInv
<1>6. SpinnerHasARequest'
  BY <1>1 DEF DashboardInv, SpinnerHasARequest
<1>7. ForeignDataIsFlagged'
  BY <1>1 DEF DashboardInv, ForeignDataIsFlagged
<1>8. QED
  BY <1>3, <1>4, <1>5, <1>6, <1>7 DEF DashboardInv

LEMMA ServeKeepsInv ==
    ASSUME DashboardInv, NEW r \in requests, NEW part \in Parts, Serve(r, part)
    PROVE  DashboardInv'
<1>1. r \in Requests /\ r.run \in Created /\ stored[r.run] \in Nat
  BY DEF DashboardInv, TypeInv
<1>2. PICK value \in Nat : value = stored[r.run]
  BY <1>1
<1>3. PICK s : s = [r EXCEPT ![part] = value]
  OBVIOUS
<1>4. /\ s \in Requests /\ s.run = r.run /\ s.newest = r.newest
      /\ s.summary = (IF part = "summary" THEN value ELSE r.summary)
      /\ s.rows = (IF part = "rows" THEN value ELSE r.rows)
  BY <1>1, <1>3, ServedRequest
<1>5. requests' = (requests \ {r}) \cup {s}
  BY <1>2, <1>3 DEF Serve
<1>6. UNCHANGED <<serverVars, appVars, data, loading, refreshing, error>>
  BY DEF Serve
<1>7. s.summary \in {r.summary, Unread, stored[r.run]} /\ s.rows \in {r.rows, Unread, stored[r.run]}
  BY <1>2, <1>4
<1>8. QED
  BY <1>4, <1>5, <1>6, <1>7, ReplacedKeepsInv

LEMMA FailRequestKeepsInv ==
    ASSUME DashboardInv, NEW r \in requests, FailRequest(r)
    PROVE  DashboardInv'
<1>1. r \in Requests
  BY DEF DashboardInv, TypeInv
<1>2. PICK s : s = [r EXCEPT !.failed = TRUE, !.summary = Unread, !.rows = Unread]
  OBVIOUS
<1>3. /\ s \in Requests /\ s.run = r.run /\ s.newest = r.newest
      /\ s.summary = Unread /\ s.rows = Unread
  BY <1>1, <1>2, FailedRequest
<1>4. requests' = (requests \ {r}) \cup {s}
  BY <1>2 DEF FailRequest
<1>5. UNCHANGED <<serverVars, appVars, data, loading, refreshing, error>>
  BY DEF FailRequest
<1>6. QED
  BY <1>3, <1>4, <1>5, ReplacedKeepsInv

\* What the delivery of an answer does to the page.
LEMMA DeliverCases ==
    ASSUME DashboardInv, NEW r \in requests, Deliver(r)
    PROVE  /\ requests' = requests \ {r} /\ stored' = stored /\ Created' = Created
           /\ selectedRun' = selectedRun /\ lists' = lists
           /\ \/ /\ ~r.newest /\ data' = data /\ error' = error
                 /\ loading' = loading /\ refreshing' = refreshing
              \/ /\ r.newest /\ r.failed /\ data' = data /\ error'
                 /\ ~loading' /\ ~refreshing' /\ error' = TRUE
                 /\ loading' = FALSE /\ refreshing' = FALSE
              \/ /\ r.newest /\ ~r.failed /\ error' = FALSE
                 /\ loading' = FALSE /\ refreshing' = FALSE
                 /\ r.summary # Unread /\ r.rows # Unread
                 /\ data' = [run |-> r.run, summary |-> r.summary, rows |-> r.rows]
<1>1. r \in Requests
  BY DEF DashboardInv, TypeInv
<1>2. /\ requests' = requests \ {r} /\ stored' = stored /\ Created' = Created
      /\ selectedRun' = selectedRun /\ lists' = lists
  BY DEF Deliver, serverVars, appVars, Created
<1>3. CASE ~r.newest
  BY <1>2, <1>3 DEF Deliver, Takes
<1>4. CASE r.newest /\ r.failed
  BY <1>2, <1>4 DEF Deliver, Takes, ErrorAfter
<1>5. CASE r.newest /\ ~r.failed
  <2>1. r.summary # Unread /\ r.rows # Unread
    BY <1>5 DEF Deliver, Answered, Parts
  <2>2. r.failed = FALSE
    BY <1>1, <1>5 DEF Requests
  <2>3. QED
    BY <1>2, <1>5, <2>1, <2>2 DEF Deliver, Takes, ErrorAfter
<1>6. QED
  BY <1>3, <1>4, <1>5

LEMMA DeliverKeepsInv ==
    ASSUME DashboardInv, NEW r \in requests, Deliver(r)
    PROVE  DashboardInv'
<1>1. /\ requests' = requests \ {r} /\ stored' = stored /\ Created' = Created
      /\ selectedRun' = selectedRun /\ lists' = lists
  BY DeliverCases
<1>2. NewestInv' /\ ReadInv'
  BY <1>1 DEF DashboardInv, NewestInv, ReadInv
<1>3. r \in Requests /\ r.run \in Created
  BY DEF DashboardInv, TypeInv
<1>4. CASE /\ ~r.newest /\ data' = data /\ error' = error
           /\ loading' = loading /\ refreshing' = refreshing
  <2>1. TypeInv'
    BY <1>1, <1>4 DEF DashboardInv, TypeInv
  <2>2. FreshInv' /\ SpinnerHasARequest' /\ ForeignDataIsFlagged'
    BY <1>1, <1>4 DEF DashboardInv, FreshInv, SpinnerHasARequest, ForeignDataIsFlagged
  <2>3. QED
    BY <1>2, <2>1, <2>2 DEF DashboardInv
<1>5. CASE /\ r.newest /\ data' = data /\ error' = TRUE
           /\ loading' = FALSE /\ refreshing' = FALSE
  <2>1. TypeInv'
    BY <1>1, <1>5 DEF DashboardInv, TypeInv
  <2>2. FreshInv' /\ SpinnerHasARequest' /\ ForeignDataIsFlagged'
    BY <1>1, <1>5 DEF DashboardInv, FreshInv, SpinnerHasARequest, ForeignDataIsFlagged
  <2>3. QED
    BY <1>2, <2>1, <2>2 DEF DashboardInv
<1>6. CASE /\ r.newest /\ ~r.failed /\ error' = FALSE
           /\ loading' = FALSE /\ refreshing' = FALSE
           /\ r.summary # Unread /\ r.rows # Unread
           /\ data' = [run |-> r.run, summary |-> r.summary, rows |-> r.rows]
  <2>1. /\ r.run \in Runs /\ r.summary \in Readings /\ r.rows \in Readings
    BY <1>3 DEF Requests
  <2>2. data' \in Shown
    BY <1>6, <2>1 DEF Shown
  <2>3. TypeInv'
    BY <1>1, <1>6, <2>2 DEF DashboardInv, TypeInv
  <2>4. /\ data'.run = r.run /\ data'.summary = r.summary /\ data'.rows = r.rows
    BY <1>6
  <2>5. \A s \in requests' : ~s.newest
    BY <1>1, <1>6 DEF DashboardInv, NewestInv
  <2>6. FreshInv'
    BY <1>1, <1>3, <1>6, <2>4, <2>5 DEF DashboardInv, ReadInv, FreshInv
  <2>7. SpinnerHasARequest' /\ ForeignDataIsFlagged'
    BY <1>1, <1>6, <2>4 DEF DashboardInv, NewestInv, SpinnerHasARequest, ForeignDataIsFlagged
  <2>8. QED
    BY <1>2, <2>3, <2>6, <2>7 DEF DashboardInv
<1>7. QED
  BY <1>4, <1>5, <1>6, DeliverCases

-----------------------------------------------------------------------------
(* The application and the server. *)

\* The steps that touch neither what is shown nor what is asked for.
LEMMA IdleKeepsInv ==
    ASSUME DashboardInv, UNCHANGED <<stored, selectedRun, hookVars>>,
           lists' \subseteq Created \cup {None}
    PROVE  DashboardInv'
<1>1. /\ stored' = stored /\ Created' = Created /\ selectedRun' = selectedRun /\ data' = data
      /\ requests' = requests /\ loading' = loading /\ refreshing' = refreshing /\ error' = error
  BY DEF hookVars, Created
<1>2. QED
  BY <1>1 DEF DashboardInv, TypeInv, NewestInv, ReadInv, FreshInv, SpinnerHasARequest,
              ForeignDataIsFlagged

\* The server only ever moves forward: what was read of it stays read.
LEMMA ServerKeepsInv ==
    ASSUME DashboardInv, UNCHANGED <<selectedRun, hookVars>>,
           Created \subseteq Created', Created' \subseteq Runs,
           \A run \in Created' : stored'[run] \in Nat,
           \A run \in Created : stored'[run] >= stored[run],
           lists' \subseteq Created' \cup {None}
    PROVE  DashboardInv'
<1>1. /\ selectedRun' = selectedRun /\ data' = data
      /\ requests' = requests /\ loading' = loading /\ refreshing' = refreshing /\ error' = error
  BY DEF hookVars
<1>2. TypeInv'
  BY <1>1 DEF DashboardInv, TypeInv
<1>3. \A run \in Created, n \in Readings : stored[run] >= n => stored'[run] >= n
  BY DEF DashboardInv, TypeInv, Readings, Unread
<1>4. ReadInv'
  <2>1. ASSUME NEW r \in requests, r.newest
        PROVE  stored'[r.run] >= r.summary /\ stored'[r.run] >= r.rows
    <3>1. r.run \in Created /\ r.summary \in Readings /\ r.rows \in Readings
      BY DEF DashboardInv, TypeInv, Requests
    <3>2. stored[r.run] >= r.summary /\ stored[r.run] >= r.rows
      BY <2>1 DEF DashboardInv, ReadInv
    <3>3. QED
      BY <1>3, <3>1, <3>2
  <2>2. QED
    BY <1>1, <2>1 DEF ReadInv
<1>5. FreshInv'
  <2>1. ASSUME data.run # None
        PROVE  stored'[data.run] >= data.summary /\ stored'[data.run] >= data.rows
    <3>1. data.run \in Created /\ data.summary \in Readings /\ data.rows \in Readings
      BY <2>1 DEF DashboardInv, TypeInv, FreshInv, Shown
    <3>2. stored[data.run] >= data.summary /\ stored[data.run] >= data.rows
      BY <2>1 DEF DashboardInv, FreshInv
    <3>3. QED
      BY <1>3, <3>1, <3>2
  <2>2. QED
    BY <1>1, <2>1 DEF DashboardInv, FreshInv
<1>6. NewestInv' /\ SpinnerHasARequest' /\ ForeignDataIsFlagged'
  BY <1>1 DEF DashboardInv, NewestInv, SpinnerHasARequest, ForeignDataIsFlagged
<1>7. QED
  BY <1>2, <1>4, <1>5, <1>6 DEF DashboardInv

LEMMA AdvanceKeepsInv ==
    ASSUME DashboardInv, NEW run \in Runs, Advance(run)
    PROVE  DashboardInv'
<1>1. /\ run \in Created /\ stored' = [stored EXCEPT ![run] = @ + 1]
      /\ selectedRun' = selectedRun /\ lists' = lists /\ UNCHANGED hookVars
  BY DEF Advance, appVars
<1>2. \A q \in Created : stored[q] \in Nat
  BY DEF DashboardInv, TypeInv
<1>3. Created' = Created
  BY <1>1 DEF Created
<1>4. \A q \in Created : stored'[q] \in Nat /\ stored'[q] >= stored[q]
  BY <1>1, <1>2 DEF Created
<1>5. lists' \subseteq Created' \cup {None} /\ Created \subseteq Runs
  BY <1>1, <1>3 DEF DashboardInv, TypeInv
<1>6. QED
  BY <1>1, <1>3, <1>4, <1>5, ServerKeepsInv

LEMMA StartSimulationKeepsInv ==
    ASSUME DashboardInv, NEW run \in Runs, StartSimulation(run)
    PROVE  DashboardInv'
<1>1. /\ run \notin Created /\ lists' = lists \cup {run}
      /\ stored' = [r \in Created \cup {run} |-> IF r = run THEN 0 ELSE stored[r]]
      /\ selectedRun' = selectedRun /\ UNCHANGED hookVars
  BY DEF StartSimulation
<1>2. \A q \in Created : stored[q] \in Nat
  BY DEF DashboardInv, TypeInv
<1>3. Created' = Created \cup {run}
  BY <1>1 DEF Created
<1>4. /\ \A q \in Created : stored'[q] \in Nat /\ stored'[q] >= stored[q]
      /\ stored'[run] \in Nat
  BY <1>1, <1>2
<1>5. lists' \subseteq Created' \cup {None} /\ Created' \subseteq Runs
  BY <1>1, <1>3 DEF DashboardInv, TypeInv
<1>6. QED
  BY <1>1, <1>3, <1>4, <1>5, ServerKeepsInv

\* A list that arrives selects a run that exists, or leaves the selection alone.
LEMMA ListKeepsInv ==
    ASSUME DashboardInv, NEW prefer \in lists, DeliverList(prefer) \/ FailList(prefer)
    PROVE  DashboardInv'
<1>1. selectedRun \in Created \cup {None} /\ prefer \in Created \cup {None}
  BY DEF DashboardInv, TypeInv
<1>2. PICK run \in Created \cup {None} : Select(run)
  <2>1. CASE DeliverList(prefer)
    <3>1. PICK first \in (IF Created = {} THEN {None} ELSE Created) :
              Select(Preferred(prefer, first))
      BY <2>1 DEF DeliverList
    <3>2. Preferred(prefer, first) \in Created \cup {None}
      BY <1>1 DEF Preferred
    <3>3. QED
      BY <3>1, <3>2
  <2>2. CASE FailList(prefer)
    <3>1. Preferred(prefer, selectedRun) \in Created \cup {None}
      BY <1>1 DEF Preferred
    <3>2. QED
      BY <2>2, <3>1 DEF FailList
  <2>3. QED
    BY <2>1, <2>2
<1>3. stored' = stored /\ lists' \subseteq Created \cup {None}
  BY DEF DeliverList, FailList, serverVars, DashboardInv, TypeInv
<1>4. QED
  BY <1>2, <1>3, SelectKeepsInv

LEMMA RefreshingKeepsInv ==
    ASSUME DashboardInv, PollData \/ RefreshByHand
    PROVE  DashboardInv'
<1>1. /\ stored' = stored /\ selectedRun' = selectedRun
      /\ selectedRun \in Created \cup {None} /\ lists' \subseteq Created \cup {None}
  BY DEF PollData, RefreshByHand, serverVars, appVars, DashboardInv, TypeInv
<1>2. PICK quiet \in BOOLEAN : Refresh(selectedRun, quiet)
  BY DEF PollData, RefreshByHand
<1>3. CASE selectedRun = None
  BY <1>1, <1>2, <1>3, RefreshNothingKeepsInv DEF Refresh
<1>4. CASE selectedRun # None
  BY <1>1, <1>2, <1>4, RefreshKeepsInv
<1>5. QED
  BY <1>3, <1>4

-----------------------------------------------------------------------------
\* Requests and the selection stay in step, and nothing shown or read is newer than
\* the server (useDashboardData's refresh, App's loadRuns and startSimulation).
THEOREM DashboardInvariant == DashboardSpec => []DashboardInv
<1>1. DashboardInit => DashboardInv
  <2> SUFFICES ASSUME DashboardInit PROVE DashboardInv
    OBVIOUS
  <2>1. Created \subseteq Runs /\ \A run \in Created : stored[run] = 0
    BY DEF DashboardInit, Created
  <2>2. /\ selectedRun = None /\ lists = {None} /\ data = NoData /\ requests = {}
        /\ loading = FALSE /\ refreshing = FALSE /\ error = FALSE
    BY DEF DashboardInit
  <2>3. NoData \in Shown /\ NoData.run = None
    BY DEF NoData, Shown, Readings
  <2>4. TypeInv
    <3>1. \A run \in Created : stored[run] \in Nat
      BY <2>1
    <3>2. selectedRun \in Created \cup {None} /\ lists \subseteq Created \cup {None}
      BY <2>2
    <3>3. requests \subseteq Requests /\ \A r \in requests : r.run \in Created
      BY <2>2
    <3>4. data \in Shown
      BY <2>2, <2>3
    <3>5. loading \in BOOLEAN /\ refreshing \in BOOLEAN /\ error \in BOOLEAN
      BY <2>2
    <3>6. QED
      BY <2>1, <3>1, <3>2, <3>3, <3>4, <3>5 DEF TypeInv
  <2>5. NewestInv /\ ReadInv /\ FreshInv /\ SpinnerHasARequest /\ ForeignDataIsFlagged
    BY <2>2, <2>3 DEF NewestInv, ReadInv, FreshInv, SpinnerHasARequest, ForeignDataIsFlagged
  <2>6. QED
    BY <2>4, <2>5 DEF DashboardInv
<1>2. ASSUME DashboardInv, [DashboardNext]_dashboardVars PROVE DashboardInv'
  <2>1. CASE PollData \/ RefreshByHand
    BY <1>2, <2>1, RefreshingKeepsInv
  <2>2. CASE ToggleAutoRefresh \/ LoadRuns
    <3>1. /\ UNCHANGED <<stored, selectedRun, hookVars>>
          /\ lists' = lists \/ lists' = lists \cup {None}
      BY <2>2 DEF ToggleAutoRefresh, LoadRuns, serverVars
    <3>2. lists' \subseteq Created \cup {None}
      BY <1>2, <3>1 DEF DashboardInv, TypeInv
    <3>3. QED
      BY <1>2, <3>1, <3>2, IdleKeepsInv
  <2>3. ASSUME NEW r \in requests, FailRequest(r) PROVE DashboardInv'
    BY <1>2, <2>3, FailRequestKeepsInv
  <2>4. ASSUME NEW r \in requests, Deliver(r) PROVE DashboardInv'
    BY <1>2, <2>4, DeliverKeepsInv
  <2>5. ASSUME NEW r \in requests, NEW part \in Parts, Serve(r, part) PROVE DashboardInv'
    BY <1>2, <2>5, ServeKeepsInv
  <2>6. ASSUME NEW prefer \in lists, DeliverList(prefer) \/ FailList(prefer) PROVE DashboardInv'
    BY <1>2, <2>6, ListKeepsInv
  <2>7. ASSUME NEW run \in Runs \cup {None}, SelectByHand(run) PROVE DashboardInv'
    <3>1. run \in Created \cup {None} /\ Select(run) /\ UNCHANGED stored /\ lists' = lists
      BY <2>7 DEF SelectByHand, serverVars
    <3>2. lists \subseteq Created \cup {None}
      BY <1>2 DEF DashboardInv, TypeInv
    <3>3. QED
      BY <1>2, <3>1, <3>2, SelectKeepsInv
  <2>8. ASSUME NEW run \in Runs, StartSimulation(run) PROVE DashboardInv'
    BY <1>2, <2>8, StartSimulationKeepsInv
  <2>9. ASSUME NEW run \in Runs, Advance(run) PROVE DashboardInv'
    BY <1>2, <2>9, AdvanceKeepsInv
  <2>10. CASE UNCHANGED dashboardVars
    <3>1. UNCHANGED <<stored, selectedRun, hookVars>> /\ lists' = lists
      BY <2>10 DEF dashboardVars, hookVars
    <3>2. lists \subseteq Created \cup {None}
      BY <1>2 DEF DashboardInv, TypeInv
    <3>3. QED
      BY <1>2, <3>1, <3>2, IdleKeepsInv
  <2>11. QED
    BY <1>2, <2>1, <2>2, <2>3, <2>4, <2>5, <2>6, <2>7, <2>8, <2>9, <2>10 DEF DashboardNext
<1>3. QED
  BY <1>1, <1>2, PTL DEF DashboardSpec

\* A spinner is never left on without a request that will clear it, however many are
\* in flight (useDashboardData's flags).
THEOREM SpinnerIsBacked == DashboardSpec => []SpinnerHasARequest
<1>1. DashboardInv => SpinnerHasARequest
  BY DEF DashboardInv
<1>2. QED
  BY <1>1, DashboardInvariant, PTL

\* Under a selected run another run's data is never shown as its own, whatever order
\* answers and lists arrive in (requestId.current, App's selection).
THEOREM NoForeignData == DashboardSpec => []ForeignDataIsFlagged
<1>1. DashboardInv => ForeignDataIsFlagged
  BY DEF DashboardInv
<1>2. QED
  BY <1>1, DashboardInvariant, PTL

\* Only a delivered answer changes what is shown of a run, and the newest request has
\* read nothing older than that (the comparison with requestId.current).
THEOREM NeverBackInTime == DashboardSpec => DisplayNeverGoesBack
<1> DEFINE Onward == (data.run # None /\ data'.run = data.run) =>
                         \A part \in Parts : data'[part] >= data[part]
<1>1. ASSUME DashboardInv, [DashboardNext]_dashboardVars PROVE [Onward]_dashboardVars
  <2>1. data \in Shown
    BY <1>1 DEF DashboardInv, TypeInv
  <2>2. \A part \in Parts : data[part] >= data[part]
    BY <2>1 DEF Shown, Parts, Readings, Unread
  <2>3. data' = data => Onward
    BY <2>2
  <2>4. data' = NoData => Onward
    <3>1. NoData.run = None
      BY DEF NoData
    <3>2. QED
      BY <3>1
  <2>5. ASSUME NEW r \in requests, Deliver(r) PROVE Onward
    <3>1. CASE data' = data
      BY <2>3, <3>1
    <3>2. CASE /\ r.newest /\ r.summary # Unread /\ r.rows # Unread
               /\ data' = [run |-> r.run, summary |-> r.summary, rows |-> r.rows]
      <4>1. data'.run = r.run /\ data'["summary"] = r.summary /\ data'["rows"] = r.rows
        BY <3>2
      <4>2. data.run # None /\ r.run = data.run => r.summary >= data.summary /\ r.rows >= data.rows
        BY <1>1, <3>2 DEF DashboardInv, FreshInv, Follows
      <4>3. data.run # None /\ data'.run = data.run =>
                data'["summary"] >= data["summary"] /\ data'["rows"] >= data["rows"]
        BY <4>1, <4>2
      <4>4. QED
        BY <4>3 DEF Parts
    <3>3. QED
      BY <1>1, <2>5, <3>1, <3>2, DeliverCases
  <2>6. ASSUME NEW run, NEW quiet, Refresh(run, quiet) PROVE data' = data \/ data' = NoData
    BY <2>6 DEF Refresh, RefreshNothing
  <2>7. ASSUME NEW run, Select(run) PROVE data' = data \/ data' = NoData
    BY <2>6, <2>7 DEF Select, hookVars
  <2>8. CASE PollData \/ RefreshByHand
    BY <2>3, <2>4, <2>6, <2>8 DEF PollData, RefreshByHand
  <2>9. CASE ToggleAutoRefresh \/ LoadRuns
    BY <2>3, <2>9 DEF ToggleAutoRefresh, LoadRuns, hookVars
  <2>10. ASSUME NEW r \in requests, FailRequest(r) \/ \E part \in Parts : Serve(r, part)
         PROVE  Onward
    <3>1. data' = data
      BY <2>10 DEF FailRequest, Serve
    <3>2. QED
      BY <2>3, <3>1
  <2>11. ASSUME NEW prefer \in lists, DeliverList(prefer) \/ FailList(prefer) PROVE Onward
    BY <2>3, <2>4, <2>7, <2>11 DEF DeliverList, FailList
  <2>12. ASSUME NEW run, SelectByHand(run) PROVE Onward
    BY <2>3, <2>4, <2>7, <2>12 DEF SelectByHand
  <2>13. ASSUME NEW run, StartSimulation(run) \/ Advance(run) PROVE Onward
    BY <2>3, <2>13 DEF StartSimulation, Advance, hookVars
  <2> HIDE DEF Onward
  <2>14. QED
    BY <1>1, <2>5, <2>8, <2>9, <2>10, <2>11, <2>12, <2>13 DEF DashboardNext
<1>2. QED
  BY <1>1, DashboardInvariant, PTL DEF DashboardSpec, DisplayNeverGoesBack
=============================================================================
