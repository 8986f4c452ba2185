----------------------------- MODULE BrowserProofs -----------------------------
(* Proofs about the pages of the browser clients: the live preview, the setup form, the    *)
(* list of designs and the comparison of MCBrowserPages.  They hold for any number of      *)
(* designs and runs, and for any bound on what a person does.                             *)
EXTENDS MCBrowserPages, TLAPS

(* The live preview.  The changes counted are never mistaken for an emptied box; a request *)
(* that still matters, once no timer runs, was made for the input as it is; what is shown  *)
(* of no input is nothing.                                                                *)
Flight(f) == f = [number |-> f.number, input |-> f.input, aborted |-> f.aborted]
PreviewInv ==
  /\ changes \in Nat
  /\ \A f \in flights : Flight(f) /\ (~f.aborted /\ ~previewTimer => f.input = input)
  /\ input = None => ~previewTimer /\ \A f \in flights : f.aborted
  /\ DoneIsCurrent

(* The list of designs.  It is asked for once at a time, and only while the page says so;  *)
(* the runs of a row are asked for once, and until the answer the row does not know.       *)
Call(c) == DOMAIN c = {"kind", "id", "number", "stage", "designs", "timed", "run"}
ListInv ==
  /\ \A c \in calls :
       /\ Call(c) /\ c.kind \in {"list", "runs", "delete", "cancel"}
       /\ c.kind = "list" => state = "loading"
       /\ c.kind = "runs" => /\ state = "shown"
                             /\ c.id \in DOMAIN rows => rows[c.id].dawn = "unknown"
  /\ \A c, d \in calls : c.kind = "list" /\ d.kind = "list" => c = d
  /\ \A c, d \in calls : c.kind = "runs" /\ d.kind = "runs" /\ c.id = d.id => c = d

(* The comparison.  A design is fetched once at a time, and its column waits for it.       *)
Fetching(f) == DOMAIN f = {"id", "stage", "number"}
ColumnsInv ==
  /\ DOMAIN run = Columns!Ids
  /\ \A f \in fetches : Fetching(f) /\ (f.id \in Columns!Ids => run[f.id].status = "loading")
  /\ \A f, g \in fetches : f.id = g.id /\ f.id \in Columns!Ids => f = g

--------------------------------------------------------------------------------
(* The preview. *)
LEMMA PreviewInit == Preview!Init => PreviewInv
  BY DEF Preview!Init, PreviewInv, DoneIsCurrent, Preview!DoneIsCurrent

(* What is aborted does not matter any more. *)
LEMMA AbortedFlights ==
  ASSUME PreviewInv, NEW f \in Preview!Aborted
  PROVE  Flight(f) /\ f.aborted
<1>1. PICK g \in flights : f = [g EXCEPT !.aborted = TRUE]
  BY DEF Preview!Aborted
<1>2. g = [number |-> g.number, input |-> g.input, aborted |-> g.aborted]
  BY DEF PreviewInv, Flight
<1>3. f = [number |-> g.number, input |-> g.input, aborted |-> TRUE]
  BY <1>1, <1>2
<1> QED
  BY <1>3 DEF Flight

(* run(), 32-36. *)
LEMMA RunFlights ==
  ASSUME PreviewInv, input # None, Preview!Run(input), UNCHANGED <<input, changes>>
  PROVE  PreviewInv'
<1> DEFINE n == CHOOSE n \in 0..MaxInputs + MaxRetries : n \notin Preview!Numbers
           new == [number |-> n, input |-> input, aborted |-> FALSE]
<1>1. flights' = Preview!Aborted \cup {new}
  BY DEF Preview!Run
<1>2. Flight(new)
  BY DEF Flight
<1>3. new.input = input
  OBVIOUS
<1> HIDE DEF new
<1>4. ASSUME NEW f \in flights'
      PROVE  Flight(f) /\ (~f.aborted /\ ~previewTimer' => f.input = input')
  BY <1>1, <1>2, <1>3, AbortedFlights
<1>5. DoneIsCurrent'
  BY DEF Preview!Run, DoneIsCurrent, Preview!DoneIsCurrent
<1> QED
  BY <1>4, <1>5 DEF PreviewInv, Flight

LEMMA PreviewKept == PreviewInv /\ Preview!Next => PreviewInv'
<1> SUFFICES ASSUME PreviewInv, Preview!Next PROVE PreviewInv'
  OBVIOUS
<1>1. CASE Preview!Change
  <2>1. changes' \in Nat /\ input' = changes' /\ input' # None
    BY <1>1, PagesAssumption DEF Preview!Change, PreviewInv
  <2>2. previewTimer' = TRUE /\ previewStatus' = "pending" /\ flights' = flights
    BY <1>1 DEF Preview!Change
  <2> QED
    BY <2>1, <2>2 DEF PreviewInv, Flight, DoneIsCurrent, Preview!DoneIsCurrent
<1>2. CASE Preview!Clear
  <2>1. /\ flights' = Preview!Aborted /\ previewStatus' = "idle" /\ data' = None
        /\ previewTimer' = FALSE /\ changes' = changes
    BY <1>2 DEF Preview!Clear
  <2>2. \A f \in flights' : Flight(f) /\ f.aborted
    BY <2>1, AbortedFlights
  <2> QED
    BY <2>1, <2>2 DEF PreviewInv, Flight, DoneIsCurrent, Preview!DoneIsCurrent
<1>3. CASE Preview!TimerFires
  BY <1>3, RunFlights DEF Preview!TimerFires, PreviewInv
<1>4. CASE Preview!Retry
  BY <1>4, RunFlights DEF Preview!Retry
<1>5. CASE Preview!Settles
  <2>1. PICK f \in flights : Preview!Resolved(f) \/ Preview!Rejected(f)
    BY <1>5 DEF Preview!Settles
  <2>2. /\ flights' = flights \ {f}
        /\ UNCHANGED <<input, changes, previewTimer>>
    BY <2>1 DEF Preview!Resolved, Preview!Rejected
  <2>3. DoneIsCurrent'
    <3>1. CASE f.aborted
      BY <2>1, <2>2, <3>1 DEF Preview!Resolved, Preview!Rejected, PreviewInv, DoneIsCurrent,
                              Preview!DoneIsCurrent
    <3>2. CASE ~f.aborted
      BY <2>1, <2>2, <3>2 DEF Preview!Resolved, Preview!Rejected, PreviewInv, DoneIsCurrent,
                              Preview!DoneIsCurrent
    <3> QED
      BY <3>1, <3>2
  <2> QED
    BY <2>2, <2>3 DEF PreviewInv, Flight
<1> QED
  BY <1>1, <1>2, <1>3, <1>4, <1>5 DEF Preview!Next

--------------------------------------------------------------------------------
(* The form. *)
LEMMA FormStarts == FormInit => ResultIsCurrent
  BY InitialRequestRuns DEF FormInit, Hydrate, ResultIsCurrent

(* Every step of the page sets the timer, runs what is asked for, or touches neither.      *)
FormMoves == \/ timer' = TRUE
             \/ TimerFires
             \/ UNCHANGED <<request, result, status, timer>>

LEMMA FormStepMoves == [FormNext]_formVars => FormMoves
<1> SUFFICES ASSUME [FormNext]_formVars PROVE FormMoves
  OBVIOUS
<1>1. CASE FormControl
  BY <1>1 DEF FormControl, PickDate, TypeLength, TypeHeight, PickCard, PickMaterial, SlideShare,
     PickGlazing, SwitchShutters, PickOccupancy, SlideThickness, ChooseFile, Update, SetRequest,
     FormMoves, storeVars
<1>2. CASE Expert
  BY <1>2 DEF Expert, PanelStep, Toggle, ApplySnow, ResetCells, TickUnsafe, ConfirmUnsafe,
     CancelUnsafe, UntickUnsafe, ResetNumber, TypeNumber, TypeCell, ChooseSky, KeepProfiles,
     Commit, Keep, SetRequest, FormMoves, storeVars
<1>3. CASE Dispatch
  BY <1>3 DEF Dispatch, FormMoves
<1>4. ASSUME NEW f \in reading, FileRead(f) \/ FileRefused(f) PROVE FormMoves
  BY <1>4 DEF FileRead, FileRefused, SetRequest, FormMoves, storeVars
<1>5. CASE \/ CatalogueArrives \/ CatalogueFails \/ Leave \/ Return \/ CloseEditor
           \/ \E id \in {"wallSouth", "roof"} : SelectSurface(id)
  BY <1>5 DEF CatalogueArrives, CatalogueFails, Leave, Return, CloseEditor, SelectSurface,
     FormMoves, storeVars
<1>6. CASE UNCHANGED formVars
  BY <1>6 DEF formVars, FormMoves, storeVars
<1> QED
  BY <1>1, <1>2, <1>3, <1>4, <1>5, <1>6 DEF FormNext

LEMMA FormKept == ResultIsCurrent /\ [FormNext]_formVars => ResultIsCurrent'
<1> SUFFICES ASSUME ResultIsCurrent, FormMoves PROVE ResultIsCurrent'
  BY FormStepMoves
<1>1. CASE timer' = TRUE
  BY <1>1 DEF ResultIsCurrent
<1>2. CASE TimerFires
  <2>1. request' = request
    BY <1>2 DEF TimerFires
  <2>2. Refused(request') <=> Refused(request)
    BY <2>1
  <2> QED
    BY <1>2, <2>1, <2>2 DEF TimerFires, ResultIsCurrent
<1>3. CASE UNCHANGED <<request, result, status, timer>>
  BY <1>3 DEF ResultIsCurrent
<1> QED
  BY <1>1, <1>2, <1>3 DEF FormMoves

(* store.ts 194-204: once no timer runs, the setup page shows the result of the request on *)
(* it or says why there is none, whatever was clicked, typed, uploaded and left meanwhile. *)
THEOREM ResultStaysCurrent == FormSpec => []ResultIsCurrent
  BY FormStarts, FormKept, PTL DEF FormSpec

--------------------------------------------------------------------------------
(* The list of designs. *)
LEMMA ListStarts == List!Init => ListInv
  BY DEF List!Init, List!Sent, ListInv, Call

(* The server, or the loss of a call, changes a call but neither what it asks nor a row.   *)
LEMMA CallReplaced ==
  ASSUME ListInv, NEW c \in calls, NEW r, Call(r), r.kind = c.kind, r.id = c.id,
         calls' = (calls \ {c}) \cup {r}, UNCHANGED <<state, rows>>
  PROVE  ListInv'
<1>1. ASSUME NEW d \in calls'
      PROVE  \E e \in calls : d.kind = e.kind /\ d.id = e.id /\ (d = r <=> e = c) /\ (d # r => d = e)
                              /\ Call(d)
  BY <1>1 DEF ListInv
<1> QED
  BY <1>1 DEF ListInv, Call

(* An answered call is gone, and the rows that it changed are known by then.               *)
LEMMA CallTaken ==
  ASSUME ListInv, NEW c \in calls, calls' = calls \ {c}, state' = state,
         \A d \in calls' : d.kind = "runs" /\ d.id \in DOMAIN rows' =>
            d.id \in DOMAIN rows /\ rows'[d.id].dawn = rows[d.id].dawn
  PROVE  ListInv'
  BY DEF ListInv, Call

(* A click adds a call that neither lists the designs nor asks for runs. *)
LEMMA CallAdded ==
  ASSUME ListInv, NEW r, Call(r), r.kind \in {"delete", "cancel"},
         calls' = calls \cup {r}, UNCHANGED <<state, rows>>
  PROVE  ListInv'
  BY DEF ListInv, Call

LEMMA ServerKeeps ==
  ASSUME ListInv, List!Serves
  PROVE  ListInv' /\ UNCHANGED <<state, rows>>
<1>1. PICK c \in calls : List!Serve(c) \/ List!Lost(c)
  BY DEF List!Serves
<1>2. UNCHANGED <<state, rows>>
  BY <1>1 DEF List!Serve, List!Lost
<1>3. Call(c)
  BY DEF ListInv
<1>4. PICK r : /\ calls' = (calls \ {c}) \cup {r}
               /\ Call(r) /\ r.kind = c.kind /\ r.id = c.id
  <2> DEFINE Like(r) == Call(r) /\ r.kind = c.kind /\ r.id = c.id
  <2>1. \A r, v : Like(r) => Like([r EXCEPT !.stage = v]) /\ Like([r EXCEPT !.run = v])
    BY DEF Call
  <2>2. \A v, w : Like([c EXCEPT !.designs = v, !.timed = w])
    BY <1>3 DEF Call
  <2>3. Like(c)
    BY <1>3
  <2> HIDE DEF Like
  <2>4. Like([c EXCEPT !.stage = "refused"])
    BY <2>1, <2>3
  <2>5. \A r : Like(r) => Like([r EXCEPT !.stage = "answered"])
    BY <2>1
  <2>6. \E r : calls' = (calls \ {c}) \cup {r} /\ Like(r)
    <3>1. CASE List!Lost(c)
      BY <2>4, <3>1 DEF List!Lost, List!Refused
    <3>2. CASE List!Serve(c)
      <4>1. \/ List!Refused(c) \/ List!Answered(c, c)
            \/ List!Answered(c, [c EXCEPT !.run = c.id \in server.ran])
            \/ List!Answered(c, [c EXCEPT !.designs = server.live, !.timed = server.timed])
        BY <3>2 DEF List!Serve, ListInv
      <4>2. Like([c EXCEPT !.run = c.id \in server.ran])
        BY <2>1, <2>3
      <4>3. Like([c EXCEPT !.designs = server.live, !.timed = server.timed])
        BY <2>2
      <4> QED
        BY <2>3, <2>4, <2>5, <4>1, <4>2, <4>3 DEF List!Refused, List!Answered
    <3> QED
      BY <1>1, <3>1, <3>2
  <2> QED
    BY <2>6 DEF Like
<1> QED
  BY <1>2, <1>4, CallReplaced

(* 105-143: the one list call is over, and each row's runs are asked for once.             *)
LEMMA ListedKeeps ==
  ASSUME ListInv, NEW c \in calls, List!Listed(c)
  PROVE  ListInv' /\ state = "loading"
<1>1. state = "loading" /\ c.kind = "list"
  BY DEF List!Listed, ListInv
<1>2. \A d \in calls \ {c} : d.kind \notin {"list", "runs"}
  BY <1>1 DEF ListInv
<1>3. CASE c.stage = "answered"
  <2>1. /\ state' = "shown"
        /\ rows' = [id \in c.designs |-> List!Row("unknown", id \in c.timed)]
        /\ calls' = (calls \ {c}) \cup {List!Sent("runs", id, 0) : id \in c.designs}
    BY <1>3 DEF List!Listed
  <2>2. \A id \in DOMAIN rows' : rows'[id].dawn = "unknown"
    BY <2>1 DEF List!Row
  <2>3. \A id : LET d == List!Sent("runs", id, 0) IN Call(d) /\ d.kind = "runs" /\ d.id = id
    BY DEF List!Sent, Call
  <2>4. ASSUME NEW d \in calls'
        PROVE  /\ Call(d) /\ d.kind # "list"
               /\ d.kind = "runs" => d = List!Sent("runs", d.id, 0)
    BY <1>2, <2>1, <2>3 DEF ListInv
  <2> QED
    <3>1. \A d \in calls' : d.kind \in {"list", "runs", "delete", "cancel"}
      BY <2>1 DEF ListInv, List!Sent
    <3>2. \A d, e \in calls' : d.kind = "runs" /\ e.kind = "runs" /\ d.id = e.id => d = e
      BY <2>4
    <3>3. \A d \in calls' : Call(d)' /\ d.kind # "list"
      BY <2>4 DEF Call
    <3> QED
      BY <1>1, <2>1, <2>2, <2>4, <3>1, <3>2, <3>3 DEF ListInv
<1>4. CASE c.stage # "answered"
  <2>1. calls' = calls \ {c} /\ state' = "error" /\ rows' = rows
    BY <1>4 DEF List!Listed
  <2> QED
    BY <1>1, <1>2, <2>1 DEF ListInv, Call
<1> QED
  BY <1>3, <1>4

(* 116-138: of the row whose runs are known now nothing is under way any more.             *)
LEMMA DawnedKeeps ==
  ASSUME ListInv, NEW c \in calls, List!Dawned(c)
  PROVE  ListInv' /\ List!RowFactsStand
<1>1. /\ c.kind = "runs" /\ state = "shown" /\ state' = state /\ calls' = calls \ {c}
      /\ c.id \in DOMAIN rows => rows[c.id].dawn = "unknown"
  BY DEF List!Dawned, ListInv
<1>2. \A d \in calls' : d.kind = "runs" => d.id # c.id
  BY <1>1 DEF ListInv
<1>3. rows' = IF c.id \in DOMAIN rows
              THEN [rows EXCEPT ![c.id] = List!Row(List!DawnOf(c), c.id \in DOMAIN rows /\ rows[c.id].timed)]
              ELSE rows
  BY DEF List!Dawned, List!WithRow
<1>4. /\ DOMAIN rows' = DOMAIN rows
      /\ \A id \in DOMAIN rows \ {c.id} : rows'[id] = rows[id]
      /\ c.id \in DOMAIN rows => (rows'[c.id].timed <=> rows[c.id].timed)
  BY <1>3 DEF List!Row
<1>5. ListInv'
  BY <1>1, <1>2, <1>4, CallTaken
<1>6. List!RowFactsStand
  BY <1>1, <1>4 DEF List!RowFactsStand
<1> QED
  BY <1>5, <1>6

(* Every step of the list page keeps the invariant, and a list that is shown only learns.  *)
LEMMA ListKept ==
  ASSUME ListInv, List!Next
  PROVE  ListInv' /\ List!RowFactsStand
<1>1. CASE List!Serves
  BY <1>1, ServerKeeps DEF List!RowFactsStand
<1>2. CASE List!Answer
  <2>1. PICK c \in calls : List!Listed(c) \/ List!Dawned(c) \/ List!Deleted(c) \/ List!Cancelled(c)
    BY <1>2 DEF List!Answer
  <2>2. CASE List!Listed(c)
    BY <2>2, ListedKeeps DEF List!RowFactsStand
  <2>3. CASE List!Dawned(c)
    BY <2>3, DawnedKeeps
  <2>4. CASE List!Deleted(c)
    <3>1. /\ calls' = calls \ {c} /\ state' = state
          /\ DOMAIN rows' \subseteq DOMAIN rows
          /\ \A id \in DOMAIN rows' : rows'[id] = rows[id]
      BY <2>4 DEF List!Deleted, List!Without
    <3>2. ListInv'
      BY <3>1, CallTaken
    <3> QED
      BY <3>1, <3>2 DEF List!RowFactsStand
  <2>5. CASE List!Cancelled(c)
    <3>1. calls' = calls \ {c} /\ state' = state
      BY <2>5 DEF List!Cancelled
    <3>2. /\ DOMAIN rows' = DOMAIN rows
          /\ \A id \in DOMAIN rows' : /\ rows'[id].dawn = rows[id].dawn
                                      /\ ~rows[id].timed => ~rows'[id].timed
      BY <2>5 DEF List!Cancelled, List!WithRow, List!Row
    <3>3. ListInv'
      BY <3>1, <3>2, CallTaken
    <3> QED
      BY <3>1, <3>2, <3>3 DEF List!RowFactsStand
  <2> QED
    BY <2>1, <2>2, <2>3, <2>4, <2>5
<1>3. CASE List!Elsewhere \/ List!Withdraw \/ \E id \in Designs : List!Ask(id)
  BY <1>3 DEF List!Elsewhere, List!Withdraw, List!Ask, List!RowFactsStand, ListInv, Call
<1>4. CASE List!RetryList
  <2>1. /\ state = "error" /\ state' = "loading"
        /\ calls' = calls \cup {List!Sent("list", NoOne, clicks')}
    BY <1>4 DEF List!RetryList, List!Click
  <2>2. \A c \in calls : c.kind \notin {"list", "runs"}
    BY <2>1 DEF ListInv
  <2> DEFINE new == List!Sent("list", NoOne, clicks')
  <2>3. Call(new) /\ new.kind = "list"
    BY DEF List!Sent, Call
  <2> HIDE DEF new
  <2> QED
    BY <2>1, <2>2, <2>3 DEF ListInv, Call, List!RowFactsStand, new
<1>5. CASE List!ConfirmDelete \/ \E id \in Designs : List!CancelAnsys(id)
  <2>1. PICK kind, id, n : kind \in {"delete", "cancel"} /\ calls' = calls \cup {List!Sent(kind, id, n)}
    BY <1>5 DEF List!ConfirmDelete, List!CancelAnsys, List!Click
  <2>2. UNCHANGED <<state, rows>>
    BY <1>5 DEF List!ConfirmDelete, List!CancelAnsys
  <2>3. Call(List!Sent(kind, id, n)) /\ List!Sent(kind, id, n).kind = kind
    BY DEF List!Sent, Call
  <2> QED
    BY <2>1, <2>2, <2>3, CallAdded DEF List!RowFactsStand
<1> QED
  BY <1>1, <1>2, <1>3, <1>4, <1>5 DEF List!Next

--------------------------------------------------------------------------------
(* The comparison. *)
LEMMA ColumnsStart == Columns!Init => ColumnsInv
  BY DEF Columns!Init, ColumnsInv

(* An answered fetch is gone, and its column may have changed; the others have not.        *)
LEMMA FetchTaken ==
  ASSUME ColumnsInv, NEW f \in fetches, fetches' = fetches \ {f}, NEW v,
         run' = [run EXCEPT ![f.id] = v]
  PROVE  ColumnsInv' /\ Columns!ColumnsStand
<1>1. DOMAIN run' = DOMAIN run /\ \A id \in DOMAIN run \ {f.id} : run'[id] = run[id]
  OBVIOUS
<1>2. f.id \in Columns!Ids => run[f.id].status = "loading"
  BY DEF ColumnsInv
<1> QED
  BY <1>1, <1>2 DEF ColumnsInv, Fetching, Columns!ColumnsStand

LEMMA ColumnsKept ==
  ASSUME ColumnsInv, Columns!Next
  PROVE  ColumnsInv' /\ Columns!ColumnsStand
<1>1. CASE Columns!Fetch
  <2> DEFINE new == {[id |-> id, stage |-> "runs", number |-> 0] : id \in Columns!Wanted}
  <2>1. /\ run' = [id \in Columns!Ids |-> IF id \in Columns!Wanted THEN Columns!Have("loading", 0) ELSE run[id]]
        /\ fetches' = fetches \cup new
    BY <1>1 DEF Columns!Fetch
  <2>2. \A id \in Columns!Wanted : run[id].status = "absent"
    BY DEF Columns!Wanted, Columns!Absent, Columns!Have
  <2>3. \A f \in new : /\ Fetching(f) /\ f.id \in Columns!Wanted
                       /\ f = [id |-> f.id, stage |-> "runs", number |-> 0]
    BY DEF Fetching
  <2>4. \A f \in fetches : f.id \in Columns!Ids => f.id \notin Columns!Wanted
    BY <2>2 DEF ColumnsInv
  <2>5. \A id \in Columns!Ids : /\ id \in Columns!Wanted => run'[id].status = "loading"
                                /\ id \notin Columns!Wanted => run'[id] = run[id]
    BY <2>1 DEF Columns!Have
  <2> HIDE DEF new
  <2>6. ColumnsInv'
    BY <2>1, <2>3, <2>4, <2>5 DEF ColumnsInv, Fetching
  <2>7. Columns!ColumnsStand
    BY <2>2, <2>5 DEF Columns!ColumnsStand
  <2> QED
    BY <2>6, <2>7
<1>2. CASE Columns!Answer
  <2>1. PICK f \in fetches : Columns!RunsListed(f) \/ Columns!RunFetched(f) \/ Columns!FetchFailed(f)
    BY <1>2 DEF Columns!Answer
  <2>2. CASE \E v : run' = [run EXCEPT ![f.id] = v] /\ fetches' = fetches \ {f}
    BY <2>2, FetchTaken
  <2>3. CASE /\ fetches' = (fetches \ {f}) \cup {[f EXCEPT !.stage = "full", !.number = latest[f.id]]}
             /\ run' = run
    <3>1. Fetching(f)
      BY DEF ColumnsInv
    <3> DEFINE g == [f EXCEPT !.stage = "full", !.number = latest[f.id]]
    <3>2. Fetching(g) /\ g.id = f.id
      BY <3>1 DEF Fetching
    <3> HIDE DEF g
    <3> QED
      BY <2>3, <3>2 DEF g, ColumnsInv, Fetching, Columns!ColumnsStand
  <2> QED
    BY <2>1, <2>2, <2>3 DEF Columns!RunsListed, Columns!RunFetched, Columns!FetchFailed
<1>3. CASE Columns!ListAnswer \/ Columns!Retry \/ \E id \in Stored : Columns!Toggle(id) \/ Columns!NewRun(id)
  BY <1>3 DEF Columns!ListAnswer, Columns!Listed, Columns!ListFailed, Columns!Retry, Columns!Toggle,
     Columns!NewRun, ColumnsInv, Fetching, Columns!ColumnsStand
<1> QED
  BY <1>1, <1>2, <1>3 DEF Columns!Next

--------------------------------------------------------------------------------
(* The pages together: a step is of one of them, and the others stand still. *)
PagesInv == PreviewInv /\ ListInv /\ ColumnsInv
Facts == List!RowFactsStand /\ Columns!ColumnsStand

LEMMA PagesStart == Init => PagesInv
  BY PreviewInit, ListStarts, ColumnsStart DEF Init, PagesInv

LEMMA PreviewStands == PreviewInv /\ UNCHANGED previewVars => PreviewInv'
  BY DEF previewVars, PreviewInv, Flight, DoneIsCurrent, Preview!DoneIsCurrent
LEMMA ListStands == ListInv /\ UNCHANGED listVars => ListInv' /\ List!RowFactsStand
  BY DEF listVars, ListInv, Call, List!RowFactsStand
LEMMA ColumnsStandStill == ColumnsInv /\ UNCHANGED columnVars => ColumnsInv' /\ Columns!ColumnsStand
  BY DEF columnVars, ColumnsInv, Fetching, Columns!ColumnsStand

LEMMA PagesKept == PagesInv /\ [Next]_vars => PagesInv' /\ Facts
<1> SUFFICES ASSUME PagesInv, [Next]_vars PROVE PagesInv' /\ Facts
  OBVIOUS
<1>1. PreviewInv'
  <2>1. CASE Preview!Next
    BY <2>1, PreviewKept DEF PagesInv
  <2>2. CASE UNCHANGED previewVars
    BY <2>2, PreviewStands DEF PagesInv
  <2> QED
    BY <2>1, <2>2 DEF Next, PreviewStep, ListStep, ColumnsStep, FormStep, vars
<1>2. ListInv' /\ List!RowFactsStand
  <2>1. CASE List!Next
    BY <2>1, ListKept DEF PagesInv
  <2>2. CASE UNCHANGED listVars
    BY <2>2, ListStands DEF PagesInv
  <2> QED
    BY <2>1, <2>2 DEF Next, PreviewStep, ListStep, ColumnsStep, FormStep, vars
<1>3. ColumnsInv' /\ Columns!ColumnsStand
  <2>1. CASE Columns!Next
    BY <2>1, ColumnsKept DEF PagesInv
  <2>2. CASE UNCHANGED columnVars
    BY <2>2, ColumnsStandStill DEF PagesInv
  <2> QED
    BY <2>1, <2>2 DEF Next, PreviewStep, ListStep, ColumnsStep, FormStep, vars
<1> QED
  BY <1>1, <1>2, <1>3 DEF PagesInv, Facts

(* useDebouncedRequest.ts 13-14 and 49-60: no response of an earlier input is left on the  *)
(* panel, in whatever order timers fire, requests settle and the box is emptied.           *)
THEOREM PreviewIsCurrent == Spec => []DoneIsCurrent
<1>1. PagesInv => DoneIsCurrent
  BY DEF PagesInv, PreviewInv
<1>2. PagesInv /\ [Next]_vars => PagesInv'
  BY PagesKept
<1> QED
  BY <1>1, <1>2, PagesStart, PTL DEF Spec

(* Dashboard.tsx 107-153 and Compare.tsx 118-142: whatever order answers come in, and      *)
(* whatever is lost or done elsewhere, no row comes back, loses its temperature or starts  *)
(* its clock again, and no column changes once it is filled.                               *)
THEOREM FactsKept == Spec => FactsStand
<1>1. PagesInv /\ [Next]_vars => PagesInv'
  BY PagesKept
<1>2. PagesInv /\ [Next]_vars => [List!RowFactsStand /\ Columns!ColumnsStand]_vars
  BY PagesKept DEF Facts
<1> QED
  BY <1>1, <1>2, PagesStart, PTL DEF Spec, FactsStand
================================================================================
