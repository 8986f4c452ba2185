--------------------------------- MODULE Compare ---------------------------------
(* apps/studio/src/routes/Compare.tsx: two to four saved designs side by side, chosen by   *)
(* the address or on the page.  The latest run of a design is fetched in two steps, once,  *)
(* and kept for as long as the page is open.                                             *)
EXTENDS Integers, Sequences, SequencesExt, FiniteSets
CONSTANTS Stored,     \* designs the list will have
          Runs,       \* design -> number of runs stored so far, for those of the address too
          Address,    \* what ?ids= names, in order
          MaxToggles, MaxNewRuns \* bounds

MaxSelected == 4
MinSelected == 2

VARIABLES latest,    \* design -> the number of its latest run on the server, 0 for none
          designs,   \* the list of designs has arrived
          listError, urlApplied,
          selected,  \* the ids selected, in order
          run,       \* id -> what the page has: absent, loading, none, error, or a run
          fetches,   \* id, stage and run of each fetch under way
          listing,   \* the list was asked for and has not answered
          toggles, newRuns

vars == <<latest, designs, listError, urlApplied, selected, run, fetches, listing, toggles, newRuns>>

Ids == Stored \cup ToSet(Address)
Have(status, number) == [status |-> status, number |-> number]
Absent == Have("absent", 0)

Init ==
  /\ latest = Runs
  /\ designs = FALSE /\ listError = FALSE /\ urlApplied = FALSE /\ listing = TRUE
  /\ selected = Address /\ run = [id \in Ids |-> Absent] /\ fetches = {}
  /\ toggles = 0 /\ newRuns = 0

(* The effect of 118-142, after each change of the selection: what is there, an error     *)
(* included, is not fetched again.                                                       *)
Wanted == {id \in ToSet(selected) : run[id] = Absent}
Fetch ==
  /\ Wanted # {}
  /\ run' = [id \in Ids |-> IF id \in Wanted THEN Have("loading", 0) ELSE run[id]]
  /\ fetches' = fetches \cup {[id |-> id, stage |-> "runs", number |-> 0] : id \in Wanted}
  /\ UNCHANGED <<latest, designs, listError, urlApplied, selected, listing, toggles, newRuns>>

(* listSimulations: the list of runs, newest first. *)
RunsListed(f) ==
  /\ f.stage = "runs"
  /\ IF latest[f.id] = 0
     THEN /\ run' = [run EXCEPT ![f.id] = Have("none", 0)] /\ fetches' = fetches \ {f}
     ELSE /\ fetches' = (fetches \ {f}) \cup {[f EXCEPT !.stage = "full", !.number = latest[f.id]]}
          /\ UNCHANGED run
  /\ UNCHANGED <<latest, designs, listError, urlApplied, selected, listing, toggles, newRuns>>
(* getSimulation of the first of them. *)
RunFetched(f) ==
  /\ f.stage = "full"
  /\ run' = [run EXCEPT ![f.id] = Have("done", f.number)]
  /\ fetches' = fetches \ {f}
  /\ UNCHANGED <<latest, designs, listError, urlApplied, selected, listing, toggles, newRuns>>

FetchFailed(f) ==
  /\ run' = [run EXCEPT ![f.id] = Have("error", 0)]
  /\ fetches' = fetches \ {f}
  /\ UNCHANGED <<latest, designs, listError, urlApplied, selected, listing, toggles, newRuns>>

(* The list; what the address named and the list does not have goes, once.  An error is    *)
(* never taken back: Retry lists again behind it.                                        *)
Listed ==
  /\ listing /\ listing' = FALSE /\ designs' = TRUE /\ urlApplied' = TRUE
  /\ selected' = IF urlApplied THEN selected
                 ELSE LET known == SelectSeq(selected, LAMBDA id : id \in Stored)
                      IN SubSeq(known, 1, IF Len(known) < MaxSelected THEN Len(known) ELSE MaxSelected)
  /\ UNCHANGED <<latest, listError, run, fetches, toggles, newRuns>>
ListFailed ==
  /\ listing /\ listing' = FALSE /\ listError' = TRUE
  /\ UNCHANGED <<latest, designs, urlApplied, selected, run, fetches, toggles, newRuns>>
Retry ==
  /\ listError /\ ~listing /\ toggles < MaxToggles
  /\ listing' = TRUE /\ toggles' = toggles + 1
  /\ UNCHANGED <<latest, designs, listError, urlApplied, selected, run, fetches, newRuns>>

Toggle(id) ==
  /\ designs /\ ~listError /\ toggles < MaxToggles /\ toggles' = toggles + 1
  /\ IF id \in ToSet(selected) THEN selected' = SelectSeq(selected, LAMBDA x : x # id)
     ELSE Len(selected) < MaxSelected /\ selected' = Append(selected, id)
  /\ UNCHANGED <<latest, designs, listError, urlApplied, run, fetches, listing, newRuns>>

NewRun(id) ==
  /\ newRuns < MaxNewRuns /\ newRuns' = newRuns + 1
  /\ latest' = [latest EXCEPT ![id] = @ + 1]
  /\ UNCHANGED <<designs, listError, urlApplied, selected, run, fetches, listing, toggles>>

Answer == \E f \in fetches : RunsListed(f) \/ RunFetched(f) \/ FetchFailed(f)
ListAnswer == Listed \/ ListFailed
Next == Fetch \/ Answer \/ ListAnswer \/ Retry \/ \E id \in Stored : Toggle(id) \/ NewRun(id)

Fairness == WF_vars(Fetch) /\ WF_vars(Answer) /\ WF_vars(ListAnswer)
Spec == Init /\ [][Next]_vars /\ Fairness

(* What the page compares: the runs of the selected designs that are there, once none of   *)
(* them is on its way.                                                                   *)
Ready == SelectSeq(selected, LAMBDA id : run[id].status = "done")
StillLoading == \E id \in ToSet(selected) : run[id].status \in {"absent", "loading"}

--------------------------------------------------------------------------------
(* A column once filled keeps its run ("once, keyed by id", Compare.tsx:118), however often *)
(* its design is selected, dropped, selected again and run elsewhere since.               *)
ColumnsStand == \A id \in Ids : run[id].status = "done" => run'[id] = run[id]

(* Each selected design ends as a column, a "no saved run yet" or an error: the page never  *)
(* stays at "Loading saved runs...", nor at the list's own loading.                       *)
ColumnsAreUp == ~StillLoading
ListIsUp == ~listing
================================================================================
