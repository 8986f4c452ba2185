----------------------------- MODULE MCBrowserPages -----------------------------
(* Four pages of the browser clients, one of them open: the studio's live preview, its     *)
(* list of designs and its comparison, and the web app's setup form.  They share no state; *)
(* the others stand still meanwhile.                                                      *)
EXTENDS WebForm
CONSTANTS MaxInputs, MaxRetries, None,
          Designs, Ran, Timed, MaxCalls, MaxElsewhere, NoOne,
          Stored, Runs, Address, MaxToggles, MaxNewRuns

VARIABLES page,
          input, changes, retries, previewStatus, data, previewTimer, flights,
          server, state, rows, confirming, deleting, cancelling, calls, clicks, elsewhere,
          latest, designs, listError, urlApplied, chosen, run, fetches, listing, toggles, newRuns

(* A change, and a design, is none of the values that stand for no such thing. *)
ASSUME PagesAssumption == None \notin Nat /\ NoOne \notin Designs

Preview == INSTANCE DebouncedRequest WITH status <- previewStatus, timer <- previewTimer
List == INSTANCE Dashboard
Columns == INSTANCE Compare WITH selected <- chosen

previewVars == <<input, changes, retries, previewStatus, data, previewTimer, flights>>
listVars == <<server, state, rows, confirming, deleting, cancelling, calls, clicks, elsewhere>>
columnVars == <<latest, designs, listError, urlApplied, chosen, run, fetches, listing, toggles, newRuns>>
vars == <<page, formVars, previewVars, listVars, columnVars>>

Pages == {"preview", "list", "columns", "form"}
Init == page \in Pages /\ FormInit /\ Preview!Init /\ List!Init /\ Columns!Init

PreviewStep == page = "preview" /\ Preview!Next /\ UNCHANGED <<page, formVars, listVars, columnVars>>
ListStep == page = "list" /\ List!Next /\ UNCHANGED <<page, formVars, previewVars, columnVars>>
ColumnsStep == page = "columns" /\ Columns!Next /\ UNCHANGED <<page, formVars, previewVars, listVars>>
FormStep == page = "form" /\ FormNext /\ UNCHANGED <<page, previewVars, listVars, columnVars>>
Next == PreviewStep \/ ListStep \/ ColumnsStep \/ FormStep

(* Timers fire, calls are answered or lost, effects run: what each page assumes.           *)
Fairness ==
  /\ WF_vars(PreviewStep /\ (Preview!TimerFires \/ Preview!Settles))
  /\ WF_vars(ListStep /\ List!Serves) /\ WF_vars(ListStep /\ List!Answer)
  /\ WF_vars(ColumnsStep /\ Columns!Fetch) /\ WF_vars(ColumnsStep /\ Columns!Answer)
  /\ WF_vars(ColumnsStep /\ Columns!ListAnswer)
Spec == Init /\ [][Next]_vars /\ Fairness

--------------------------------------------------------------------------------
(* DebouncedRequest.tla: what is shown as done is of the input as it is, or about to be
   asked for again (useDebouncedRequest.ts 49-60). *)
DoneIsCurrent == Preview!DoneIsCurrent

(* Dashboard.tla and Compare.tla: a row or a column only learns, whatever order the
   answers come in (Dashboard.tsx 107-153, Compare.tsx 118-142). *)
FactsStand == [][List!RowFactsStand /\ Columns!ColumnsStand]_vars

(* Once the person stops, the preview, the list and the comparison come to rest: nothing
   says "loading" for good, though calls are lost, aborted and asked for again. *)
PagesSettle ==
  []<>(/\ page = "preview" => Preview!PanelIsUp
       /\ page = "list" => List!ListIsUp /\ List!ButtonsAreFree /\ List!RowsAreKnown
       /\ page = "columns" => Columns!ListIsUp /\ Columns!ColumnsAreUp)

MCRaw == {-1000, 0, 2000, 7000}
MCAddress == << "s1", "s2", "gone" >>
MCRuns == [id \in Stored \cup {"gone"} |-> IF id \in {"s1", "s3"} THEN 1 ELSE 0]
================================================================================
