---------------------------- MODULE DebouncedRequest ----------------------------
(* apps/studio/src/controls/useDebouncedRequest.ts: a request follows the last change of *)
(* its input after a delay.  The live preview of Studio.tsx 115 and the place search of  *)
(* LocationSearch.tsx 16 are two uses of it; an empty search box is the input None.      *)
EXTENDS Integers
CONSTANTS MaxInputs,  \* bound: changes of the input
          MaxRetries, \* bound: clicks on Retry
          None

VARIABLES input,   \* the number of the last change, or None when the box was emptied
          changes, retries,
          status, data, \* what the panel shows; data is the input it answers
          timer,   \* setTimeout is pending; it will run with the input it was set for
          flights  \* requests not settled: their number, input and AbortController

vars == <<input, changes, retries, status, data, timer, flights>>

Init == /\ input = None /\ changes = 0 /\ retries = 0
        /\ status = "idle" /\ data = None
        /\ timer = FALSE /\ flights = {}

(* Mutant of Aborted: the request before goes on as if it were wanted. *)
NoneAborted == flights
Aborted == {[f EXCEPT !.aborted = TRUE] : f \in flights}
Numbers == {f.number : f \in flights}

(* run(), 32-36: the request before is aborted, though it cannot be taken back. *)
Run(value) ==
  /\ flights' = Aborted \cup
       {[number |-> CHOOSE n \in 0..MaxInputs + MaxRetries : n \notin Numbers,
         input |-> value, aborted |-> FALSE]}
  /\ status' = "loading"

(* The effect, 49-60.  Its clean-up clears the timer of the input before; a request under *)
(* way goes on until the new timer fires.                                                 *)
Change ==
  /\ changes < MaxInputs /\ changes' = changes + 1
  /\ input' = changes'
  /\ status' = "pending"
  /\ timer' = TRUE
  /\ UNCHANGED <<retries, data, flights>>

Clear ==
  /\ input # None
  /\ input' = None
  /\ flights' = Aborted
  /\ status' = "idle" /\ data' = None
  /\ timer' = FALSE
  /\ UNCHANGED <<changes, retries>>

TimerFires ==
  /\ timer
  /\ timer' = FALSE
  /\ Run(input)
  /\ UNCHANGED <<input, changes, retries, data>>

(* The Retry of ResultsPanel.tsx 49-60 is there after an error. *)
Retry ==
  /\ status = "error" /\ input # None /\ retries < MaxRetries
  /\ retries' = retries + 1
  /\ Run(input)
  /\ UNCHANGED <<input, changes, data, timer>>

(* The two callbacks, 37-46. *)
Resolved(f) ==
  /\ flights' = flights \ {f}
  /\ IF f.aborted THEN UNCHANGED <<status, data>> ELSE status' = "done" /\ data' = f.input
  /\ UNCHANGED <<input, changes, retries, timer>>

Rejected(f) ==
  /\ flights' = flights \ {f}
  /\ status' = IF f.aborted THEN status ELSE "error"
  /\ UNCHANGED <<input, changes, retries, data, timer>>

Settles == \E f \in flights : Resolved(f) \/ Rejected(f)
Next == Change \/ Clear \/ TimerFires \/ Retry \/ Settles

(* Timers fire and requests settle: the server answers or the connection fails. *)
Fairness == WF_vars(TimerFires) /\ WF_vars(Settles)

Spec == Init /\ [][Next]_vars /\ Fairness

--------------------------------------------------------------------------------
(* The comment at 13-14, "a stale response is never applied over a newer one".             *)
(* A result shown as done answers the input as it is, unless its successor is about to be *)
(* asked for: what is under way when the input changes may still be shown, and replaced.  *)
(* Nothing is shown for an input that was cleared.                                        *)
DoneIsCurrent == /\ status = "done" /\ ~timer => data = input
                 /\ input = None => status = "idle" /\ data = None

(* The panel does not stay at "Preparing..." or "Updating..." (ResultsPanel.tsx 61-64),    *)
(* whatever answers are dropped on the way.                                               *)
PanelIsUp == status \notin {"pending", "loading"}
================================================================================
