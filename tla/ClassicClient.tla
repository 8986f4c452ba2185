----------------------------- MODULE ClassicClient -----------------------------
(* The classic client (apps/client: App.tsx, the wizard of four steps, api.ts) and the    *)
(* server behind it (apps/server: app.ts, options.ts).  One design is edited, kept in     *)
(* localStorage across reloads, posted from the Review step and shown with its results;   *)
(* each of the first three steps checks its own fields, and only its Next button does.    *)
(*                                                                                        *)
(* Lengths are in tenths of a metre, window shares in percent, and a date is its year.    *)
EXTENDS Integers, Sequences

CONSTANTS Kept,       \* in what a design stored by an earlier visit differs from the default
          Touched,    \* bound: the fields that are changed
          Typed,      \* what is typed into a length or set on a slider
          MaxChanges, MaxRuns, MaxReloads, MaxRetries, \* bounds
          Nothing, Unreadable

(* storeDesign() stores what the controls gave, and the switch gives a boolean; no answer is *)
(* no code of the server's.                                                                *)
ASSUME ClassicAssumption ==
  /\ \A k \in Kept : "nightShutters" \in DOMAIN k => k.nightShutters \in BOOLEAN
  /\ Nothing \notin {"OK", "VALIDATION_ERROR", "SOLVER_DIVERGED", "INTERNAL_ERROR", "NETWORK"}

VARIABLES stored,      \* localStorage: Nothing, Unreadable or a design
          options,     \* "loading", "ready" or "failed"
          design, view, wizardStep,
          step, maxReached, \* the state of the mounted Wizard
          running, runError, result,
          post,        \* the POST in flight: its body and, once given, the server's answer
          changes, posts, reloads, retries,
          skipped      \* history: a jump of the Stepper, or a change during a run

classicVars == <<stored, options, design, view, wizardStep, step, maxReached, running, runError,
                 result, post, changes, posts, reloads, retries, skipped>>

Clip(n, r) == IF n < r[1] THEN r[1] ELSE IF n > r[2] THEN r[2] ELSE n
Within(n, r) == r[1] <= n /\ n <= r[2]

--------------------------------------------------------------------------------
(* options.ts: the catalogue, and the design offered to who has none. *)
KeepPreset == "keep"
Emptied == 0  \* the date field when cleared
Catalogue ==
  [locationId |-> {"leh", "drass"}, presetId |-> {"traditionalLadakhiByre", "armyBroBarrack"},
   occupancyPresetId |-> {"familyLivestock", "soldiers"}, glazingId |-> {"singleGlazing", "doubleGlazing"}]
Materials == {"steelCGI", "eps"}
Defaults ==
  [locationId |-> "leh", date |-> 2023, presetId |-> "traditionalLadakhiByre",
   lengthM |-> 50, widthM |-> 50, heightM |-> 26,
   wallMaterialId |-> KeepPreset, roofMaterialId |-> KeepPreset, floorMaterialId |-> KeepPreset,
   wwrS |-> 3, wwrE |-> 0, wwrW |-> 0, wwrN |-> 0, glazingId |-> "singleGlazing",
   nightShutters |-> FALSE, occupancyPresetId |-> "familyLivestock"]

Lengths == {"lengthM", "widthM", "heightM"}
Shares == {"wwrS", "wwrE", "wwrW", "wwrN"}
MaterialFields == {"wallMaterialId", "roofMaterialId", "floorMaterialId"}

(* steps.tsx: the ranges, the fields of each step and what their controls yield. *)
Ranges == [lengthM |-> <<20, 300>>, widthM |-> <<20, 300>>, heightM |-> <<20, 60>>]
WwrRange == <<0, 90>>
Location == {"locationId", "date"}
Shelter == {"presetId", "occupancyPresetId"} \cup Lengths
Envelope == {"glazingId", "nightShutters"} \cup MaterialFields \cup Shares
Steps == <<Location, Shelter, Envelope, {}>>
Review == Len(Steps)

Dimension(f) == {Clip(n, Ranges[f]) : n \in Typed}
Slider == {Clip(n, WwrRange) : n \in Typed}
Offered(f) ==
  CASE f = "date" -> {Emptied, 2023, 2024}
    [] f \in DOMAIN Catalogue -> Catalogue[f]
    [] f \in MaterialFields -> Materials \cup {KeepPreset}
    [] f \in Lengths -> Dimension(f)
    [] f \in Shares -> Slider
    [] f = "nightShutters" -> BOOLEAN

(* Wizard.tsx 37-76: what the Next button of a step asks of the design. *)
Gate(f, v) ==
  CASE f = "date" -> v = 2023
    [] f \in DOMAIN Catalogue -> v \in Catalogue[f]
    [] f \in MaterialFields -> v \in Materials \cup {KeepPreset}
    [] f \in Lengths -> Within(v, Ranges[f])
    [] f \in Shares -> Within(v, WwrRange)
    [] f = "nightShutters" -> TRUE
StepValid(s, d) == \A f \in Steps[s] : Gate(f, d[f])

(* app.ts 34-82: what the server asks of a body. *)
Schema(f, v) ==
  CASE f = "date" -> v # Emptied
    [] f \in DOMAIN Catalogue -> v \in Catalogue[f]
    [] f \in MaterialFields -> v \in Materials \cup {KeepPreset}
    [] f \in {"lengthM", "widthM"} -> Within(v, <<20, 300>>)
    [] f = "heightM" -> Within(v, <<20, 60>>)
    [] f \in Shares -> Within(v, <<0, 90>>)
    [] f = "nightShutters" -> v \in BOOLEAN

(* The POST route 138-143 and the error handler 96-119: a body the schema takes is         *)
(* simulated, which may fail in the engine.                                               *)
Answers(d) ==
  IF \A f \in DOMAIN d : Schema(f, d[f]) THEN {"OK", "SOLVER_DIVERGED", "INTERNAL_ERROR"}
  ELSE {"VALIDATION_ERROR"}

--------------------------------------------------------------------------------
(* A Wizard is mounted on a step and calls it reached. *)
Mount(s) == step' = s /\ maxReached' = s
OnWizard == options = "ready" /\ view = "wizard"

(* loadStoredDesign(). *)
LoadStored == IF stored \in {Nothing, Unreadable} THEN Defaults ELSE stored

ClassicInit ==
  /\ stored \in {Nothing, Unreadable}
                \cup {[f \in DOMAIN Defaults |-> IF f \in DOMAIN k THEN k[f] ELSE Defaults[f]] : k \in Kept}
  /\ options = "loading" /\ design = Nothing /\ view = "wizard" /\ wizardStep = 1
  /\ step = 1 /\ maxReached = 1
  /\ running = FALSE /\ runError = Nothing /\ result = Nothing /\ post = Nothing
  /\ changes = 0 /\ posts = 0 /\ reloads = 0 /\ retries = 0 /\ skipped = FALSE

(* loadOptions() and its answer, 63-72. *)
OptionsCome ==
  /\ options = "loading"
  /\ options' = "ready"
  /\ design' = IF design = Nothing THEN LoadStored ELSE design
  /\ Mount(wizardStep)
  /\ UNCHANGED <<stored, view, wizardStep, running, runError, result, post, changes, posts, reloads, retries, skipped>>
OptionsFail ==
  /\ options = "loading" /\ options' = "failed"
  /\ UNCHANGED <<stored, design, view, wizardStep, step, maxReached, running, runError, result, post,
                 changes, posts, reloads, retries, skipped>>
Retry ==
  /\ options = "failed" /\ retries < MaxRetries
  /\ options' = "loading" /\ retries' = retries + 1
  /\ UNCHANGED <<stored, design, view, wizardStep, step, maxReached, running, runError, result, post,
                 changes, posts, reloads, skipped>>

(* handleChange() through a control of the step that is open; storing may fail. *)
Change(f, v) ==
  /\ OnWizard /\ f \in Steps[step] \cap Touched /\ changes < MaxChanges /\ v # design[f]
  /\ design' = [design EXCEPT ![f] = v]
  /\ stored' \in {stored, design'}
  /\ changes' = changes + 1
  /\ skipped' = (skipped \/ running)
  /\ UNCHANGED <<options, view, wizardStep, step, maxReached, running, runError, result, post, posts, reloads, retries>>

(* next(), back(), the Stepper and the Edit links of the Review. *)
GoTo(s) ==
  /\ OnWizard /\ s # step /\ step' = s
  /\ UNCHANGED <<stored, options, design, view, wizardStep, running, runError, result, post,
                 changes, posts, reloads, retries>>
NextStepUnchecked ==
  /\ OnWizard /\ step < Review /\ GoTo(step + 1)
  /\ maxReached' = IF step + 1 > maxReached THEN step + 1 ELSE maxReached
  /\ UNCHANGED skipped
NextStep ==
  /\ OnWizard /\ step < Review /\ StepValid(step, design) /\ GoTo(step + 1)
  /\ maxReached' = IF step + 1 > maxReached THEN step + 1 ELSE maxReached
  /\ UNCHANGED skipped
Back == step > 1 /\ GoTo(step - 1) /\ UNCHANGED <<maxReached, skipped>>
EditLink(s) == step = Review /\ s < Review /\ GoTo(s) /\ UNCHANGED <<maxReached, skipped>>
Jump(s) == s <= maxReached /\ GoTo(s) /\ skipped' = TRUE /\ UNCHANGED maxReached

(* handleRun(), 79-91. *)
Run ==
  /\ OnWizard /\ step = Review /\ ~running /\ posts < MaxRuns
  /\ running' = TRUE /\ runError' = Nothing
  /\ post' = [input |-> design, answer |-> Nothing]
  /\ posts' = posts + 1
  /\ UNCHANGED <<stored, options, design, view, wizardStep, step, maxReached, result, changes, reloads, retries, skipped>>
Serve ==
  /\ post # Nothing /\ post.answer = Nothing
  /\ \E a \in Answers(post.input) : post' = [post EXCEPT !.answer = a]
  /\ UNCHANGED <<stored, options, design, view, wizardStep, step, maxReached, running, runError, result,
                 changes, posts, reloads, retries, skipped>>
LosePost ==
  /\ post # Nothing /\ post' = [post EXCEPT !.answer = "NETWORK"] /\ post.answer # "NETWORK"
  /\ UNCHANGED <<stored, options, design, view, wizardStep, step, maxReached, running, runError, result,
                 changes, posts, reloads, retries, skipped>>
Answered ==
  /\ post # Nothing /\ post.answer # Nothing
  /\ IF post.answer = "OK"
     THEN result' = [input |-> post.input] /\ view' = "results" /\ UNCHANGED runError
     ELSE runError' = post.answer /\ UNCHANGED <<result, view>>
  /\ running' = FALSE /\ post' = Nothing
  /\ UNCHANGED <<stored, options, design, wizardStep, step, maxReached, changes, posts, reloads, retries, skipped>>

(* Modify design: a new Wizard on the Review. *)
Modify ==
  /\ options = "ready" /\ view = "results"
  /\ view' = "wizard" /\ wizardStep' = Review /\ Mount(Review)
  /\ UNCHANGED <<stored, options, design, running, runError, result, post, changes, posts, reloads, retries, skipped>>

Reload ==
  /\ reloads < MaxReloads /\ reloads' = reloads + 1
  /\ options' = "loading" /\ design' = Nothing /\ view' = "wizard" /\ wizardStep' = 1 /\ Mount(1)
  /\ running' = FALSE /\ runError' = Nothing /\ result' = Nothing /\ post' = Nothing
  /\ skipped' = FALSE
  /\ UNCHANGED <<stored, changes, posts, retries>>

ClassicNext ==
  \/ OptionsCome \/ OptionsFail \/ Retry \/ NextStep \/ Back \/ Run \/ Serve \/ LosePost \/ Answered
  \/ Modify \/ Reload
  \/ \E f \in Touched : \E v \in Offered(f) : Change(f, v)
  \/ \E s \in 1..Review : EditLink(s) \/ Jump(s)

ClassicSpec == ClassicInit /\ [][ClassicNext]_classicVars

(* A call is answered or lost, and its promise settles. *)
Calls == OptionsCome \/ Serve \/ Answered

--------------------------------------------------------------------------------
(* Wizard.tsx 37-76 against app.ts 34-82: to somebody who goes through the steps by their *)
(* Next buttons and waits for a run before changing anything, the server never refuses    *)
(* the design - whatever localStorage held, and over Back, Edit, Modify and reloads.      *)
WalkedRunIsAccepted == ~skipped /\ post # Nothing => post.answer # "VALIDATION_ERROR"

(* No spinner for good: the options come or fail, and a run ends. *)
Waiting == options = "loading" \/ running
================================================================================
