----------------------------- MODULE StudioSession -----------------------------
(* apps/studio/src/routes/Studio.tsx: one person at the design page, and the studio      *)
(* server behind it.  The page's own state lives as long as the page is mounted; the     *)
(* design being edited lives in a store (design/store.ts) that outlives it; a handler    *)
(* that awaits the server goes on with what it captured at the click, wherever the       *)
(* person has gone in the meantime.                                                      *)
EXTENDS Integers, Sequences, FiniteSets
CONSTANTS Saved,     \* ids of designs saved before
          MaxEdits,  \* bound: edits of the design or of its name
          MaxClicks, \* bound: clicks that call the server
          MaxOpens,  \* bound: navigations of the person
          New, Away, None

Ids == Saved \cup 1..MaxClicks \* a design created by a click is named by it

(* A design and a name are the number of the edit that made them; 0 is the default.  The  *)
(* name field may be given an earlier name again: the page compares names, but no designs. *)
Design == [name : 0..MaxEdits, design : 0..MaxEdits, ansys : BOOLEAN]

ASSUME SessionAssumption ==
  /\ MaxEdits \in Nat /\ MaxClicks \in Nat /\ MaxOpens \in Nat
  /\ Saved \cap 1..MaxClicks = {} /\ New # Away /\ None \notin {New, Away}
  /\ {New, Away, None} \cap Ids = {} /\ None \notin Design \cup 0..MaxEdits

VARIABLES server, \* id -> the saved design, or None
          runs,   \* simulations the server has stored, as pairs of an id and a design
          store,  \* useShelterDesign: the design shown and whether it was edited
          page,   \* the state and refs of the mounted Studio page
          load,   \* the page's getDesign() in flight, with the server's answer once given
          calls,  \* the handlers of clicks, in order
          edits, opens,
          calm    \* history: so far each answer had arrived before the next click or navigation

vars == <<server, runs, store, page, load, calls, edits, opens, calm>>

Call == [kind : {"save", "run", "start", "cancel"}, mount : Nat, savedId : Ids \cup {None},
         name : 0..MaxEdits, design : 0..MaxEdits, target : Ids \cup {None},
         stage : {"saving", "saved", "saveFailed", "acting", "acted", "actFailed", "done", "failed"}]

Unmounted == [mount |-> 0, route |-> Away, loadedId |-> None, savedId |-> None, name |-> 0,
              lastName |-> 0, loading |-> TRUE, loadError |-> FALSE, ansys |-> FALSE,
              save |-> "idle", run |-> "idle", start |-> "idle"]

Init == /\ server = [i \in Ids |-> IF i \in Saved THEN [name |-> 0, design |-> 0, ansys |-> FALSE]
                                                  ELSE None]
        /\ runs = {}
        /\ store = [design |-> None, dirty |-> FALSE]
        /\ page = Unmounted
        /\ load = None
        /\ calls = <<>>
        /\ edits = 0 /\ opens = 0
        /\ calm = TRUE

Settled(c) == c.stage \in {"done", "failed"}
Quiet == load = None /\ \A k \in DOMAIN calls : Settled(calls[k])

(* What the page shows, 190, 226: "Loading design..." over disabled buttons, or the error  *)
(* of the load with its Retry, or the controls.                                           *)
LoadingDesign == page.route # Away /\ (page.loading \/ store.design = None)
RetryShown == page.route # Away /\ ~LoadingDesign /\ page.loadError
Visible == page.route # Away /\ ~LoadingDesign /\ ~page.loadError
(* Mutant of Unsaved: the name is forgotten. *)
UnsavedForgetsName == store.dirty \/ page.savedId = None
(* Studio.tsx 255 and the test of 147 and 164. *)
Unsaved == store.dirty \/ page.name # page.lastName \/ page.savedId = None

--------------------------------------------------------------------------------
(* The effect on the route, 71-113, for a page p: its clean-up cancels the load of the    *)
(* route before, and the refs keep a page that already shows the design from loading.     *)
Seed(p) == [p EXCEPT !.name = 0, !.lastName = 0, !.savedId = None, !.ansys = FALSE,
                     !.loadedId = New]
Fresh(p) == p.route = New /\ p.loadedId # New
Fetches(p) == p.route \notin {New, p.loadedId}
EffectPage(p) ==
  IF Fetches(p) THEN [p EXCEPT !.loading = TRUE, !.loadError = FALSE]
  ELSE [(IF Fresh(p) THEN Seed(p) ELSE p) EXCEPT !.loading = FALSE]
(* Mutant of EffectLoad: no clean-up. *)
EffectLoadNeverCancels(p) == IF Fetches(p) THEN [id |-> p.route, given |-> FALSE, answer |-> None]
                             ELSE load
EffectLoad(p) == IF Fetches(p) THEN [id |-> p.route, given |-> FALSE, answer |-> None] ELSE None
LoadEffect(p) ==
  /\ page' = EffectPage(p)
  /\ load' = EffectLoad(p)
  /\ store' = IF Fresh(p) THEN [design |-> 0, dirty |-> FALSE] ELSE store

(* Leaving the page unmounts it; coming from elsewhere mounts a new one; between two      *)
(* designs the page stays and the effect runs again.                                      *)
At(p, r) == IF p.route = Away THEN [Unmounted EXCEPT !.mount = p.mount + 1, !.route = r]
            ELSE [p EXCEPT !.route = r]
RouteTo(r) ==
  IF r = Away
  THEN page' = [Unmounted EXCEPT !.mount = page.mount] /\ load' = None /\ UNCHANGED store
  ELSE LoadEffect(At(page, r))

Open(r) ==
  /\ opens < MaxOpens /\ r # page.route
  /\ r \in Ids => server[r] # None
  /\ RouteTo(r)
  /\ opens' = opens + 1
  /\ calm' = (calm /\ Quiet)
  /\ UNCHANGED <<server, runs, calls, edits>>

GetDesign ==
  /\ load # None /\ ~load.given
  /\ load' = [load EXCEPT !.given = TRUE, !.answer = server[load.id]]
  /\ UNCHANGED <<server, runs, store, page, calls, edits, opens, calm>>

(* Resolved: 92-101.  The page may only be reached by a load that was not cancelled.      *)
LoadDone ==
  /\ load # None /\ load.answer # None
  /\ store' = [design |-> load.answer.design, dirty |-> FALSE]
  /\ page' = [page EXCEPT !.name = load.answer.name, !.lastName = load.answer.name,
                          !.savedId = load.id, !.ansys = load.answer.ansys,
                          !.loadedId = load.id, !.loading = FALSE]
  /\ load' = None
  /\ UNCHANGED <<server, runs, calls, edits, opens, calm>>

(* Rejected, by the server or on the way: 102-106.                                        *)
LoadFailed ==
  /\ load # None
  /\ page' = [page EXCEPT !.loadError = TRUE, !.loading = FALSE]
  /\ load' = None
  /\ UNCHANGED <<server, runs, store, calls, edits, opens, calm>>

(* The Retry button, 238-244. *)
RetryLoad ==
  /\ RetryShown
  /\ LoadEffect([page EXCEPT !.loadedId = None])
  /\ UNCHANGED <<server, runs, calls, edits, opens, calm>>

(* The setters of design/store.ts through edit(), and the name field.                     *)
Edit ==
  /\ Visible /\ edits < MaxEdits
  /\ edits' = edits + 1
  /\ store' = [design |-> edits', dirty |-> TRUE]
  /\ UNCHANGED <<server, runs, page, load, calls, opens, calm>>

Rename(name) ==
  /\ Visible /\ edits < MaxEdits
  /\ edits' = edits + 1
  /\ name \in 0..edits' \ {page.name}
  /\ page' = [page EXCEPT !.name = name]
  /\ UNCHANGED <<server, runs, store, load, calls, opens, calm>>

--------------------------------------------------------------------------------
(* Clicks.  Each button is disabled only while its own handler runs (259, 262, 274), so    *)
(* handlers of different buttons overlap; each goes on with what it captured.  The dialog  *)
(* that confirms a start or a cancel is modal and adds no state of its own.                *)
Click(kind, stage, p) ==
  /\ Visible /\ Len(calls) < MaxClicks
  /\ calls' = Append(calls, [kind |-> kind, mount |-> page.mount, savedId |-> page.savedId,
                             name |-> page.name, design |-> store.design,
                             target |-> page.savedId, stage |-> stage])
  /\ page' = p
  /\ calm' = (calm /\ Quiet)
  /\ UNCHANGED <<server, runs, store, load, edits, opens>>

ClickSave == page.save # "saving" /\ Click("save", "saving", [page EXCEPT !.save = "saving"])

(* handleSaveRun 143-152 and handleConfirmAnsys 159-168: save first what is not saved. *)
SaveFirst(p) == IF Unsaved THEN [p EXCEPT !.save = "saving"] ELSE p
(* Mutant of FirstStage: only a new design is saved first. *)
FirstStageSavesNew == IF page.savedId = None THEN "saving" ELSE "acting"
FirstStage == IF Unsaved THEN "saving" ELSE "acting"

ClickRun == page.run # "saving"
            /\ Click("run", FirstStage, SaveFirst([page EXCEPT !.run = "saving"]))

ClickStart == ~page.ansys /\ page.start # "starting"
              /\ Click("start", FirstStage, SaveFirst([page EXCEPT !.start = "starting"]))

ClickCancel == page.ansys /\ page.savedId # None /\ page.start # "cancelling"
               /\ Click("cancel", "acting", [page EXCEPT !.start = "cancelling"])

Goes(k, stage) == calls' = [calls EXCEPT ![k].stage = stage]

(* The server takes the save: a create makes a design of its own (createDesign), an update *)
(* replaces name and design of an existing one and nothing else.                           *)
TakeSave(k) ==
  LET c == calls[k] IN
  /\ c.stage = "saving"
  /\ IF c.savedId # None /\ server[c.savedId] = None
     THEN Goes(k, "saveFailed") /\ UNCHANGED server
     ELSE LET id == IF c.savedId = None THEN k ELSE c.savedId IN
          /\ server' = [server EXCEPT ![id] = [name |-> c.name, design |-> c.design,
                          ansys |-> IF c.savedId = None THEN FALSE ELSE @.ansys]]
          /\ calls' = [calls EXCEPT ![k].stage = "saved", ![k].target = id]
  /\ UNCHANGED <<runs, store, page, load, edits, opens, calm>>

(* A request or its answer is lost: client.ts makes it a NETWORK_ERROR either way. *)
Lose(k) ==
  /\ \/ calls[k].stage \in {"saving", "saved"} /\ Goes(k, "saveFailed")
     \/ calls[k].stage \in {"acting", "acted"} /\ Goes(k, "actFailed")
  /\ UNCHANGED <<server, runs, store, page, load, edits, opens, calm>>

Mounted(c) == page.route # Away /\ page.mount = c.mount

(* handleSaveDesign() after its await, 123-132.  loadDesign() writes the store whoever is *)
(* shown; the setters and refs are those of the page of the click; navigate() moves the   *)
(* person wherever they are.                                                              *)
SaveAnswered(k) ==
  LET c == calls[k]
      done == [page EXCEPT !.name = c.name, !.lastName = c.name, !.save = "idle"]
      own == IF ~Mounted(c) THEN page
             ELSE IF c.savedId # None THEN done
             ELSE [done EXCEPT !.loadedId = c.target, !.savedId = c.target] IN
  /\ c.stage = "saved"
  /\ store' = [design |-> c.design, dirty |-> FALSE]
  /\ IF c.savedId # None \/ page.route = c.target THEN page' = own /\ UNCHANGED load
     ELSE page' = EffectPage(At(own, c.target)) /\ load' = EffectLoad(At(own, c.target))
  /\ Goes(k, IF c.kind = "save" THEN "done" ELSE "acting")
  /\ UNCHANGED <<server, runs, edits, opens, calm>>

(* The simulations and ANSYS routes at the saved design: a run stores the design as the   *)
(* server has it, a start is idempotent.                                                  *)
TakeAct(k) ==
  LET c == calls[k] IN
  /\ c.stage = "acting"
  /\ IF server[c.target] = None THEN Goes(k, "actFailed") /\ UNCHANGED <<server, runs>>
     ELSE /\ Goes(k, "acted")
          /\ runs' = IF c.kind = "run" THEN runs \cup {<<c.target, server[c.target].design>>}
                     ELSE runs
          /\ server' = IF c.kind = "run" THEN server
                       ELSE [server EXCEPT ![c.target].ansys = (c.kind = "start")]
  /\ UNCHANGED <<store, page, load, edits, opens, calm>>

(* 153, 169-171 and 183-185. *)
ActAnswered(k) ==
  LET c == calls[k] IN
  /\ c.stage = "acted"
  /\ page' = IF ~Mounted(c) THEN page
             ELSE IF c.kind = "run" THEN [page EXCEPT !.run = "done"]
             ELSE [page EXCEPT !.ansys = (c.kind = "start"), !.start = "idle"]
  /\ Goes(k, "done")
  /\ UNCHANGED <<server, runs, store, load, edits, opens, calm>>

(* Mutant of Failed: the click of a run swallows the error. *)
FailedSilently(k) ==
  /\ calls[k].stage \in {"saveFailed", "actFailed"}
  /\ Goes(k, "failed")
  /\ UNCHANGED <<server, runs, store, page, load, edits, opens, calm>>

(* The catch blocks: 135-139, and those of the handler that awaited the save. *)
Failed(k) ==
  LET c == calls[k]
      saveError == IF c.stage = "saveFailed" THEN [page EXCEPT !.save = "error"] ELSE page IN
  /\ c.stage \in {"saveFailed", "actFailed"}
  /\ page' = IF ~Mounted(c) THEN page
             ELSE IF c.kind = "run" THEN [saveError EXCEPT !.run = "error"]
             ELSE IF c.kind = "save" THEN saveError
             ELSE [saveError EXCEPT !.start = "error"]
  /\ Goes(k, "failed")
  /\ UNCHANGED <<server, runs, store, load, edits, opens, calm>>

(* Delete on the dashboard (Dashboard.tsx 149-161), from where no design is shown. *)
Delete(id) ==
  /\ page.route = Away /\ server[id] # None
  /\ server' = [server EXCEPT ![id] = None]
  /\ calm' = (calm /\ Quiet)
  /\ UNCHANGED <<runs, store, page, load, calls, edits, opens>>

Person == Edit \/ (\E name \in 0..MaxEdits : Rename(name)) \/ ClickSave \/ ClickRun \/ ClickStart \/ ClickCancel \/ RetryLoad
          \/ (\E r \in Ids \cup {New, Away} : Open(r)) \/ (\E id \in Ids : Delete(id))
Server == GetDesign \/ \E k \in DOMAIN calls : TakeSave(k) \/ TakeAct(k)
Network == LoadFailed \/ \E k \in DOMAIN calls : Lose(k)
Handlers == LoadDone \/ \E k \in DOMAIN calls : SaveAnswered(k) \/ ActAnswered(k) \/ Failed(k)

Next == Person \/ Server \/ Network \/ Handlers

(* A request is answered or lost, and a settled promise runs its handler. *)
Fairness == WF_vars(GetDesign) /\ WF_vars(LoadDone \/ (load # None /\ load.given /\ LoadFailed))
            /\ \A k \in 1..MaxClicks :
                 WF_vars(k \in DOMAIN calls
                         /\ (TakeSave(k) \/ TakeAct(k) \/ SaveAnswered(k) \/ ActAnswered(k) \/ Failed(k)))

Spec == Init /\ [][Next]_vars /\ Fairness

--------------------------------------------------------------------------------
Store == [design : 0..MaxEdits \cup {None}, dirty : BOOLEAN]
Page == [mount : Nat, route : Ids \cup {New, Away}, loadedId : Ids \cup {New, None},
         savedId : Ids \cup {None}, name : 0..MaxEdits, lastName : 0..MaxEdits,
         loading : BOOLEAN, loadError : BOOLEAN, ansys : BOOLEAN,
         save : {"idle", "saving", "error"}, run : {"idle", "saving", "error", "done"},
         start : {"idle", "starting", "cancelling", "error"}]
Load == [id : Ids, given : BOOLEAN, answer : Design \cup {None}]

TypeOK == /\ server \in [Ids -> Design \cup {None}]
          /\ runs \subseteq Ids \X (0..MaxEdits)
          /\ store \in Store /\ page \in Page /\ load \in Load \cup {None}
          /\ calls \in Seq(Call) /\ Len(calls) <= MaxClicks
          /\ edits \in 0..MaxEdits /\ opens \in 0..MaxOpens /\ calm \in BOOLEAN

(* The page that can be edited and saved is the one of the address: the next save goes to  *)
(* the design the address names, or makes a new one.  Loads of an address left meanwhile,  *)
(* saves that answer later and the navigation they cause must not part the four           *)
(* (Studio.tsx 71-113, 127-131).                                                           *)
IdsAgree == Visible => /\ page.loadedId = page.route
                       /\ page.savedId = IF page.route = New THEN None ELSE page.route

(* To somebody who waits for each answer before the next click, the label "Saved" (256)   *)
(* means that the server has this design, also after requests or answers were lost; that   *)
(* it has this name, if no error is beside it; and a running ANSYS timer with no error     *)
(* beside it that the server has that run.                                                *)
SavedMeansStored ==
  calm /\ Quiet /\ Visible /\ page.savedId # None =>
    LET d == server[page.savedId] IN
      /\ d # None
      /\ ~Unsaved => d.design = store.design /\ (page.save # "error" => d.name = page.name)
      /\ page.ansys /\ page.start # "error" => d.ansys

(* And a run that is reported saved (handleSaveRun, 143) is of the design that was shown   *)
(* at the click, although the request names only an id.                                    *)
RunsWhatWasShown ==
  calm => \A k \in DOMAIN calls :
            calls[k].kind = "run" /\ calls[k].stage = "done"
              => <<calls[k].target, calls[k].design>> \in runs

(* A button is disabled: saveState, runState or ansysState has a busy value.              *)
Busy == page.save = "saving" \/ page.run = "saving" \/ page.start \in {"starting", "cancelling"}

(* Studio.tsx 40-42: "errors say what happened and offer a retry".  A load that failed     *)
(* offers one, also where it was the first and the store has no design to fall back on.    *)
FailedLoadOffersRetry == page.route # Away /\ page.loadError /\ load = None => RetryShown
================================================================================
