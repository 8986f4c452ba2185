-------------------------- MODULE StudioSessionProofs --------------------------
(* Proofs about StudioSession: for any saved designs and any number of edits, clicks and   *)
(* navigations; and at the end about ClassicClient, the other client.                     *)
EXTENDS StudioSession, ClassicClient, TLAPS

(* A page that shows a design saves to it. *)
SavesToLoaded(p) ==
  p.loadedId # None => p.savedId = IF p.loadedId = New THEN None ELSE p.loadedId
Shown(p) == p.route # Away /\ ~p.loading /\ ~p.loadError => p.loadedId = p.route

(* What the page shows, loads and saves to belongs together. *)
IdsMatch == /\ SavesToLoaded(page) /\ Shown(page)
            /\ load # None => load.id = page.route /\ page.loading
            /\ page.route = Away => page.savedId = None

(* A handler that got as far as its second request knows the design's id. *)
Targeted == \A k \in DOMAIN calls :
              calls[k].stage \in {"saved", "acting", "acted"} => calls[k].target \in Ids

(* The inductive invariant of whatever the person does. *)
IInv == TypeOK /\ IdsMatch /\ Targeted

AllSettled == \A k \in DOMAIN calls : Settled(calls[k])

(* The page has no handler to wait for. *)
Idle == page.save \in {"idle", "error"} /\ page.start \in {"idle", "error"}

(* The server has what the page of a saved design takes it to have. *)
Synced == page.savedId # None =>
            LET d == server[page.savedId] IN
            /\ d # None
            /\ ~store.dirty => d.design = store.design
            /\ page.save = "idle" => d.name = page.lastName
            /\ page.ansys /\ page.start = "idle" => d.ansys

(* A handler at its save, and one at its second request. *)
AtSave(c) ==
  /\ page.savedId = c.savedId /\ page.save = "saving" /\ c.kind # "cancel"
  /\ ~store.dirty => store.design = c.design
  /\ c.stage = "saved" => /\ c.savedId \in {None, c.target}
                          /\ server[c.target] # None
                          /\ server[c.target].name = c.name /\ server[c.target].design = c.design
AtAct(c) ==
  /\ page.savedId = c.target /\ c.target \in Ids /\ page.save # "saving" /\ c.kind # "save"
  /\ c.kind = "run" /\ c.stage = "acting" => server[c.target].design = c.design
  /\ c.kind = "start" /\ c.stage = "acted" => server[c.target].ansys

(* The one handler that is under way has its page before it. *)
Underway(c) ==
  /\ page.route # Away /\ page.mount = c.mount /\ ~page.loading /\ ~page.loadError
  /\ c.kind \in {"save", "run"} => page.start \in {"idle", "error"}
  /\ c.kind = "cancel" => page.start = "cancelling"
  /\ c.stage \in {"saving", "saved", "saveFailed"} => AtSave(c)
  /\ c.stage \in {"acting", "acted", "actFailed"} => AtAct(c)

RunsKept == \A k \in DOMAIN calls :
              calls[k].kind = "run" /\ calls[k].stage \in {"acted", "done"}
                => <<calls[k].target, calls[k].design>> \in runs

(* What holds for somebody who waits for each answer. *)
Orderly ==
  /\ \A k \in DOMAIN calls : ~Settled(calls[k]) => k = Len(calls) /\ Underway(calls[k])
  /\ AllSettled => Idle
  /\ Synced
  /\ page.savedId = None => ~page.ansys
  /\ load # None => AllSettled /\ (load.answer # None => server[load.id] = load.answer)
  /\ RunsKept
CalmInv == calm => Orderly

Stages == {"saving", "saved", "saveFailed", "acting", "acted", "actFailed", "done", "failed"}

--------------------------------------------------------------------------------
LEMMA Ids1 == /\ None \notin Ids /\ New \notin Ids /\ Away \notin Ids
              /\ New # Away /\ None # New /\ None # Away
BY SessionAssumption

(* The fields of a page, one by one. *)
LEMMA PageFields ==
  ASSUME NEW p \in Page
  PROVE  /\ p.mount \in Nat /\ p.route \in Ids \cup {New, Away}
         /\ p.loadedId \in Ids \cup {New, None} /\ p.savedId \in Ids \cup {None}
         /\ p.name \in 0..MaxEdits /\ p.lastName \in 0..MaxEdits
         /\ p.loading \in BOOLEAN /\ p.loadError \in BOOLEAN /\ p.ansys \in BOOLEAN
         /\ p.save \in {"idle", "saving", "error"}
         /\ p.run \in {"idle", "saving", "error", "done"}
         /\ p.start \in {"idle", "starting", "cancelling", "error"}
BY DEF Page

LEMMA UnmountedIsPage == Unmounted \in Page
BY SessionAssumption DEF Unmounted, Page

(* The page and the load that the effect on the route leaves. *)
LEMMA Effect ==
  ASSUME NEW p \in Page, p.route # Away, SavesToLoaded(p)
  PROVE  LET q == EffectPage(p) IN
         /\ q \in Page /\ SavesToLoaded(q) /\ Shown(q)
         /\ q.route = p.route /\ q.mount = p.mount
         /\ EffectLoad(p) \in Load \cup {None}
         /\ EffectLoad(p) # None => EffectLoad(p).id = q.route /\ q.loading
<1> USE Ids1
<1>1. CASE Fetches(p)
  <2>1. EffectPage(p) = [p EXCEPT !.loading = TRUE, !.loadError = FALSE]
    BY <1>1 DEF EffectPage
  <2>2. EffectLoad(p) = [id |-> p.route, given |-> FALSE, answer |-> None]
    BY <1>1 DEF EffectLoad
  <2>3. p.route \in Ids
    BY <1>1, PageFields DEF Fetches
  <2>4. EffectPage(p) \in Page
    BY <2>1 DEF Page
  <2>5. EffectLoad(p) \in Load
    BY <2>2, <2>3 DEF Load
  <2> QED BY <2>1, <2>2, <2>4, <2>5 DEF Page, SavesToLoaded, Shown
<1>2. CASE ~Fetches(p) /\ Fresh(p)
  <2>1. EffectPage(p) = [Seed(p) EXCEPT !.loading = FALSE]
    BY <1>2 DEF EffectPage
  <2>2. EffectLoad(p) = None
    BY <1>2 DEF EffectLoad
  <2>3. /\ Seed(p) \in Page /\ Seed(p).route = p.route /\ Seed(p).mount = p.mount
        /\ Seed(p).loadedId = New /\ Seed(p).savedId = None
    <3>1. 0 \in 0..MaxEdits
      BY SessionAssumption
    <3>2. [p EXCEPT !.name = 0] \in Page
      BY <3>1 DEF Page
    <3>3. [[p EXCEPT !.name = 0] EXCEPT !.lastName = 0] \in Page
      BY <3>1, <3>2 DEF Page
    <3> DEFINE q == [[p EXCEPT !.name = 0] EXCEPT !.lastName = 0]
    <3>4. Seed(p) = [q EXCEPT !.savedId = None, !.ansys = FALSE, !.loadedId = New]
      BY DEF Seed
    <3>5. q.route = p.route /\ q.mount = p.mount
      BY DEF Page
    <3>6. q \in Page
      BY <3>3
    <3> HIDE DEF q
    <3> QED BY <3>4, <3>5, <3>6 DEF Page
  <2> HIDE DEF Seed
  <2>4. EffectPage(p) \in Page
    BY <2>1, <2>3 DEF Page
  <2> QED BY <1>2, <2>1, <2>2, <2>3, <2>4 DEF Page, SavesToLoaded, Shown, Fresh
<1>3. CASE ~Fetches(p) /\ ~Fresh(p)
  <2>1. EffectPage(p) = [p EXCEPT !.loading = FALSE]
    BY <1>3 DEF EffectPage
  <2>2. EffectLoad(p) = None
    BY <1>3 DEF EffectLoad
  <2>3. p.loadedId = p.route
    BY <1>3 DEF Fetches, Fresh
  <2>4. EffectPage(p) \in Page
    BY <2>1 DEF Page
  <2> QED BY <2>1, <2>2, <2>3, <2>4 DEF Page, SavesToLoaded, Shown
<1> QED BY <1>1, <1>2, <1>3

(* Turning to an address. *)
LEMMA Arrival ==
  ASSUME NEW p \in Page, SavesToLoaded(p), NEW r \in Ids \cup {New}
  PROVE  At(p, r) \in Page /\ At(p, r).route = r /\ SavesToLoaded(At(p, r))
<1> USE Ids1
<1>1. CASE p.route = Away
  <2>1. At(p, r) = [Unmounted EXCEPT !.mount = p.mount + 1, !.route = r]
    BY <1>1 DEF At
  <2>2. p.mount + 1 \in Nat
    BY DEF Page
  <2>3. At(p, r) \in Page
    BY <2>1, <2>2, UnmountedIsPage DEF Page
  <2>4. At(p, r).route = r /\ At(p, r).loadedId = None
    BY <2>1 DEF Unmounted
  <2> QED BY <2>3, <2>4 DEF SavesToLoaded
<1>2. CASE p.route # Away
  <2>1. At(p, r) = [p EXCEPT !.route = r]
    BY <1>2 DEF At
  <2> QED BY <2>1 DEF Page, SavesToLoaded
<1> QED BY <1>1, <1>2

(* A handler goes on. *)
LEMMA Replaced ==
  ASSUME calls \in Seq(Call), NEW k \in DOMAIN calls, NEW c \in Call,
         calls' = [calls EXCEPT ![k] = c]
  PROVE  /\ calls' \in Seq(Call) /\ Len(calls') = Len(calls) /\ DOMAIN calls' = DOMAIN calls
         /\ calls'[k] = c /\ \A j \in DOMAIN calls \ {k} : calls'[j] = calls[j]
OBVIOUS

LEMMA Going ==
  ASSUME calls \in Seq(Call), NEW k \in DOMAIN calls, NEW s \in Stages, Goes(k, s)
  PROVE  /\ calls' \in Seq(Call) /\ Len(calls') = Len(calls) /\ DOMAIN calls' = DOMAIN calls
         /\ calls'[k] = [calls[k] EXCEPT !.stage = s]
         /\ \A j \in DOMAIN calls \ {k} : calls'[j] = calls[j]
<1>1. calls[k] \in Call
  OBVIOUS
<1>2. [calls[k] EXCEPT !.stage = s] \in Call
  BY <1>1 DEF Call, Stages
<1>3. calls' = [calls EXCEPT ![k] = [calls[k] EXCEPT !.stage = s]]
  BY DEF Goes
<1> QED BY <1>2, <1>3, Replaced

(* The fields of a handler. *)
LEMMA CallFields ==
  ASSUME calls \in Seq(Call), NEW k \in DOMAIN calls
  PROVE  /\ calls[k] \in Call
         /\ calls[k].kind \in {"save", "run", "start", "cancel"} /\ calls[k].mount \in Nat
         /\ calls[k].savedId \in Ids \cup {None} /\ calls[k].target \in Ids \cup {None}
         /\ calls[k].name \in 0..MaxEdits /\ calls[k].design \in 0..MaxEdits
         /\ calls[k].stage \in Stages
<1>1. calls[k] \in Call
  OBVIOUS
<1> QED BY <1>1 DEF Call, Stages

--------------------------------------------------------------------------------
(* A page that only names, saves and runs differently. *)
SameDesign(p) == /\ p \in Page /\ p.route = page.route /\ p.mount = page.mount
                 /\ p.loadedId = page.loadedId /\ p.savedId = page.savedId
                 /\ p.loading = page.loading /\ p.loadError = page.loadError

LEMMA SamePlace ==
  ASSUME IdsMatch, SameDesign(page'), UNCHANGED load
  PROVE  IdsMatch'
BY DEF IdsMatch, SameDesign, SavesToLoaded, Shown

LEMMA GoingOn ==
  ASSUME TypeOK, Targeted, NEW k \in DOMAIN calls, NEW s \in Stages, Goes(k, s),
         s \in {"saved", "acting", "acted"} => calls[k].target \in Ids
  PROVE  calls' \in Seq(Call) /\ Len(calls') <= MaxClicks /\ Targeted'
<1>1. calls \in Seq(Call) /\ calls[k] \in Call /\ Len(calls) <= MaxClicks
  BY DEF TypeOK
<1>2. /\ calls' \in Seq(Call) /\ Len(calls') = Len(calls) /\ DOMAIN calls' = DOMAIN calls
      /\ calls'[k] = [calls[k] EXCEPT !.stage = s]
      /\ \A j \in DOMAIN calls \ {k} : calls'[j] = calls[j]
  BY <1>1, Going
<1>3. calls'[k].stage = s /\ calls'[k].target = calls[k].target
  BY <1>1, <1>2 DEF Call
<1> QED BY <1>1, <1>2, <1>3 DEF Targeted

LEMMA InitInv == Init => IInv
<1> SUFFICES ASSUME Init PROVE IInv
  OBVIOUS
<1> USE SessionAssumption
<1>1. server \in [Ids -> Design \cup {None}]
  BY DEF Init, Design
<1>2. store \in Store /\ page \in Page /\ load \in Load \cup {None}
  BY UnmountedIsPage DEF Init, Store
<1>3. /\ calls \in Seq(Call) /\ Len(calls) <= MaxClicks
      /\ runs \subseteq Ids \X (0..MaxEdits)
  BY DEF Init
<1>4. edits \in 0..MaxEdits /\ opens \in 0..MaxOpens /\ calm \in BOOLEAN
  BY DEF Init
<1>5. IdsMatch /\ Targeted
  BY DEF Init, Unmounted, IdsMatch, Targeted, SavesToLoaded, Shown
<1> QED BY <1>1, <1>2, <1>3, <1>4, <1>5 DEF IInv, TypeOK

(* Navigations and loads. *)
LEMMA Loading ==
  ASSUME IInv, NEW p \in Page, p.route # Away, SavesToLoaded(p), LoadEffect(p)
  PROVE  page' \in Page /\ load' \in Load \cup {None} /\ store' \in Store /\ IdsMatch'
<1> DEFINE q == EffectPage(p)
<1>1. /\ q \in Page /\ SavesToLoaded(q) /\ Shown(q) /\ q.route = p.route
      /\ EffectLoad(p) \in Load \cup {None}
      /\ EffectLoad(p) # None => EffectLoad(p).id = q.route /\ q.loading
  BY Effect
<1>2. page' = q /\ load' = EffectLoad(p)
  BY DEF LoadEffect
<1>3. store' \in Store
  BY SessionAssumption DEF LoadEffect, Store, IInv, TypeOK
<1> HIDE DEF q
<1> QED BY <1>1, <1>2, <1>3 DEF IdsMatch

LEMMA OpenInv == ASSUME IInv, NEW r \in Ids \cup {New, Away}, Open(r) PROVE IInv'
<1> USE Ids1 DEF IInv
<1>1. /\ UNCHANGED <<server, runs, calls, edits>> /\ opens' = opens + 1 /\ opens < MaxOpens
      /\ calm' \in BOOLEAN /\ RouteTo(r)
  BY DEF Open, Quiet, TypeOK
<1>2. opens' \in 0..MaxOpens
  BY <1>1, SessionAssumption DEF TypeOK
<1>3. page' \in Page /\ load' \in Load \cup {None} /\ store' \in Store /\ IdsMatch'
  <2>1. page \in Page /\ SavesToLoaded(page) /\ store \in Store
    BY DEF TypeOK, IdsMatch
  <2>2. CASE r = Away
    <3>1. page' = [Unmounted EXCEPT !.mount = page.mount] /\ load' = None /\ store' = store
      BY <1>1, <2>2 DEF RouteTo
    <3>2. page' \in Page
      BY <2>1, <3>1, UnmountedIsPage DEF Page
    <3>3. page'.route = Away /\ page'.loadedId = None /\ page'.savedId = None
      BY <3>1 DEF Unmounted
    <3> QED BY <2>1, <3>1, <3>2, <3>3 DEF IdsMatch, SavesToLoaded, Shown
  <2>3. CASE r # Away
    <3>1. LoadEffect(At(page, r)) /\ r \in Ids \cup {New}
      BY <1>1, <2>3 DEF RouteTo
    <3>2. /\ At(page, r) \in Page /\ At(page, r).route # Away
          /\ SavesToLoaded(At(page, r))
      BY <2>1, <3>1, Arrival
    <3> QED BY <3>1, <3>2, Loading
  <2> QED BY <2>2, <2>3
<1>4. Targeted'
  BY <1>1 DEF Targeted
<1> QED BY <1>1, <1>2, <1>3, <1>4 DEF TypeOK

LEMMA RetryLoadInv == ASSUME IInv, RetryLoad PROVE IInv'
<1> USE Ids1 DEF IInv
<1> DEFINE p == [page EXCEPT !.loadedId = None]
<1>1. LoadEffect(p) /\ UNCHANGED <<server, runs, calls, edits, opens, calm>>
  BY DEF RetryLoad, RetryShown, LoadingDesign
<1>2. p \in Page /\ p.route # Away /\ SavesToLoaded(p)
  BY DEF RetryLoad, RetryShown, LoadingDesign, TypeOK, Page, SavesToLoaded
<1> HIDE DEF p
<1>3. page' \in Page /\ load' \in Load \cup {None} /\ store' \in Store /\ IdsMatch'
  BY <1>1, <1>2, Loading
<1>4. Targeted'
  BY <1>1 DEF Targeted
<1> QED BY <1>1, <1>3, <1>4 DEF TypeOK

LEMMA GetDesignInv == ASSUME IInv, GetDesign PROVE IInv'
<1> USE Ids1 DEF IInv
<1>1. load \in Load /\ server[load.id] \in Design \cup {None}
  BY DEF GetDesign, TypeOK, Load
<1>2. load' \in Load /\ load'.id = load.id /\ load # None
  BY <1>1 DEF GetDesign, Load
<1>3. UNCHANGED <<server, runs, store, page, calls, edits, opens, calm>>
  BY DEF GetDesign
<1>4. IdsMatch' /\ Targeted'
  BY <1>2, <1>3 DEF IdsMatch, SavesToLoaded, Shown, Targeted
<1> QED BY <1>2, <1>3, <1>4 DEF TypeOK

LEMMA LoadDoneInv == ASSUME IInv, LoadDone PROVE IInv'
<1> USE Ids1 DEF IInv
<1>1. /\ load \in Load /\ load.answer \in Design /\ load.id \in Ids
      /\ load.id = page.route /\ page \in Page
  BY DEF LoadDone, TypeOK, Load, IdsMatch
<1>2. /\ load.answer.design \in 0..MaxEdits /\ load.answer.name \in 0..MaxEdits
      /\ load.answer.ansys \in BOOLEAN
  BY <1>1 DEF Design
<1>3. store' \in Store
  BY <1>2 DEF LoadDone, Store
<1> DEFINE p == [page EXCEPT !.name = load.answer.name, !.lastName = load.answer.name]
<1>4. p \in Page /\ p.route = page.route
  BY <1>1, <1>2 DEF Page
<1>5. page' = [p EXCEPT !.savedId = load.id, !.ansys = load.answer.ansys,
                        !.loadedId = load.id, !.loading = FALSE]
  BY DEF LoadDone
<1> HIDE DEF p
<1>6. page' \in Page
  BY <1>1, <1>2, <1>4, <1>5 DEF Page
<1>7. page'.route = page.route /\ page'.loadedId = load.id /\ page'.savedId = load.id
  BY <1>4, <1>5 DEF Page
<1>8. load' = None /\ UNCHANGED <<server, runs, calls, edits, opens, calm>>
  BY DEF LoadDone
<1>9. IdsMatch' /\ Targeted'
  BY <1>1, <1>7, <1>8 DEF IdsMatch, SavesToLoaded, Shown, Targeted
<1> QED BY <1>3, <1>6, <1>8, <1>9 DEF TypeOK

LEMMA LoadFailedInv == ASSUME IInv, LoadFailed PROVE IInv'
<1> USE Ids1 DEF IInv
<1>1. page \in Page /\ load' = None /\ UNCHANGED <<server, runs, store, calls, edits, opens, calm>>
  BY DEF LoadFailed, TypeOK
<1>2. page' = [page EXCEPT !.loadError = TRUE, !.loading = FALSE]
  BY DEF LoadFailed
<1>3. /\ page' \in Page /\ page'.route = page.route /\ page'.loadedId = page.loadedId
      /\ page'.savedId = page.savedId /\ page'.loadError
  BY <1>1, <1>2 DEF Page
<1>4. IdsMatch' /\ Targeted'
  BY <1>1, <1>3 DEF IdsMatch, SavesToLoaded, Shown, Targeted
<1> QED BY <1>1, <1>3, <1>4 DEF TypeOK

LEMMA EditInv ==
  ASSUME IInv, Edit \/ (\E name \in 0..MaxEdits : Rename(name))
  PROVE  IInv'
<1> USE DEF IInv
<1>1. edits' \in 0..MaxEdits /\ UNCHANGED <<server, runs, load, calls, opens, calm>>
  <2>1. edits' = edits + 1 /\ edits < MaxEdits
    BY DEF Edit, Rename
  <2>2. edits' \in 0..MaxEdits
    BY <2>1, SessionAssumption DEF TypeOK
  <2> QED BY <2>2 DEF Edit, Rename
<1>2. CASE Edit
  <2>1. page' = page /\ store' \in Store
    BY <1>1, <1>2 DEF Edit, Store
  <2> QED BY <1>1, <2>1 DEF TypeOK, IdsMatch, SavesToLoaded, Shown, Targeted
<1>3. ASSUME NEW name \in 0..MaxEdits, Rename(name) PROVE IInv'
  <2>1. page' = [page EXCEPT !.name = name] /\ store' = store
    BY <1>3 DEF Rename
  <2>2. SameDesign(page')
    BY <2>1 DEF TypeOK, SameDesign, Page
  <2>3. IdsMatch'
    BY <1>1, <2>2, SamePlace
  <2> QED BY <1>1, <2>1, <2>2, <2>3 DEF TypeOK, Targeted, SameDesign
<1> QED BY <1>2, <1>3

(* Clicks: the four buttons append a handler at its first stage. *)
Clicks == ClickSave \/ ClickRun \/ ClickStart \/ ClickCancel

(* The call of a click. *)
Clicked(kind, stage) ==
  [kind |-> kind, mount |-> page.mount, savedId |-> page.savedId, name |-> page.name,
   design |-> store.design, target |-> page.savedId, stage |-> stage]

LEMMA ClickShape ==
  ASSUME IInv, Clicks
  PROVE  \E kind \in {"save", "run", "start", "cancel"}, stage \in {"saving", "acting"} :
           /\ Click(kind, stage, page') /\ SameDesign(page') /\ page'.ansys = page.ansys
           /\ page'.name = page.name /\ page'.lastName = page.lastName
           /\ stage = "acting" => kind # "save" /\ page.savedId # None /\ page'.save = page.save
           /\ stage = "saving" => kind # "cancel" /\ page'.save = "saving"
           /\ stage = "acting" /\ kind # "cancel" => ~Unsaved
           /\ kind \in {"save", "run"} => page'.start = page.start
           /\ kind = "start" => page'.start = "starting" /\ ~page.ansys
           /\ kind = "cancel" => page'.start = "cancelling"
<1>1. page \in Page
  BY DEF IInv, TypeOK
<1>2. CASE ClickSave
  <2>1. page' = [page EXCEPT !.save = "saving"] /\ Click("save", "saving", page')
    BY <1>2 DEF ClickSave, Click
  <2>2. SameDesign(page')
    BY <1>1, <2>1 DEF SameDesign, Page
  <2>3. /\ page'.ansys = page.ansys /\ page'.name = page.name /\ page'.start = page.start
        /\ page'.lastName = page.lastName /\ page'.save = "saving"
    BY <1>1, <2>1 DEF Page
  <2> QED BY <2>1, <2>2, <2>3
<1>3. CASE ClickRun
  <2> DEFINE p == [page EXCEPT !.run = "saving"]
  <2>1. page' = SaveFirst(p) /\ Click("run", FirstStage, page')
    BY <1>3 DEF ClickRun, Click
  <2>2. SameDesign(p) /\ p \in Page
    BY <1>1 DEF SameDesign, Page
  <2>3. /\ p.ansys = page.ansys /\ p.name = page.name /\ p.lastName = page.lastName
        /\ p.start = page.start /\ p.save = page.save
    BY <1>1 DEF Page
  <2> HIDE DEF p
  <2>4. CASE Unsaved
    <3>1. page' = [p EXCEPT !.save = "saving"] /\ Click("run", "saving", page')
      BY <2>1, <2>4 DEF SaveFirst, FirstStage
    <3>2. SameDesign(page')
      BY <2>2, <3>1 DEF SameDesign, Page
    <3>3. /\ page'.ansys = page.ansys /\ page'.name = page.name /\ page'.start = page.start
          /\ page'.lastName = page.lastName /\ page'.save = "saving"
      BY <2>2, <2>3, <3>1 DEF Page
    <3> QED BY <3>1, <3>2, <3>3
  <2>5. CASE ~Unsaved
    <3>1. page' = p /\ Click("run", "acting", page') /\ page.savedId # None
      BY <2>1, <2>5 DEF SaveFirst, FirstStage, Unsaved
    <3> QED BY <2>2, <2>3, <2>5, <3>1
  <2> QED BY <2>4, <2>5
<1>4. CASE ClickStart
  <2> DEFINE p == [page EXCEPT !.start = "starting"]
  <2>1. page' = SaveFirst(p) /\ Click("start", FirstStage, page') /\ ~page.ansys
    BY <1>4 DEF ClickStart, Click
  <2>2. SameDesign(p) /\ p \in Page
    BY <1>1 DEF SameDesign, Page
  <2>3. /\ p.ansys = page.ansys /\ p.name = page.name /\ p.lastName = page.lastName
        /\ p.start = "starting" /\ p.save = page.save
    BY <1>1 DEF Page
  <2> HIDE DEF p
  <2>4. CASE Unsaved
    <3>1. page' = [p EXCEPT !.save = "saving"] /\ Click("start", "saving", page')
      BY <2>1, <2>4 DEF SaveFirst, FirstStage
    <3>2. SameDesign(page')
      BY <2>2, <3>1 DEF SameDesign, Page
    <3>3. /\ page'.ansys = page.ansys /\ page'.name = page.name /\ page'.start = "starting"
          /\ page'.lastName = page.lastName /\ page'.save = "saving"
      BY <2>2, <2>3, <3>1 DEF Page
    <3> QED BY <2>1, <3>1, <3>2, <3>3
  <2>5. CASE ~Unsaved
    <3>1. page' = p /\ Click("start", "acting", page') /\ page.savedId # None
      BY <2>1, <2>5 DEF SaveFirst, FirstStage, Unsaved
    <3> QED BY <2>1, <2>2, <2>3, <2>5, <3>1
  <2> QED BY <2>4, <2>5
<1>5. CASE ClickCancel
  <2>1. /\ page' = [page EXCEPT !.start = "cancelling"] /\ Click("cancel", "acting", page')
        /\ page.savedId # None
    BY <1>5 DEF ClickCancel, Click
  <2>2. SameDesign(page')
    BY <1>1, <2>1 DEF SameDesign, Page
  <2>3. /\ page'.ansys = page.ansys /\ page'.name = page.name /\ page'.start = "cancelling"
        /\ page'.lastName = page.lastName /\ page'.save = page.save
    BY <1>1, <2>1 DEF Page
  <2> QED BY <2>1, <2>2, <2>3
<1> QED BY <1>2, <1>3, <1>4, <1>5 DEF Clicks

LEMMA ClickCall ==
  ASSUME IInv, NEW kind \in {"save", "run", "start", "cancel"},
         NEW stage \in {"saving", "acting"}, Click(kind, stage, page')
  PROVE  /\ Clicked(kind, stage) \in Call /\ calls' = Append(calls, Clicked(kind, stage))
         /\ calls' \in Seq(Call) /\ Len(calls') = Len(calls) + 1 /\ Len(calls') <= MaxClicks
         /\ DOMAIN calls' = DOMAIN calls \cup {Len(calls')}
         /\ calls'[Len(calls')] = Clicked(kind, stage)
         /\ \A k \in DOMAIN calls : calls'[k] = calls[k]
<1>1. page \in Page /\ store \in Store /\ store.design # None /\ calls \in Seq(Call)
  BY DEF IInv, TypeOK, Click, Visible, LoadingDesign
<1>2. store.design \in 0..MaxEdits
  BY <1>1 DEF Store
<1>3. Clicked(kind, stage) \in Call
  BY <1>1, <1>2, PageFields DEF Clicked, Call
<1>4. calls' = Append(calls, Clicked(kind, stage)) /\ Len(calls) < MaxClicks
  BY DEF Click, Clicked
<1> HIDE DEF Clicked
<1>5. Len(calls') = Len(calls) + 1 /\ calls' \in Seq(Call)
  BY <1>1, <1>3, <1>4
<1> QED BY <1>1, <1>3, <1>4, <1>5, SessionAssumption

LEMMA ClickInv == ASSUME IInv, Clicks PROVE IInv'
<1> USE DEF IInv
<1>1. PICK kind \in {"save", "run", "start", "cancel"}, stage \in {"saving", "acting"} :
        /\ Click(kind, stage, page') /\ SameDesign(page')
        /\ stage = "acting" => page.savedId # None
  BY ClickShape
<1>2. UNCHANGED <<server, runs, store, load, edits, opens>> /\ calm' \in BOOLEAN
  BY <1>1 DEF Click, TypeOK, Quiet
<1>3. IdsMatch' /\ page' \in Page
  BY <1>1, <1>2, SamePlace DEF SameDesign
<1>4. /\ calls' \in Seq(Call) /\ Len(calls') <= MaxClicks
      /\ DOMAIN calls' = DOMAIN calls \cup {Len(calls')}
      /\ calls'[Len(calls')] = Clicked(kind, stage)
      /\ \A k \in DOMAIN calls : calls'[k] = calls[k]
  BY <1>1, ClickCall
<1>5. page.savedId \in Ids \cup {None}
  BY PageFields DEF TypeOK
<1>6. Clicked(kind, stage).stage = stage /\ Clicked(kind, stage).target = page.savedId
  BY DEF Clicked
<1>7. Targeted'
  BY <1>1, <1>4, <1>5, <1>6 DEF Targeted
<1> QED BY <1>2, <1>3, <1>4, <1>7 DEF TypeOK

(* What the server does, or the network instead. *)
LEMMA TakeSaveInv == ASSUME IInv, NEW k \in DOMAIN calls, TakeSave(k) PROVE IInv'
<1> USE Ids1 DEF IInv
<1> DEFINE c == calls[k]
<1>1. UNCHANGED <<runs, store, page, load, edits, opens, calm>>
  BY DEF TakeSave
<1>2. /\ c \in Call /\ c.savedId \in Ids \cup {None} /\ c.name \in 0..MaxEdits
      /\ c.design \in 0..MaxEdits /\ k \in 1..MaxClicks /\ calls \in Seq(Call)
  BY CallFields, SessionAssumption DEF TypeOK
<1>3. CASE Goes(k, "saveFailed") /\ UNCHANGED server
  <2>1. calls' \in Seq(Call) /\ Len(calls') <= MaxClicks /\ Targeted'
    BY <1>3, GoingOn DEF Stages
  <2> QED BY <1>1, <1>3, <2>1 DEF TypeOK, IdsMatch, SavesToLoaded, Shown
<1>4. CASE ~(Goes(k, "saveFailed") /\ UNCHANGED server)
  <2> DEFINE id == IF c.savedId = None THEN k ELSE c.savedId
             ansys == IF c.savedId = None THEN FALSE ELSE server[id].ansys
             d == [name |-> c.name, design |-> c.design, ansys |-> ansys]
  <2>1. /\ server' = [server EXCEPT ![id] = d]
        /\ calls' = [calls EXCEPT ![k].stage = "saved", ![k].target = id]
        /\ c.savedId # None => server[c.savedId] # None
    BY <1>4 DEF TakeSave
  <2>2. id \in Ids
    BY <1>2 DEF Ids
  <2>3. ansys \in BOOLEAN
    <3>1. CASE c.savedId = None
      BY <3>1
    <3>2. CASE c.savedId # None
      <4>1. server[c.savedId] \in Design
        BY <1>2, <2>1, <3>2 DEF TypeOK
      <4> QED BY <3>2, <4>1 DEF Design
    <3> QED BY <3>1, <3>2
  <2> HIDE DEF ansys
  <2>4. d \in Design
    BY <1>2, <2>3 DEF Design
  <2> HIDE DEF d
  <2>5. server' \in [Ids -> Design \cup {None}]
    BY <2>1, <2>2, <2>4 DEF TypeOK
  <2> DEFINE e == [c EXCEPT !.stage = "saved", !.target = id]
  <2>6. e \in Call /\ e.target = id
    BY <1>2, <2>2 DEF Call
  <2>7. calls' = [calls EXCEPT ![k] = e]
    BY <2>1, <1>2
  <2> HIDE DEF e
  <2>8. /\ calls' \in Seq(Call) /\ Len(calls') = Len(calls) /\ DOMAIN calls' = DOMAIN calls
        /\ calls'[k] = e /\ \A j \in DOMAIN calls \ {k} : calls'[j] = calls[j]
    BY <1>2, <2>6, <2>7, Replaced
  <2>9. Targeted'
    BY <2>2, <2>6, <2>8 DEF Targeted
  <2> QED BY <1>1, <2>5, <2>8, <2>9 DEF TypeOK, IdsMatch, SavesToLoaded, Shown
<1> QED BY <1>3, <1>4

LEMMA LoseInv == ASSUME IInv, NEW k \in DOMAIN calls, Lose(k) PROVE IInv'
<1>1. PICK s \in {"saveFailed", "actFailed"} : Goes(k, s)
  BY DEF Lose
<1>2. UNCHANGED <<server, runs, store, page, load, edits, opens, calm>>
  BY DEF Lose
<1>3. calls' \in Seq(Call) /\ Len(calls') <= MaxClicks /\ Targeted'
  BY <1>1, GoingOn DEF Stages, IInv
<1> QED BY <1>2, <1>3 DEF IInv, TypeOK, IdsMatch, SavesToLoaded, Shown

LEMMA TakeActInv == ASSUME IInv, NEW k \in DOMAIN calls, TakeAct(k) PROVE IInv'
<1> USE Ids1 DEF IInv
<1> DEFINE c == calls[k]
<1>1. UNCHANGED <<store, page, load, edits, opens, calm>> /\ c.stage = "acting"
  BY DEF TakeAct
<1>2. c.target \in Ids /\ server[c.target] \in Design \cup {None}
  BY <1>1 DEF Targeted, TypeOK
<1>3. PICK s \in {"actFailed", "acted"} : Goes(k, s)
  BY DEF TakeAct
<1>4. calls' \in Seq(Call) /\ Len(calls') <= MaxClicks /\ Targeted'
  BY <1>2, <1>3, GoingOn DEF Stages
<1>5. runs' \subseteq Ids \X (0..MaxEdits) /\ server' \in [Ids -> Design \cup {None}]
  <2>1. CASE server[c.target] = None
    BY <2>1 DEF TakeAct, TypeOK
  <2>2. CASE server[c.target] # None
    <3>1. server[c.target] \in Design /\ server[c.target].design \in 0..MaxEdits
      BY <1>2, <2>2 DEF Design
    <3>2. runs' \subseteq Ids \X (0..MaxEdits)
      BY <1>2, <2>2, <3>1 DEF TakeAct, TypeOK
    <3>3. ASSUME NEW b \in BOOLEAN, server' = [server EXCEPT ![c.target].ansys = b]
          PROVE  server' \in [Ids -> Design \cup {None}]
      <4>1. [server[c.target] EXCEPT !.ansys = b] \in Design
        BY <3>1 DEF Design
      <4> QED BY <3>3, <4>1 DEF TypeOK
    <3>4. \/ server' = server
          \/ server' = [server EXCEPT ![c.target].ansys = (c.kind = "start")]
      BY <2>2 DEF TakeAct
    <3> QED BY <3>2, <3>3, <3>4 DEF TypeOK
  <2> QED BY <2>1, <2>2
<1> QED BY <1>1, <1>4, <1>5 DEF TypeOK, IdsMatch, SavesToLoaded, Shown

LEMMA DeleteInv == ASSUME IInv, NEW id \in Ids, Delete(id) PROVE IInv'
<1>1. server' \in [Ids -> Design \cup {None}] /\ calm' \in BOOLEAN
  BY DEF Delete, IInv, TypeOK, Quiet
<1>2. UNCHANGED <<runs, store, page, load, calls, edits, opens>>
  BY DEF Delete
<1> QED BY <1>1, <1>2 DEF IInv, TypeOK, IdsMatch, SavesToLoaded, Shown, Targeted

(* The handlers after their answers. *)
LEMMA AnsweredPage ==
  ASSUME IInv, NEW k \in DOMAIN calls, calls[k].stage = "saved"
  PROVE  LET c == calls[k]
             done == [page EXCEPT !.name = c.name, !.lastName = c.name, !.save = "idle"]
         IN  /\ SameDesign(done) /\ done.ansys = page.ansys /\ done.start = page.start
             /\ done.name = c.name /\ done.lastName = c.name /\ done.save = "idle"
<1> DEFINE c == calls[k]
<1>1. page \in Page /\ c.name \in 0..MaxEdits
  BY CallFields DEF IInv, TypeOK
<1> DEFINE p == [page EXCEPT !.name = c.name, !.lastName = c.name]
<1>2. p \in Page /\ SameDesign(p)
  BY <1>1 DEF Page, SameDesign
<1>3. /\ p.ansys = page.ansys /\ p.start = page.start /\ p.name = c.name /\ p.lastName = c.name
  BY <1>1 DEF Page
<1> DEFINE done == [page EXCEPT !.name = c.name, !.lastName = c.name, !.save = "idle"]
<1>4. done = [p EXCEPT !.save = "idle"]
  BY <1>1 DEF Page
<1> HIDE DEF p, done
<1>5. SameDesign(done)
  BY <1>2, <1>4 DEF SameDesign, Page
<1>6. /\ done.ansys = p.ansys /\ done.start = p.start /\ done.name = p.name
      /\ done.lastName = p.lastName /\ done.save = "idle"
  BY <1>2, <1>4 DEF Page
<1> QED BY <1>3, <1>5, <1>6 DEF done

LEMMA SaveAnsweredInv == ASSUME IInv, NEW k \in DOMAIN calls, SaveAnswered(k) PROVE IInv'
<1> USE Ids1 DEF IInv
<1> DEFINE c == calls[k]
           done == [page EXCEPT !.name = c.name, !.lastName = c.name, !.save = "idle"]
           own == IF ~Mounted(c) THEN page
                  ELSE IF c.savedId # None THEN done
                  ELSE [done EXCEPT !.loadedId = c.target, !.savedId = c.target]
<1>1. /\ c.stage = "saved" /\ UNCHANGED <<server, runs, edits, opens, calm>>
      /\ store' = [design |-> c.design, dirty |-> FALSE]
      /\ Goes(k, IF c.kind = "save" THEN "done" ELSE "acting")
  BY DEF SaveAnswered
<1>2. c.target \in Ids /\ c.design \in 0..MaxEdits /\ page \in Page
  BY <1>1, CallFields DEF Targeted, TypeOK
<1>3. calls' \in Seq(Call) /\ Len(calls') <= MaxClicks /\ Targeted'
  BY <1>1, <1>2, GoingOn DEF Stages
<1>4. store' \in Store
  BY <1>1, <1>2 DEF Store
<1>5. /\ SameDesign(done) /\ done \in Page
  BY <1>1, AnsweredPage DEF SameDesign
<1> HIDE DEF done
<1>6. SameDesign(own) \/ (Mounted(c) /\ c.savedId = None
                           /\ own = [done EXCEPT !.loadedId = c.target, !.savedId = c.target])
  BY <1>2, <1>5 DEF SameDesign
<1>7. /\ own \in Page /\ own.route = page.route /\ SavesToLoaded(own)
      /\ SameDesign(own) \/ own.route = Away \/ (own.loadedId = c.target /\ page.route # Away)
  <2>1. CASE SameDesign(own)
    BY <2>1 DEF SameDesign, SavesToLoaded, IdsMatch
  <2>2. CASE /\ Mounted(c) /\ c.savedId = None
             /\ own = [done EXCEPT !.loadedId = c.target, !.savedId = c.target]
    BY <1>2, <1>5, <2>2 DEF Page, SavesToLoaded, SameDesign, Mounted
  <2> QED BY <1>6, <2>1, <2>2
<1>8. page' \in Page /\ load' \in Load \cup {None} /\ IdsMatch'
  <2>1. CASE c.savedId # None \/ page.route = c.target
    <3>1. page' = own /\ load' = load
      BY <2>1 DEF SaveAnswered, done
    <3>2. CASE c.savedId # None
      <4>1. SameDesign(own)
        BY <1>2, <1>5, <3>2 DEF SameDesign
      <4> QED BY <1>7, <3>1, <4>1, SamePlace DEF TypeOK
    <3>3. CASE page.route = c.target /\ ~SameDesign(own)
      <4>1. own = [done EXCEPT !.loadedId = c.target, !.savedId = c.target]
        BY <1>6, <3>3
      <4>2. own.loadedId = c.target /\ own.loading = page.loading
        BY <1>5, <4>1 DEF Page, SameDesign
      <4> QED BY <1>2, <1>7, <3>1, <3>3, <4>2 DEF IdsMatch, Shown, TypeOK
    <3>4. CASE SameDesign(own)
      BY <1>7, <3>1, <3>4, SamePlace DEF TypeOK
    <3> QED BY <2>1, <3>2, <3>3, <3>4
  <2>2. CASE ~(c.savedId # None \/ page.route = c.target)
    <3> DEFINE p == At(own, c.target)
    <3>1. page' = EffectPage(p) /\ load' = EffectLoad(p)
      BY <2>2 DEF SaveAnswered, done
    <3> HIDE DEF own
    <3>2. p \in Page /\ p.route = c.target /\ SavesToLoaded(p)
      BY <1>2, <1>7, Arrival
    <3> HIDE DEF p
    <3> DEFINE q == EffectPage(p)
    <3>3. /\ q \in Page /\ SavesToLoaded(q) /\ Shown(q) /\ q.route = p.route
          /\ EffectLoad(p) \in Load \cup {None}
          /\ EffectLoad(p) # None => EffectLoad(p).id = q.route /\ q.loading
      BY <1>2, <3>2, Effect
    <3> HIDE DEF q
    <3>4. page' = q
      BY <3>1 DEF q
    <3> QED BY <1>2, <3>1, <3>2, <3>3, <3>4 DEF IdsMatch
  <2> QED BY <2>1, <2>2
<1> QED BY <1>1, <1>3, <1>4, <1>8 DEF TypeOK

LEMMA ActAnsweredInv == ASSUME IInv, NEW k \in DOMAIN calls, ActAnswered(k) PROVE IInv'
<1> USE DEF IInv
<1> DEFINE c == calls[k]
<1>1. Goes(k, "done") /\ UNCHANGED <<server, runs, store, load, edits, opens, calm>>
  BY DEF ActAnswered
<1>2. calls' \in Seq(Call) /\ Len(calls') <= MaxClicks /\ Targeted'
  BY <1>1, GoingOn DEF Stages
<1>3. page \in Page
  BY DEF TypeOK
<1>4. \/ page' = page
      \/ page' = [page EXCEPT !.run = "done"]
      \/ page' = [page EXCEPT !.ansys = (c.kind = "start"), !.start = "idle"]
  BY DEF ActAnswered
<1>5. SameDesign(page')
  <2>1. CASE page' = page
    BY <1>3, <2>1 DEF SameDesign
  <2>2. CASE page' = [page EXCEPT !.run = "done"]
    BY <1>3, <2>2 DEF SameDesign, Page
  <2>3. ASSUME NEW b \in BOOLEAN, page' = [page EXCEPT !.ansys = b, !.start = "idle"]
        PROVE  SameDesign(page')
    BY <1>3, <2>3 DEF SameDesign, Page
  <2> QED BY <1>4, <2>1, <2>2, <2>3
<1>6. IdsMatch' /\ page' \in Page
  BY <1>1, <1>5, SamePlace DEF SameDesign
<1> QED BY <1>1, <1>2, <1>6 DEF TypeOK

(* The page after a handler failed. *)
LEMMA FailedPage ==
  ASSUME IInv, NEW k \in DOMAIN calls, Failed(k)
  PROVE  /\ SameDesign(page') /\ page'.ansys = page.ansys
         /\ page'.name = page.name /\ page'.lastName = page.lastName
         /\ Mounted(calls[k]) =>
              /\ page'.save = IF calls[k].stage = "saveFailed" THEN "error" ELSE page.save
              /\ page'.start = IF calls[k].kind \in {"save", "run"} THEN page.start ELSE "error"
<1> DEFINE c == calls[k]
           p == IF c.stage = "saveFailed" THEN [page EXCEPT !.save = "error"] ELSE page
<1>1. page \in Page
  BY DEF IInv, TypeOK
<1>2. /\ SameDesign(p) /\ p.ansys = page.ansys /\ p.name = page.name
      /\ p.lastName = page.lastName /\ p.start = page.start
      /\ p.save = IF c.stage = "saveFailed" THEN "error" ELSE page.save
  <2>1. CASE c.stage = "saveFailed"
    <3>1. p = [page EXCEPT !.save = "error"]
      BY <2>1
    <3> QED BY <1>1, <2>1, <3>1 DEF SameDesign, Page
  <2>2. CASE c.stage # "saveFailed"
    <3>1. p = page
      BY <2>2
    <3> QED BY <1>1, <2>2, <3>1 DEF SameDesign
  <2> QED BY <2>1, <2>2
<1>3. page' = IF ~Mounted(c) THEN page
              ELSE IF c.kind = "run" THEN [p EXCEPT !.run = "error"]
              ELSE IF c.kind = "save" THEN p
              ELSE [p EXCEPT !.start = "error"]
  BY DEF Failed
<1> HIDE DEF p
<1>4. p \in Page
  BY <1>2 DEF SameDesign
<1>5. CASE ~Mounted(c)
  <2>1. page' = page
    BY <1>3, <1>5
  <2> QED BY <1>1, <1>5, <2>1 DEF SameDesign
<1>6. CASE Mounted(c) /\ c.kind = "run"
  <2>1. page' = [p EXCEPT !.run = "error"]
    BY <1>3, <1>6
  <2>2. SameDesign(page')
    BY <1>2, <1>4, <2>1 DEF SameDesign, Page
  <2>3. /\ page'.ansys = p.ansys /\ page'.name = p.name /\ page'.lastName = p.lastName
        /\ page'.save = p.save /\ page'.start = p.start
    BY <1>4, <2>1 DEF Page
  <2> QED BY <1>2, <1>6, <2>2, <2>3
<1>7. CASE Mounted(c) /\ c.kind = "save"
  BY <1>2, <1>3, <1>7
<1>8. CASE Mounted(c) /\ c.kind \notin {"run", "save"}
  <2>1. page' = [p EXCEPT !.start = "error"]
    BY <1>3, <1>8
  <2>2. SameDesign(page')
    BY <1>2, <1>4, <2>1 DEF SameDesign, Page
  <2>3. /\ page'.ansys = p.ansys /\ page'.name = p.name /\ page'.lastName = p.lastName
        /\ page'.save = p.save /\ page'.start = "error"
    BY <1>4, <2>1 DEF Page
  <2> QED BY <1>2, <1>8, <2>2, <2>3
<1> QED BY <1>5, <1>6, <1>7, <1>8

LEMMA FailedInv == ASSUME IInv, NEW k \in DOMAIN calls, Failed(k) PROVE IInv'
<1> USE DEF IInv
<1>1. Goes(k, "failed") /\ UNCHANGED <<server, runs, store, load, edits, opens, calm>>
  BY DEF Failed
<1>2. calls' \in Seq(Call) /\ Len(calls') <= MaxClicks /\ Targeted'
  BY <1>1, GoingOn DEF Stages
<1>3. IdsMatch' /\ page' \in Page
  BY <1>1, FailedPage, SamePlace DEF SameDesign
<1> QED BY <1>1, <1>2, <1>3 DEF TypeOK

LEMMA Invariance == IInv /\ [Next]_vars => IInv'
<1> SUFFICES ASSUME IInv, [Next]_vars PROVE IInv'
  OBVIOUS
<1>1. CASE Person
  BY <1>1, EditInv, ClickInv, RetryLoadInv, OpenInv, DeleteInv DEF Person, Clicks
<1>2. CASE Server
  BY <1>2, GetDesignInv, TakeSaveInv, TakeActInv DEF Server
<1>3. CASE Network
  BY <1>3, LoadFailedInv, LoseInv DEF Network
<1>4. CASE Handlers
  BY <1>4, LoadDoneInv, SaveAnsweredInv, ActAnsweredInv, FailedInv DEF Handlers
<1>5. CASE UNCHANGED vars
  BY <1>5 DEF vars, IInv, TypeOK, IdsMatch, SavesToLoaded, Shown, Targeted
<1> QED BY <1>1, <1>2, <1>3, <1>4, <1>5 DEF Next

(* Types: every page, load and handler is of its type whatever is clicked and lost.        *)
THEOREM TypeCorrect == Spec => []TypeOK
<1>1. IInv => TypeOK
  BY DEF IInv
<1> QED BY <1>1, InitInv, Invariance, PTL DEF Spec

(* IdsAgree: the page that can be edited and saved is the one of the address, however      *)
(* loads, saves that answer late and the navigation they cause interleave.                *)
THEOREM SavesGoToTheAddress == Spec => []IdsAgree
<1>1. IInv => IdsAgree
  BY Ids1 DEF IInv, IdsMatch, IdsAgree, Visible, LoadingDesign, Shown, SavesToLoaded, TypeOK, Page
<1> QED BY <1>1, InitInv, Invariance, PTL DEF Spec

--------------------------------------------------------------------------------
(* For somebody who waits for each answer.  While a handler is under way it is the only    *)
(* one, and nothing loads.                                                                *)
LEMMA Alone ==
  ASSUME IInv, Orderly, NEW k \in DOMAIN calls, ~Settled(calls[k])
  PROVE  /\ Underway(calls[k]) /\ load = None
         /\ \A j \in DOMAIN calls \ {k} : Settled(calls[j])
BY DEF Orderly, AllSettled

(* What a step of that handler has to leave. *)
LEMMA Proceeds ==
  ASSUME IInv, Orderly, NEW k \in DOMAIN calls, ~Settled(calls[k]),
         UNCHANGED load, Len(calls') = Len(calls), DOMAIN calls' = DOMAIN calls,
         \A j \in DOMAIN calls \ {k} : calls'[j] = calls[j],
         Settled(calls'[k]) \/ Underway(calls[k])', Settled(calls'[k]) => Idle', Synced',
         page'.savedId = None => ~page'.ansys, runs \subseteq runs',
         calls'[k].kind = "run" /\ calls'[k].stage \in {"acted", "done"}
           => <<calls'[k].target, calls'[k].design>> \in runs'
  PROVE  Orderly'
<1>1. load = None /\ k = Len(calls) /\ \A j \in DOMAIN calls \ {k} : Settled(calls[j])
  BY Alone DEF Orderly
<1>2. \A j \in DOMAIN calls' : ~Settled(calls'[j]) => j = Len(calls') /\ Underway(calls[j])'
  BY <1>1 DEF Settled
<1>3. AllSettled' => Idle'
  BY DEF AllSettled
<1>4. RunsKept'
  BY DEF RunsKept, Orderly
<1> QED BY <1>1, <1>2, <1>3, <1>4 DEF Orderly

(* And a step of the page with no handler under way. *)
LEMMA Resting ==
  ASSUME Orderly, AllSettled, UNCHANGED <<calls, runs>>, Idle', Synced',
         page'.savedId = None => ~page'.ansys,
         load' # None /\ load'.answer # None => server'[load'.id] = load'.answer
  PROVE  Orderly'
<1>1. \A j \in DOMAIN calls' : Settled(calls'[j])
  BY DEF AllSettled
<1>2. AllSettled' /\ RunsKept'
  BY <1>1 DEF AllSettled, RunsKept, Orderly
<1> QED BY <1>1, <1>2 DEF Orderly

(* The effect on the route keeps or clears what is saved. *)
LEMMA EffectKeeps ==
  ASSUME NEW p \in Page
  PROVE  LET q == EffectPage(p) IN
         /\ q.save = p.save /\ q.start = p.start
         /\ \/ q.savedId = None /\ ~q.ansys
            \/ /\ ~Fresh(p) /\ q.savedId = p.savedId /\ q.ansys = p.ansys
               /\ q.lastName = p.lastName
<1>1. CASE Fetches(p)
  <2>1. EffectPage(p) = [p EXCEPT !.loading = TRUE, !.loadError = FALSE] /\ ~Fresh(p)
    BY <1>1 DEF EffectPage, Fetches, Fresh
  <2> QED BY <2>1 DEF Page
<1>2. CASE ~Fetches(p) /\ Fresh(p)
  <2>1. EffectPage(p) = [Seed(p) EXCEPT !.loading = FALSE]
    BY <1>2 DEF EffectPage
  <2> DEFINE s == [p EXCEPT !.name = 0, !.lastName = 0]
  <2>2. DOMAIN s = DOMAIN p /\ s.save = p.save /\ s.start = p.start
    BY DEF Page
  <2>3. Seed(p) = [s EXCEPT !.savedId = None, !.ansys = FALSE, !.loadedId = New]
    BY DEF Seed
  <2> HIDE DEF s
  <2>4. /\ Seed(p).save = p.save /\ Seed(p).start = p.start /\ DOMAIN Seed(p) = DOMAIN p
        /\ Seed(p).savedId = None /\ Seed(p).ansys = FALSE
    BY <2>2, <2>3 DEF Page
  <2> QED BY <2>1, <2>4 DEF Page
<1>3. CASE ~Fetches(p) /\ ~Fresh(p)
  <2>1. EffectPage(p) = [p EXCEPT !.loading = FALSE]
    BY <1>3 DEF EffectPage
  <2> QED BY <1>3, <2>1 DEF Page
<1> QED BY <1>1, <1>2, <1>3

LEMMA LoadedCalm ==
  ASSUME IInv, Orderly, AllSettled, UNCHANGED <<server, calls, runs>>,
         NEW p \in Page, LoadEffect(p), p.save \in {"idle", "error"},
         p.start \in {"idle", "error"},
         \/ p.savedId = None /\ ~p.ansys
         \/ /\ p.savedId = page.savedId /\ p.ansys = page.ansys /\ p.lastName = page.lastName
            /\ p.save = page.save /\ p.start = page.start
  PROVE  Orderly'
<1> DEFINE q == EffectPage(p)
<1>1. /\ q.save = p.save /\ q.start = p.start
      /\ \/ q.savedId = None /\ ~q.ansys
         \/ /\ ~Fresh(p) /\ q.savedId = p.savedId /\ q.ansys = p.ansys
            /\ q.lastName = p.lastName
  BY EffectKeeps
<1>2. page' = q /\ (~Fresh(p) => store' = store)
  BY DEF LoadEffect
<1> HIDE DEF q
<1>3. Idle'
  BY <1>1, <1>2 DEF Idle
<1>4. load' = None \/ load'.answer = None
  BY DEF LoadEffect, EffectLoad
<1>5. Synced' /\ (page'.savedId = None => ~page'.ansys)
  BY <1>1, <1>2 DEF Synced, Orderly
<1> QED BY <1>3, <1>4, <1>5, Resting

LEMMA OpenCalm ==
  ASSUME IInv, Orderly, calm', NEW r \in Ids \cup {New, Away}, Open(r)
  PROVE  Orderly'
<1> USE Ids1
<1>1. AllSettled /\ UNCHANGED <<server, calls, runs>> /\ RouteTo(r) /\ page \in Page
  BY DEF Open, Quiet, AllSettled, IInv, TypeOK
<1>2. CASE r = Away
  <2>1. page' = [Unmounted EXCEPT !.mount = page.mount] /\ load' = None
    BY <1>1, <1>2 DEF RouteTo
  <2>2. /\ page'.save = "idle" /\ page'.start = "idle" /\ page'.savedId = None
        /\ page'.ansys = FALSE
    BY <2>1 DEF Unmounted
  <2> QED BY <1>1, <2>1, <2>2, Resting DEF Idle, Synced
<1>3. CASE r # Away
  <2> DEFINE p == At(page, r)
  <2>1. LoadEffect(p) /\ r \in Ids \cup {New}
    BY <1>1, <1>3 DEF RouteTo
  <2>2. p \in Page
    BY <1>1, <2>1, Arrival DEF IInv, IdsMatch
  <2>3. Idle
    BY <1>1 DEF Orderly
  <2>4. CASE page.route = Away
    <3>1. p = [Unmounted EXCEPT !.mount = page.mount + 1, !.route = r]
      BY <2>4 DEF At
    <3>2. p.save = "idle" /\ p.start = "idle" /\ p.savedId = None /\ p.ansys = FALSE
      BY <3>1 DEF Unmounted
    <3> HIDE DEF p
    <3> QED BY <1>1, <2>1, <2>2, <3>2, LoadedCalm
  <2>5. CASE page.route # Away
    <3>1. p = [page EXCEPT !.route = r]
      BY <2>5 DEF At
    <3>2. /\ p.savedId = page.savedId /\ p.ansys = page.ansys /\ p.lastName = page.lastName
          /\ p.save = page.save /\ p.start = page.start
      BY <1>1, <3>1 DEF Page
    <3> HIDE DEF p
    <3> QED BY <1>1, <2>1, <2>2, <2>3, <3>2, LoadedCalm DEF Idle
  <2> QED BY <2>4, <2>5
<1> QED BY <1>2, <1>3

LEMMA RetryLoadCalm == ASSUME IInv, Orderly, RetryLoad PROVE Orderly'
<1> USE Ids1
<1> DEFINE p == [page EXCEPT !.loadedId = None]
<1>1. LoadEffect(p) /\ UNCHANGED <<server, runs, calls>> /\ page.loadError /\ page \in Page
  BY DEF RetryLoad, RetryShown, LoadingDesign, IInv, TypeOK
<1>2. AllSettled /\ Idle
  BY <1>1 DEF Orderly, AllSettled, Underway
<1>3. /\ p \in Page /\ p.savedId = page.savedId /\ p.ansys = page.ansys
      /\ p.lastName = page.lastName /\ p.save = page.save /\ p.start = page.start
  BY <1>1 DEF Page
<1> HIDE DEF p
<1> QED BY <1>1, <1>2, <1>3, LoadedCalm DEF Idle

LEMMA GetDesignCalm == ASSUME IInv, Orderly, GetDesign PROVE Orderly'
<1>1. /\ load # None /\ UNCHANGED <<server, runs, store, page, calls>>
      /\ load' = [load EXCEPT !.given = TRUE, !.answer = server[load.id]]
  BY DEF GetDesign
<1>2. load'.id = load.id /\ load'.answer = server[load.id]
  BY <1>1 DEF IInv, TypeOK, Load
<1>3. AllSettled /\ Idle
  BY <1>1 DEF Orderly
<1>4. Idle' /\ Synced' /\ (page'.savedId = None => ~page'.ansys)
  BY <1>1, <1>3 DEF Idle, Synced, Orderly
<1> QED BY <1>1, <1>2, <1>3, <1>4, Resting

LEMMA LoadDoneCalm == ASSUME IInv, Orderly, LoadDone PROVE Orderly'
<1> USE Ids1
<1>1. /\ load # None /\ load.answer # None /\ load' = None /\ UNCHANGED <<server, runs, calls>>
      /\ page \in Page /\ load.id \in Ids
      /\ store' = [design |-> load.answer.design, dirty |-> FALSE]
  BY DEF LoadDone, IInv, TypeOK, Load
<1>2. AllSettled /\ Idle /\ server[load.id] = load.answer
  BY <1>1 DEF Orderly
<1> DEFINE p == [page EXCEPT !.name = load.answer.name, !.lastName = load.answer.name]
<1>3. /\ DOMAIN p = DOMAIN page /\ p.lastName = load.answer.name
      /\ p.save = page.save /\ p.start = page.start
  BY <1>1 DEF Page
<1>4. page' = [p EXCEPT !.savedId = load.id, !.ansys = load.answer.ansys,
                        !.loadedId = load.id, !.loading = FALSE]
  BY DEF LoadDone
<1> HIDE DEF p
<1>5. /\ page'.lastName = load.answer.name /\ page'.save = page.save
      /\ page'.start = page.start /\ page'.savedId = load.id /\ page'.ansys = load.answer.ansys
  BY <1>1, <1>3, <1>4 DEF Page
<1>6. Synced' /\ Idle' /\ page'.savedId # None
  BY <1>1, <1>2, <1>5 DEF Synced, Idle
<1> QED BY <1>1, <1>2, <1>6, Resting

LEMMA LoadFailedCalm == ASSUME IInv, Orderly, LoadFailed PROVE Orderly'
<1>1. /\ load # None /\ load' = None /\ UNCHANGED <<server, runs, store, calls>>
      /\ page \in Page /\ page' = [page EXCEPT !.loadError = TRUE, !.loading = FALSE]
  BY DEF LoadFailed, IInv, TypeOK
<1>2. AllSettled /\ Idle
  BY <1>1 DEF Orderly
<1>3. /\ page'.lastName = page.lastName /\ page'.save = page.save /\ page'.start = page.start
      /\ page'.savedId = page.savedId /\ page'.ansys = page.ansys
  BY <1>1 DEF Page
<1>4. Idle' /\ Synced' /\ (page'.savedId = None => ~page'.ansys)
  BY <1>1, <1>2, <1>3 DEF Idle, Synced, Orderly
<1> QED BY <1>1, <1>2, <1>4, Resting

LEMMA DeleteCalm ==
  ASSUME IInv, Orderly, calm', NEW id \in Ids, Delete(id)
  PROVE  Orderly'
<1>1. /\ AllSettled /\ load = None /\ page.route = Away
      /\ UNCHANGED <<runs, store, page, load, calls>>
  BY DEF Delete, Quiet, AllSettled
<1>2. Idle
  BY <1>1 DEF Orderly
<1>3. Idle' /\ Synced' /\ (page'.savedId = None => ~page'.ansys)
  BY <1>1, <1>2 DEF Idle, Synced, Orderly, IInv, IdsMatch
<1> QED BY <1>1, <1>3, Resting

(* Typing goes on beside a handler: what it has captured stays as it was. *)
LEMMA EditCalm ==
  ASSUME IInv, Orderly, UNCHANGED <<server, runs, load, calls>>,
         SameDesign(page'), page'.lastName = page.lastName, page'.ansys = page.ansys,
         page'.save = page.save, page'.start = page.start, store'.dirty \/ UNCHANGED store
  PROVE  Orderly'
<1>1. \A k \in DOMAIN calls : Underway(calls[k]) => Underway(calls[k])'
  BY DEF Underway, AtSave, AtAct, SameDesign
<1>2. \A k \in DOMAIN calls' :
        ~Settled(calls'[k]) => k = Len(calls') /\ Underway(calls[k])'
  BY <1>1 DEF Orderly
<1>3. (AllSettled => Idle)' /\ Synced' /\ (page'.savedId = None => ~page'.ansys) /\ RunsKept'
  BY DEF Orderly, AllSettled, Idle, Synced, SameDesign, RunsKept
<1>4. load' # None => AllSettled' /\ (load'.answer # None => server'[load'.id] = load'.answer)
  BY DEF Orderly, AllSettled
<1> QED BY <1>2, <1>3, <1>4 DEF Orderly

LEMMA EditsCalm ==
  ASSUME IInv, Orderly, Edit \/ (\E name \in 0..MaxEdits : Rename(name))
  PROVE  Orderly'
<1>1. UNCHANGED <<server, runs, load, calls>> /\ page \in Page
  BY DEF Edit, Rename, IInv, TypeOK
<1>2. CASE Edit
  <2>1. page' = page /\ store'.dirty
    BY <1>2 DEF Edit
  <2>2. SameDesign(page')
    BY <1>1, <2>1 DEF SameDesign
  <2> QED BY <1>1, <2>1, <2>2, EditCalm
<1>3. ASSUME NEW name \in 0..MaxEdits, Rename(name) PROVE Orderly'
  <2>1. page' = [page EXCEPT !.name = name] /\ store' = store
    BY <1>3 DEF Rename
  <2>2. SameDesign(page')
    BY <1>1, <2>1 DEF SameDesign, Page
  <2>3. /\ page'.lastName = page.lastName /\ page'.ansys = page.ansys
        /\ page'.save = page.save /\ page'.start = page.start
    BY <1>1, <2>1 DEF Page
  <2> QED BY <1>1, <2>1, <2>2, <2>3, EditCalm
<1> QED BY <1>2, <1>3

LEMMA ClickCalm == ASSUME IInv, Orderly, calm', Clicks PROVE Orderly'
<1> USE Ids1
<1>1. PICK kind \in {"save", "run", "start", "cancel"}, stage \in {"saving", "acting"} :
        /\ Click(kind, stage, page') /\ SameDesign(page') /\ page'.ansys = page.ansys
        /\ page'.name = page.name /\ page'.lastName = page.lastName
        /\ stage = "acting" => kind # "save" /\ page.savedId # None /\ page'.save = page.save
        /\ stage = "saving" => kind # "cancel" /\ page'.save = "saving"
        /\ stage = "acting" /\ kind # "cancel" => ~Unsaved
        /\ kind \in {"save", "run"} => page'.start = page.start
        /\ kind = "start" => page'.start = "starting" /\ ~page.ansys
        /\ kind = "cancel" => page'.start = "cancelling"
  BY ClickShape
<1> DEFINE c == Clicked(kind, stage)
<1> PICK n \in Nat : n = Len(calls')
  BY <1>1, ClickCall
<1>2. /\ DOMAIN calls' = DOMAIN calls \cup {n} /\ calls'[n] = c
      /\ \A k \in DOMAIN calls : calls'[k] = calls[k]
  BY <1>1, ClickCall
<1>3. /\ c.kind = kind /\ c.stage = stage /\ c.mount = page.mount /\ c.savedId = page.savedId
      /\ c.design = store.design /\ c.target = page.savedId
  BY DEF Clicked
<1> HIDE DEF c
<1>4. /\ load = None /\ UNCHANGED <<server, runs, store, load>> /\ Visible
      /\ \A k \in DOMAIN calls : Settled(calls[k])
  BY <1>1 DEF Click, Quiet
<1>5. Idle
  BY <1>4 DEF Orderly, AllSettled
<1>6. ~Settled(c)
  BY <1>3 DEF Settled
<1>7. page.savedId \in Ids \cup {None}
  BY PageFields DEF IInv, TypeOK
<1>8. stage = "saving" => AtSave(calls[n])'
  BY <1>1, <1>2, <1>3, <1>4 DEF AtSave, SameDesign
<1>9. stage = "acting" => AtAct(calls[n])'
  <2>1. stage = "acting" /\ kind = "run" => server[page.savedId].design = store.design
    BY <1>1 DEF Orderly, Synced, Unsaved
  <2> QED BY <1>1, <1>2, <1>3, <1>4, <1>5, <1>7, <2>1 DEF AtAct, SameDesign, Idle
<1>10. Underway(calls[n])'
  BY <1>1, <1>2, <1>3, <1>4, <1>5, <1>8, <1>9 DEF Underway, Visible, LoadingDesign, SameDesign, Idle
<1>11. \A k \in DOMAIN calls' : ~Settled(calls'[k]) => k = n /\ Underway(calls[k])'
  BY <1>2, <1>4, <1>10
<1>12. ~AllSettled'
  BY <1>2, <1>6 DEF AllSettled
<1>13. Synced' /\ (page'.savedId = None => ~page'.ansys)
  BY <1>1, <1>4 DEF Synced, Orderly, SameDesign
<1>14. RunsKept'
  BY <1>2, <1>3, <1>4 DEF RunsKept, Orderly
<1> QED BY <1>4, <1>11, <1>12, <1>13, <1>14 DEF Orderly

(* The server's and the network's part. *)
LEMMA TakeSaveCalm == ASSUME IInv, Orderly, NEW k \in DOMAIN calls, TakeSave(k) PROVE Orderly'
<1> USE Ids1
<1> DEFINE c == calls[k]
<1>1. c.stage = "saving" /\ UNCHANGED <<runs, store, page, load>>
  BY DEF TakeSave
<1>2. ~Settled(c)
  BY <1>1 DEF Settled
<1>3. Underway(c) /\ AtSave(c)
  BY <1>1, <1>2, Alone DEF Underway
<1>4. calls \in Seq(Call) /\ c \in Call /\ c.savedId \in Ids \cup {None} /\ k \in 1..MaxClicks
  BY CallFields, SessionAssumption DEF IInv, TypeOK
<1>5. CASE Goes(k, "saveFailed") /\ UNCHANGED server
  <2>1. /\ Len(calls') = Len(calls) /\ DOMAIN calls' = DOMAIN calls
        /\ calls'[k] = [c EXCEPT !.stage = "saveFailed"]
        /\ \A j \in DOMAIN calls \ {k} : calls'[j] = calls[j]
    BY <1>4, <1>5, Going DEF Stages
  <2>2. /\ calls'[k].stage = "saveFailed" /\ calls'[k].savedId = c.savedId
        /\ calls'[k].design = c.design /\ calls'[k].kind = c.kind /\ calls'[k].mount = c.mount
    BY <1>4, <2>1 DEF Call
  <2>3. Underway(calls[k])'
    BY <1>1, <1>3, <2>2 DEF Underway, AtSave
  <2>4. Synced' /\ (page'.savedId = None => ~page'.ansys)
    BY <1>1, <1>5 DEF Synced, Orderly
  <2> QED BY <1>1, <1>2, <2>1, <2>2, <2>3, <2>4, Proceeds DEF Settled
<1>6. CASE ~(Goes(k, "saveFailed") /\ UNCHANGED server)
  <2> DEFINE id == IF c.savedId = None THEN k ELSE c.savedId
             ansys == IF c.savedId = None THEN FALSE ELSE server[id].ansys
             d == [name |-> c.name, design |-> c.design, ansys |-> ansys]
  <2>1. /\ server' = [server EXCEPT ![id] = d]
        /\ calls' = [calls EXCEPT ![k].stage = "saved", ![k].target = id]
        /\ c.savedId # None => server[c.savedId] # None
    BY <1>6 DEF TakeSave
  <2>2. id \in Ids /\ c.savedId \in {None, id}
    BY <1>4 DEF Ids
  <2>3. d # None /\ server'[id] = d
    <3>1. server' \in [Ids -> Design \cup {None}] /\ server'[id] = d
      BY <2>1, <2>2, TakeSaveInv DEF IInv, TypeOK
    <3>2. c.name \in 0..MaxEdits /\ c.design \in 0..MaxEdits /\ ansys \in BOOLEAN
      <4>1. c.savedId # None => server[c.savedId] \in Design
        BY <1>4, <2>1 DEF IInv, TypeOK
      <4>2. c.savedId # None => server[c.savedId].ansys \in BOOLEAN
        BY <4>1 DEF Design
      <4> QED BY <1>4, <4>2, CallFields
    <3> HIDE DEF ansys
    <3>3. d \in Design
      BY <3>2 DEF Design
    <3> QED BY <3>1, <3>3, SessionAssumption
  <2>4. d.name = c.name /\ d.design = c.design /\ d.ansys = ansys
    OBVIOUS
  <2> DEFINE e == [c EXCEPT !.stage = "saved", !.target = id]
  <2>5. /\ e \in Call /\ e.target = id /\ e.stage = "saved" /\ e.kind = c.kind
        /\ e.mount = c.mount /\ e.savedId = c.savedId /\ e.name = c.name /\ e.design = c.design
    BY <1>4, <2>2 DEF Call
  <2>6. calls' = [calls EXCEPT ![k] = e]
    BY <2>1, <1>4
  <2> HIDE DEF e
  <2>7. /\ Len(calls') = Len(calls) /\ DOMAIN calls' = DOMAIN calls
        /\ calls'[k] = e /\ \A j \in DOMAIN calls \ {k} : calls'[j] = calls[j]
    BY <1>4, <2>5, <2>6, Replaced
  <2>8. Synced' /\ (page'.savedId = None => ~page'.ansys)
    <3>1. c.savedId # None =>
            page.savedId = id /\ (page.ansys /\ page.start = "idle" => ansys)
      BY <1>3 DEF AtSave, Synced, Orderly
    <3> HIDE DEF ansys, d, id
    <3> QED BY <1>1, <1>3, <2>2, <2>3, <2>4, <3>1 DEF AtSave, Synced, Orderly
  <2> HIDE DEF d, id
  <2>9. Underway(calls[k])'
    BY <1>1, <1>3, <2>2, <2>3, <2>4, <2>5, <2>7 DEF Underway, AtSave
  <2> QED BY <1>1, <1>2, <2>5, <2>7, <2>8, <2>9, Proceeds DEF Settled
<1> QED BY <1>5, <1>6

LEMMA LoseCalm == ASSUME IInv, Orderly, NEW k \in DOMAIN calls, Lose(k) PROVE Orderly'
<1> DEFINE c == calls[k]
<1>1. /\ UNCHANGED <<server, runs, store, page, load>>
      /\ \/ c.stage \in {"saving", "saved"} /\ Goes(k, "saveFailed")
         \/ c.stage \in {"acting", "acted"} /\ Goes(k, "actFailed")
  BY DEF Lose
<1>2. PICK s \in {"saveFailed", "actFailed"} : Goes(k, s)
  BY <1>1
<1>3. calls \in Seq(Call) /\ c \in Call
  BY CallFields DEF IInv, TypeOK
<1>4. /\ Len(calls') = Len(calls) /\ DOMAIN calls' = DOMAIN calls
      /\ calls'[k] = [c EXCEPT !.stage = s]
      /\ \A j \in DOMAIN calls \ {k} : calls'[j] = calls[j]
  BY <1>2, <1>3, Going DEF Stages
<1>5. /\ calls'[k].stage = s /\ calls'[k].savedId = c.savedId /\ calls'[k].target = c.target
      /\ calls'[k].design = c.design /\ calls'[k].kind = c.kind /\ calls'[k].mount = c.mount
  BY <1>3, <1>4 DEF Call
<1>6. \/ c.stage \in {"saving", "saved"} /\ s = "saveFailed"
      \/ c.stage \in {"acting", "acted"} /\ s = "actFailed"
  <2>1. ASSUME NEW t \in {"saveFailed", "actFailed"}, Goes(k, t) PROVE t = s
    <3>1. calls'[k] = [c EXCEPT !.stage = t]
      BY <1>3, <2>1, Going DEF Stages
    <3> QED BY <1>3, <1>5, <3>1 DEF Call
  <2> QED BY <1>1, <2>1
<1>7. ~Settled(c) /\ ~Settled(calls'[k])
  BY <1>5, <1>6 DEF Settled
<1>8. Underway(calls[k])'
  BY <1>1, <1>5, <1>6, <1>7, Alone DEF Underway, AtSave, AtAct
<1>9. Synced' /\ (page'.savedId = None => ~page'.ansys)
  BY <1>1 DEF Synced, Orderly
<1> QED BY <1>1, <1>4, <1>5, <1>7, <1>8, <1>9, Proceeds

LEMMA TakeActCalm == ASSUME IInv, Orderly, NEW k \in DOMAIN calls, TakeAct(k) PROVE Orderly'
<1> USE Ids1
<1> DEFINE c == calls[k]
<1>1. c.stage = "acting" /\ UNCHANGED <<store, page, load>>
  BY DEF TakeAct
<1>2. ~Settled(c)
  BY <1>1 DEF Settled
<1>3. Underway(c) /\ AtAct(c) /\ c.target \in Ids
  BY <1>1, <1>2, Alone DEF Underway, AtAct
<1>4. calls \in Seq(Call) /\ c \in Call /\ c.kind \in {"run", "start", "cancel"}
  BY <1>3, CallFields DEF IInv, TypeOK, AtAct
<1>5. server[c.target] # None /\ server[c.target] \in Design
  BY <1>3 DEF Orderly, Synced, AtAct, IInv, TypeOK
<1>6. Goes(k, "acted")
  BY <1>5 DEF TakeAct
<1>7. /\ Len(calls') = Len(calls) /\ DOMAIN calls' = DOMAIN calls
      /\ calls'[k] = [c EXCEPT !.stage = "acted"]
      /\ \A j \in DOMAIN calls \ {k} : calls'[j] = calls[j]
  BY <1>4, <1>6, Going DEF Stages
<1>8. /\ calls'[k].stage = "acted" /\ calls'[k].target = c.target
      /\ calls'[k].design = c.design /\ calls'[k].kind = c.kind /\ calls'[k].mount = c.mount
  BY <1>4, <1>7 DEF Call
<1>9. CASE c.kind = "run"
  <2>1. server' = server /\ runs' = runs \cup {<<c.target, server[c.target].design>>}
    BY <1>5, <1>9 DEF TakeAct
  <2>2. server[c.target].design = c.design
    BY <1>1, <1>3, <1>9 DEF AtAct
  <2>3. Underway(calls[k])'
    BY <1>1, <1>3, <1>8, <1>9 DEF Underway, AtAct
  <2>4. Synced' /\ (page'.savedId = None => ~page'.ansys)
    BY <1>1, <2>1 DEF Synced, Orderly
  <2> QED BY <1>1, <1>2, <1>7, <1>8, <2>1, <2>2, <2>3, <2>4, Proceeds DEF Settled
<1>10. CASE c.kind # "run"
  <2> DEFINE on == c.kind = "start"
             d == [server[c.target] EXCEPT !.ansys = on]
  <2>1. runs' = runs /\ server' = [server EXCEPT ![c.target] = d]
    BY <1>5, <1>10 DEF TakeAct
  <2>2. /\ d \in Design /\ d.name = server[c.target].name
        /\ d.design = server[c.target].design /\ d.ansys = on
    BY <1>5 DEF Design
  <2> HIDE DEF d
  <2>3. server'[c.target] = d /\ d # None
    BY <1>3, <2>1, <2>2, SessionAssumption DEF IInv, TypeOK
  <2>4. Underway(calls[k])'
    BY <1>1, <1>3, <1>8, <1>10, <2>2, <2>3 DEF Underway, AtAct
  <2>5. on \/ page.start # "idle"
    BY <1>3, <1>4, <1>10 DEF Underway
  <2>6. Synced' /\ (page'.savedId = None => ~page'.ansys)
    BY <1>1, <1>3, <2>2, <2>3, <2>5 DEF Synced, Orderly, AtAct
  <2> QED BY <1>1, <1>2, <1>7, <1>8, <1>10, <2>1, <2>4, <2>6, Proceeds DEF Settled
<1> QED BY <1>9, <1>10

LEMMA ActAnsweredCalm ==
  ASSUME IInv, Orderly, NEW k \in DOMAIN calls, ActAnswered(k)
  PROVE  Orderly'
<1> USE Ids1
<1> DEFINE c == calls[k]
<1>1. c.stage = "acted" /\ Goes(k, "done") /\ UNCHANGED <<server, runs, store, load>>
  BY DEF ActAnswered
<1>2. ~Settled(c)
  BY <1>1 DEF Settled
<1>3. Underway(c) /\ AtAct(c) /\ Mounted(c) /\ page.savedId # None
  BY <1>1, <1>2, Alone DEF Underway, AtAct, Mounted
<1>4. /\ calls \in Seq(Call) /\ c \in Call /\ c.kind \in {"run", "start", "cancel"}
      /\ page \in Page /\ page.save \in {"idle", "error"}
  BY <1>3, CallFields, PageFields DEF IInv, TypeOK, AtAct
<1>5. /\ Len(calls') = Len(calls) /\ DOMAIN calls' = DOMAIN calls
      /\ calls'[k] = [c EXCEPT !.stage = "done"]
      /\ \A j \in DOMAIN calls \ {k} : calls'[j] = calls[j]
  BY <1>1, <1>4, Going DEF Stages
<1>6. /\ calls'[k].stage = "done" /\ calls'[k].target = c.target
      /\ calls'[k].design = c.design /\ calls'[k].kind = c.kind
  BY <1>4, <1>5 DEF Call
<1>7. c.kind = "run" => <<c.target, c.design>> \in runs
  BY <1>1 DEF Orderly, RunsKept
<1>8. Idle' /\ Synced' /\ page'.savedId # None
  <2>1. CASE c.kind = "run"
    <3>1. page' = [page EXCEPT !.run = "done"]
      BY <1>3, <2>1 DEF ActAnswered
    <3>2. /\ page'.savedId = page.savedId /\ page'.lastName = page.lastName
          /\ page'.save = page.save /\ page'.start = page.start /\ page'.ansys = page.ansys
      BY <1>4, <3>1 DEF Page
    <3> QED BY <1>1, <1>3, <1>4, <2>1, <3>2 DEF Idle, Synced, Orderly, Underway
  <2>2. CASE c.kind # "run"
    <3> DEFINE on == c.kind = "start"
    <3>1. page' = [page EXCEPT !.ansys = on, !.start = "idle"]
      BY <1>3, <2>2 DEF ActAnswered
    <3>2. on => server[page.savedId].ansys
      BY <1>1, <1>3 DEF AtAct
    <3> HIDE DEF on
    <3>3. /\ page'.savedId = page.savedId /\ page'.lastName = page.lastName
          /\ page'.save = page.save /\ page'.start = "idle" /\ page'.ansys = on
      BY <1>4, <3>1 DEF Page
    <3> QED BY <1>1, <1>3, <1>4, <3>2, <3>3 DEF Idle, Synced, Orderly
  <2> QED BY <2>1, <2>2
<1> QED BY <1>1, <1>2, <1>5, <1>6, <1>7, <1>8, Proceeds DEF Settled

LEMMA FailedCalm == ASSUME IInv, Orderly, NEW k \in DOMAIN calls, Failed(k) PROVE Orderly'
<1> DEFINE c == calls[k]
<1>1. /\ c.stage \in {"saveFailed", "actFailed"} /\ Goes(k, "failed")
      /\ UNCHANGED <<server, runs, store, load>>
  BY DEF Failed
<1>2. ~Settled(c)
  BY <1>1 DEF Settled
<1>3. /\ Underway(c) /\ Mounted(c)
      /\ c.stage = "actFailed" => page.save # "saving"
  BY <1>1, <1>2, Alone DEF Underway, AtAct, Mounted
<1>4. calls \in Seq(Call) /\ c \in Call /\ c.kind \in {"save", "run", "start", "cancel"}
  BY CallFields DEF IInv, TypeOK
<1>5. page.save \in {"idle", "saving", "error"}
  BY PageFields DEF IInv, TypeOK
<1>6. /\ Len(calls') = Len(calls) /\ DOMAIN calls' = DOMAIN calls
      /\ calls'[k] = [c EXCEPT !.stage = "failed"]
      /\ \A j \in DOMAIN calls \ {k} : calls'[j] = calls[j]
  BY <1>1, <1>4, Going DEF Stages
<1>7. calls'[k].stage = "failed"
  BY <1>4, <1>6 DEF Call
<1>8. /\ SameDesign(page') /\ page'.ansys = page.ansys /\ page'.lastName = page.lastName
      /\ page'.save = IF c.stage = "saveFailed" THEN "error" ELSE page.save
      /\ page'.start = IF c.kind \in {"save", "run"} THEN page.start ELSE "error"
  BY <1>3, FailedPage
<1>9. Idle'
  BY <1>1, <1>3, <1>5, <1>8 DEF Idle, Underway
<1>10. Synced' /\ (page'.savedId = None => ~page'.ansys)
  BY <1>1, <1>8 DEF Synced, Orderly, SameDesign
<1> QED BY <1>1, <1>2, <1>6, <1>7, <1>9, <1>10, Proceeds DEF Settled

(* The save's answer finds its page, and of a new design turns it to its address. *)
LEMMA SaveAnsweredPage ==
  ASSUME IInv, Orderly, NEW k \in DOMAIN calls, SaveAnswered(k)
  PROVE  LET c == calls[k] IN
         /\ load' = None /\ page'.route # Away /\ page'.mount = page.mount
         /\ ~page'.loading /\ ~page'.loadError
         /\ page'.savedId = c.target /\ page'.lastName = c.name /\ page'.save = "idle"
         /\ page'.ansys = page.ansys /\ page'.start = page.start
<1> USE Ids1
<1> DEFINE c == calls[k]
           done == [page EXCEPT !.name = c.name, !.lastName = c.name, !.save = "idle"]
<1>1. c.stage = "saved"
  BY DEF SaveAnswered
<1>2. load = None /\ Underway(c) /\ AtSave(c) /\ Mounted(c) /\ c.target \in Ids
  BY <1>1, Alone DEF Underway, Mounted, Settled, IInv, Targeted
<1>3. /\ SameDesign(done) /\ done \in Page /\ done.ansys = page.ansys
      /\ done.start = page.start /\ done.lastName = c.name /\ done.save = "idle"
  BY <1>1, AnsweredPage DEF SameDesign
<1>4. CASE c.savedId # None
  <2>1. page' = done /\ load' = load
    BY <1>2, <1>4 DEF SaveAnswered
  <2>2. c.savedId = c.target /\ page.savedId = c.savedId
    BY <1>1, <1>2, <1>4 DEF AtSave
  <2> QED BY <1>2, <1>3, <2>1, <2>2 DEF SameDesign, Underway
<1>5. CASE c.savedId = None
  <2> DEFINE own == [done EXCEPT !.loadedId = c.target, !.savedId = c.target]
             p == At(own, c.target)
  <2>1. page.savedId = None /\ page.route \in Ids \cup {New}
    BY <1>2, <1>5, PageFields DEF AtSave, Underway, IInv, TypeOK
  <2>2. page.route # c.target
    BY <1>2, <2>1 DEF IInv, IdsMatch, SavesToLoaded, Shown, Underway
  <2>3. page' = EffectPage(p) /\ load' = EffectLoad(p)
    BY <1>2, <1>5, <2>2 DEF SaveAnswered
  <2> HIDE DEF done
  <2>4. /\ own \in Page /\ own.route = page.route /\ own.mount = page.mount
        /\ own.loading = page.loading /\ own.loadError = page.loadError
        /\ own.savedId = c.target /\ own.loadedId = c.target
        /\ own.ansys = done.ansys /\ own.start = done.start
        /\ own.lastName = done.lastName /\ own.save = done.save
    BY <1>2, <1>3 DEF SameDesign, Page
  <2> HIDE DEF own
  <2>5. p = [own EXCEPT !.route = c.target]
    BY <2>1, <2>4 DEF At
  <2>6. /\ p \in Page /\ p.route = c.target /\ p.mount = page.mount
        /\ p.loadError = page.loadError
        /\ p.savedId = c.target /\ p.loadedId = c.target
        /\ p.ansys = done.ansys /\ p.start = done.start
        /\ p.lastName = done.lastName /\ p.save = done.save
    BY <1>2, <2>4, <2>5 DEF Page
  <2> HIDE DEF p
  <2>7. ~Fetches(p) /\ ~Fresh(p)
    BY <1>2, <2>6 DEF Fetches, Fresh
  <2>8. page' = [p EXCEPT !.loading = FALSE] /\ load' = None
    BY <2>3, <2>7 DEF EffectPage, EffectLoad
  <2> QED BY <1>2, <1>3, <2>6, <2>8 DEF Page, Underway
<1> QED BY <1>4, <1>5

LEMMA SaveAnsweredCalm ==
  ASSUME IInv, Orderly, NEW k \in DOMAIN calls, SaveAnswered(k)
  PROVE  Orderly'
<1> USE Ids1
<1> DEFINE c == calls[k]
           s == IF c.kind = "save" THEN "done" ELSE "acting"
<1>1. /\ c.stage = "saved" /\ Goes(k, s) /\ UNCHANGED <<server, runs>>
      /\ store' = [design |-> c.design, dirty |-> FALSE]
  BY DEF SaveAnswered
<1>2. ~Settled(c)
  BY <1>1 DEF Settled
<1>3. load = None /\ Underway(c) /\ AtSave(c) /\ c.target \in Ids
  BY <1>1, <1>2, Alone DEF Underway, IInv, Targeted
<1>4. calls \in Seq(Call) /\ c \in Call /\ c.kind \in {"save", "run", "start"}
  BY <1>3, CallFields DEF IInv, TypeOK, AtSave
<1>5. /\ Len(calls') = Len(calls) /\ DOMAIN calls' = DOMAIN calls
      /\ calls'[k] = [c EXCEPT !.stage = s]
      /\ \A j \in DOMAIN calls \ {k} : calls'[j] = calls[j]
  BY <1>1, <1>4, Going DEF Stages
<1>6. /\ calls'[k].stage = s /\ calls'[k].target = c.target
      /\ calls'[k].design = c.design /\ calls'[k].kind = c.kind /\ calls'[k].mount = c.mount
  BY <1>4, <1>5 DEF Call
<1>7. /\ load' = None /\ page'.route # Away /\ page'.mount = page.mount
      /\ ~page'.loading /\ ~page'.loadError
      /\ page'.savedId = c.target /\ page'.lastName = c.name /\ page'.save = "idle"
      /\ page'.ansys = page.ansys /\ page'.start = page.start
  BY SaveAnsweredPage
<1>8. /\ server[c.target] # None /\ server[c.target].name = c.name
      /\ server[c.target].design = c.design /\ c.savedId \in {None, c.target}
      /\ page.savedId = c.savedId
  BY <1>1, <1>3 DEF AtSave
<1>9. Synced' /\ page'.savedId # None
  <2>1. page.ansys /\ page.start = "idle" => server[c.target].ansys
    BY <1>3, <1>8 DEF Synced, Orderly
  <2> QED BY <1>1, <1>3, <1>7, <1>8, <2>1 DEF Synced
<1>10. CASE c.kind = "save"
  <2>1. Settled(calls'[k]) /\ Idle'
    BY <1>3, <1>6, <1>7, <1>10 DEF Settled, Idle, Underway
  <2> QED BY <1>1, <1>2, <1>3, <1>5, <1>6, <1>7, <1>9, <1>10, <2>1, Proceeds
<1>11. CASE c.kind # "save"
  <2>1. s = "acting" /\ ~Settled(calls'[k])
    BY <1>6, <1>11 DEF Settled
  <2>2. Underway(calls[k])'
    BY <1>1, <1>3, <1>4, <1>6, <1>7, <1>8, <2>1 DEF Underway, AtAct
  <2> QED BY <1>1, <1>2, <1>3, <1>5, <1>6, <1>7, <1>9, <2>1, <2>2, Proceeds
<1> QED BY <1>10, <1>11

LEMMA InitCalm == Init => CalmInv
<1> SUFFICES ASSUME Init PROVE Orderly
  BY DEF CalmInv
<1>1. calls = <<>> /\ load = None /\ page = Unmounted
  BY DEF Init
<1>2. page.save = "idle" /\ page.start = "idle" /\ page.savedId = None /\ page.ansys = FALSE
  BY <1>1 DEF Unmounted
<1> QED BY <1>1, <1>2 DEF Orderly, AllSettled, Idle, Synced, RunsKept

LEMMA CalmInvariance == IInv /\ CalmInv /\ [Next]_vars => CalmInv'
<1> SUFFICES ASSUME IInv, CalmInv, [Next]_vars, calm' PROVE Orderly'
  BY DEF CalmInv
<1>1. calm
  BY DEF Next, Person, Server, Network, Handlers, Edit, Rename, ClickSave, ClickRun, ClickStart,
         ClickCancel, Click, RetryLoad, Open, Delete, GetDesign, TakeSave, TakeAct, LoadFailed,
         Lose, LoadDone, SaveAnswered, ActAnswered, Failed, vars
<1>2. Orderly
  BY <1>1 DEF CalmInv
<1>3. CASE Person
  BY <1>2, <1>3, EditsCalm, ClickCalm, RetryLoadCalm, OpenCalm, DeleteCalm DEF Person, Clicks
<1>4. CASE Server
  BY <1>2, <1>4, GetDesignCalm, TakeSaveCalm, TakeActCalm DEF Server
<1>5. CASE Network
  BY <1>2, <1>5, LoadFailedCalm, LoseCalm DEF Network
<1>6. CASE Handlers
  BY <1>2, <1>6, LoadDoneCalm, SaveAnsweredCalm, ActAnsweredCalm, FailedCalm DEF Handlers
<1>7. CASE UNCHANGED vars
  BY <1>2, <1>7 DEF vars, Orderly, AllSettled, Idle, Synced, Underway, AtSave, AtAct, RunsKept
<1> QED BY <1>3, <1>4, <1>5, <1>6, <1>7 DEF Next

(* SavedMeansStored: the label "Saved", and a running timer, say what the server has, to    *)
(* whoever waits for each answer, also when requests and answers were lost.               *)
THEOREM SavedIsTrue == Spec => []SavedMeansStored
<1>1. IInv /\ CalmInv => SavedMeansStored
  <2> SUFFICES ASSUME IInv, CalmInv, calm, Quiet, Visible, page.savedId # None
               PROVE  LET d == server[page.savedId] IN
                      /\ d # None
                      /\ ~Unsaved => d.design = store.design
                                     /\ (page.save # "error" => d.name = page.name)
                      /\ page.ansys /\ page.start # "error" => d.ansys
    BY DEF SavedMeansStored
  <2>1. Synced /\ Idle
    BY DEF CalmInv, Orderly, Quiet, AllSettled
  <2> QED BY <2>1 DEF Synced, Idle, Unsaved
<1> QED BY <1>1, InitInv, Invariance, InitCalm, CalmInvariance, PTL DEF Spec

(* RunsWhatWasShown: a run reported saved is of the design shown at the click.             *)
THEOREM RunsTheDesignShown == Spec => []RunsWhatWasShown
<1>1. CalmInv => RunsWhatWasShown
  BY DEF CalmInv, Orderly, RunsKept, RunsWhatWasShown
<1> QED BY <1>1, InitInv, Invariance, InitCalm, CalmInvariance, PTL DEF Spec
--------------------------------------------------------------------------------
(* The classic client.  A design has all the fields, the switch is one. *)
IsDesign(d) == d = [f \in DOMAIN Defaults |-> d[f]] /\ d["nightShutters"] \in BOOLEAN

(* Nothing is open before the options are here; a body in flight belongs to a run. *)
ClassicShape ==
  /\ stored \in {Nothing, Unreadable} \/ IsDesign(stored)
  /\ IF options = "ready" THEN IsDesign(design)
     ELSE /\ design = Nothing /\ view = "wizard" /\ wizardStep = 1 /\ step = 1
          /\ ~running /\ post = Nothing
  /\ step \in 1..Review
  /\ post # Nothing => running /\ post = [input |-> post.input, answer |-> post.answer]

(* To who skips nothing: the steps before the open one hold what their Next asked, all of   *)
(* them do as long as a run or its results are shown, and what was posted is the design.    *)
StepsWalked ==
  ~skipped =>
    /\ options = "ready" =>
         \A s \in 1..(Review - 1) : s < step \/ running \/ view = "results" => StepValid(s, design)
    /\ post # Nothing => post.input = design /\ post.answer # "VALIDATION_ERROR"

ClassicInv == ClassicShape /\ StepsWalked

LEMMA ReviewIsLast == Review = 4 /\ Steps[1] = Location /\ Steps[2] = Shelter
                      /\ Steps[3] = Envelope /\ Steps[4] = {}
BY DEF Review, Steps

LEMMA FieldsOfDesign ==
  DOMAIN Defaults = {"locationId", "date", "presetId", "lengthM", "widthM", "heightM",
                     "wallMaterialId", "roofMaterialId", "floorMaterialId", "wwrS", "wwrE",
                     "wwrW", "wwrN", "glazingId", "nightShutters", "occupancyPresetId"}
BY DEF Defaults

(* Each field belongs to one step. *)
LEMMA StepsPartition ==
  /\ \A f \in DOMAIN Defaults : \E s \in 1..3 : f \in Steps[s]
  /\ \A s \in 1..4 : Steps[s] \subseteq DOMAIN Defaults
  /\ \A s, t \in 1..4 : s # t => Steps[s] \cap Steps[t] = {}
<1> USE ReviewIsLast, FieldsOfDesign DEF Location, Shelter, Envelope, Lengths, Shares, MaterialFields
<1>1. \A f \in DOMAIN Defaults : f \in Steps[1] \/ f \in Steps[2] \/ f \in Steps[3]
  OBVIOUS
<1>2. \A s \in 1..4 : Steps[s] \subseteq DOMAIN Defaults
  <2>1. /\ Steps[1] \subseteq DOMAIN Defaults /\ Steps[2] \subseteq DOMAIN Defaults
        /\ Steps[3] \subseteq DOMAIN Defaults /\ Steps[4] \subseteq DOMAIN Defaults
    OBVIOUS
  <2> QED BY <2>1
<1>3. \A s, t \in 1..4 : s # t => Steps[s] \cap Steps[t] = {}
  <2>1. Location \cap Shelter = {} /\ Location \cap Envelope = {} /\ Shelter \cap Envelope = {}
    OBVIOUS
  <2> QED BY <2>1
<1> QED BY <1>1, <1>2, <1>3

LEMMA CatalogueFields ==
  /\ DOMAIN Catalogue = {"locationId", "presetId", "occupancyPresetId", "glazingId"}
BY DEF Catalogue

(* Wizard.tsx asks no less than the server's schema. *)
LEMMA GateImpliesSchema ==
  ASSUME NEW f \in DOMAIN Defaults, NEW v, Gate(f, v), f = "nightShutters" => v \in BOOLEAN
  PROVE  Schema(f, v)
<1>1. CASE f = "date"
  <2>1. f \notin DOMAIN Catalogue /\ f \notin MaterialFields /\ f \notin Lengths /\ f \notin Shares
    BY <1>1, CatalogueFields DEF MaterialFields, Lengths, Shares
  <2>2. v = 2023
    BY <1>1, <2>1 DEF Gate
  <2> QED BY <1>1, <2>1, <2>2 DEF Schema, Emptied
<1>2. CASE f \in DOMAIN Catalogue
  <2>1. f # "date" /\ f \notin MaterialFields /\ f \notin Lengths /\ f \notin Shares /\ f # "nightShutters"
    BY <1>2, CatalogueFields DEF MaterialFields, Lengths, Shares
  <2>2. f \notin {"lengthM", "widthM"} /\ f # "heightM"
    BY <2>1 DEF Lengths
  <2>3. v \in Catalogue[f]
    BY <1>2, <2>1 DEF Gate
  <2> QED BY <1>2, <2>1, <2>2, <2>3 DEF Schema
<1>3. CASE f \in MaterialFields
  <2>1. f # "date" /\ f \notin DOMAIN Catalogue /\ f \notin Lengths /\ f \notin Shares /\ f # "nightShutters"
    BY <1>3, CatalogueFields DEF MaterialFields, Lengths, Shares
  <2>2. f \notin {"lengthM", "widthM"} /\ f # "heightM"
    BY <2>1 DEF Lengths
  <2>3. v \in Materials \cup {KeepPreset}
    BY <1>3, <2>1 DEF Gate
  <2> QED BY <1>3, <2>1, <2>2, <2>3 DEF Schema
<1>4. CASE f \in Lengths
  <2>1. f # "date" /\ f \notin DOMAIN Catalogue /\ f \notin MaterialFields /\ f \notin Shares /\ f # "nightShutters"
    BY <1>4, CatalogueFields DEF MaterialFields, Lengths, Shares
  <2>2. Within(v, Ranges[f])
    BY <1>4, <2>1 DEF Gate
  <2>3. CASE f \in {"lengthM", "widthM"}
    <3>1. Ranges[f] = <<20, 300>>
      BY <2>3 DEF Ranges
    <3>2. f # "heightM"
      BY <2>3
    <3> QED BY <2>1, <2>2, <2>3, <3>1, <3>2 DEF Schema
  <2>4. CASE f = "heightM"
    <3>1. Ranges[f] = <<20, 60>>
      BY <2>4 DEF Ranges
    <3>2. f \notin {"lengthM", "widthM"}
      BY <2>4
    <3> QED BY <2>1, <2>2, <2>4, <3>1, <3>2 DEF Schema
  <2> QED BY <1>4, <2>3, <2>4 DEF Lengths
<1>5. CASE f \in Shares
  <2>1. f # "date" /\ f \notin DOMAIN Catalogue /\ f \notin MaterialFields /\ f \notin Lengths /\ f # "nightShutters"
    BY <1>5, CatalogueFields DEF MaterialFields, Lengths, Shares
  <2>2. f \notin {"lengthM", "widthM"} /\ f # "heightM"
    BY <2>1 DEF Lengths
  <2>3. Within(v, WwrRange)
    BY <1>5, <2>1 DEF Gate
  <2> QED BY <1>5, <2>1, <2>2, <2>3 DEF Schema, WwrRange
<1>6. CASE f = "nightShutters"
  <2>1. /\ f # "date" /\ f \notin DOMAIN Catalogue /\ f \notin MaterialFields /\ f \notin Shares
        /\ f \notin {"lengthM", "widthM"} /\ f # "heightM"
    BY <1>6, CatalogueFields DEF MaterialFields, Lengths, Shares
  <2> QED BY <1>6, <2>1 DEF Schema
<1> QED BY <1>1, <1>2, <1>3, <1>4, <1>5, <1>6, FieldsOfDesign, CatalogueFields
      DEF MaterialFields, Lengths, Shares

(* A design whose three steps are valid is one the server takes. *)
LEMMA WalkedIsTaken ==
  ASSUME NEW d, IsDesign(d), \A s \in 1..3 : StepValid(s, d)
  PROVE  "VALIDATION_ERROR" \notin Answers(d)
<1>1. DOMAIN d = DOMAIN Defaults
  BY DEF IsDesign
<1>2. ASSUME NEW f \in DOMAIN Defaults PROVE Schema(f, d[f])
  <2>1. PICK s \in 1..3 : f \in Steps[s]
    BY StepsPartition
  <2>2. Gate(f, d[f])
    BY <2>1 DEF StepValid
  <2> QED BY <2>2, GateImpliesSchema DEF IsDesign
<1> QED BY <1>1, <1>2 DEF Answers

(* A change in one step leaves the other steps as they are. *)
LEMMA OtherStepsKept ==
  ASSUME NEW d, IsDesign(d), NEW s \in 1..4, NEW t \in 1..4, s # t, NEW f \in Steps[t], NEW v,
         StepValid(s, d)
  PROVE  StepValid(s, [d EXCEPT ![f] = v])
<1> SUFFICES ASSUME NEW g \in Steps[s] PROVE Gate(g, [d EXCEPT ![f] = v][g])
  BY DEF StepValid
<1>1. g # f /\ g \in DOMAIN d
  BY StepsPartition DEF IsDesign
<1>2. [d EXCEPT ![f] = v][g] = d[g]
  BY <1>1
<1> QED BY <1>2 DEF StepValid

LEMMA ChangedIsDesign ==
  ASSUME NEW d, IsDesign(d), NEW f \in DOMAIN Defaults, NEW v \in Offered(f)
  PROVE  IsDesign([d EXCEPT ![f] = v])
<1> DEFINE e == [d EXCEPT ![f] = v]
<1>1. DOMAIN d = DOMAIN Defaults
  BY DEF IsDesign
<1>2. e = [g \in DOMAIN Defaults |-> e[g]]
  BY <1>1
<1>3. e["nightShutters"] \in BOOLEAN
  <2>1. CASE f = "nightShutters"
    <3>1. Offered(f) = BOOLEAN
      BY <2>1, CatalogueFields DEF Offered, MaterialFields, Lengths, Shares
    <3> QED BY <2>1, <3>1, <1>1
  <2>2. CASE f # "nightShutters"
    BY <2>2, <1>1, FieldsOfDesign DEF IsDesign
  <2> QED BY <2>1, <2>2
<1> QED BY <1>2, <1>3 DEF IsDesign

LEMMA DefaultsAreDesign == IsDesign(Defaults)
BY DEF IsDesign, Defaults

LEMMA ClassicInitInv == ClassicInit => ClassicInv
<1> SUFFICES ASSUME ClassicInit PROVE ClassicInv
  OBVIOUS
<1>1. stored \in {Nothing, Unreadable} \/ IsDesign(stored)
  <2> SUFFICES ASSUME NEW k \in Kept,
                      stored = [f \in DOMAIN Defaults |-> IF f \in DOMAIN k THEN k[f] ELSE Defaults[f]]
               PROVE  IsDesign(stored)
    BY DEF ClassicInit
  <2>1. Defaults["nightShutters"] \in BOOLEAN
    BY DEF Defaults
  <2>2. stored["nightShutters"] \in BOOLEAN
    BY <2>1, ClassicAssumption, FieldsOfDesign
  <2> QED BY <2>2 DEF IsDesign
<1> QED BY <1>1, ReviewIsLast DEF ClassicInit, ClassicInv, ClassicShape, StepsWalked

LEMMA ClassicStepInv ==
  ASSUME ClassicInv, [ClassicNext]_classicVars
  PROVE  ClassicInv'
<1> USE ReviewIsLast DEF ClassicInv, ClassicShape, StepsWalked
<1>1. CASE UNCHANGED classicVars
  BY <1>1 DEF classicVars, StepValid
<1>2. CASE OptionsCome
  <2>1. design' = LoadStored
    BY <1>2 DEF OptionsCome
  <2>2. IsDesign(design')
    BY <2>1, DefaultsAreDesign DEF LoadStored
  <2>3. step' = 1
    BY <1>2 DEF OptionsCome, Mount
  <2> QED BY <1>2, <2>2, <2>3 DEF OptionsCome
<1>3. CASE OptionsFail
  BY <1>3 DEF OptionsFail
<1>4. CASE Retry
  BY <1>4 DEF Retry
<1>5. CASE NextStep
  <2>1. /\ OnWizard /\ step < Review /\ step' = step + 1 /\ StepValid(step, design)
        /\ UNCHANGED <<stored, options, design, view, wizardStep, running, post, skipped>>
    BY <1>5 DEF NextStep, GoTo
  <2> QED BY <2>1 DEF OnWizard, StepValid
<1>6. CASE Back
  <2>1. /\ OnWizard /\ step > 1 /\ step' = step - 1
        /\ UNCHANGED <<stored, options, design, view, wizardStep, running, post, skipped>>
    BY <1>6 DEF Back, GoTo
  <2> QED BY <2>1 DEF OnWizard, StepValid
<1>7. CASE Run
  <2>1. /\ options = "ready" /\ step = Review /\ running'
        /\ post' = [input |-> design, answer |-> Nothing]
        /\ UNCHANGED <<stored, options, design, view, wizardStep, step, skipped>>
    BY <1>7 DEF Run, OnWizard
  <2>2. post'.input = design /\ post'.answer = Nothing
    BY <2>1
  <2>4. Nothing # "VALIDATION_ERROR"
    BY ClassicAssumption
  <2> QED BY <2>1, <2>2, <2>4 DEF StepValid
<1>8. CASE Serve
  <2>1. PICK a \in Answers(post.input) : post' = [post EXCEPT !.answer = a]
    BY <1>8 DEF Serve
  <2> QED BY <1>8, <2>1, WalkedIsTaken DEF Serve, StepValid
<1>9. CASE LosePost
  <2>1. post' = [post EXCEPT !.answer = "NETWORK"]
    BY <1>9 DEF LosePost
  <2> QED BY <1>9, <2>1 DEF LosePost, StepValid
<1>10. CASE Answered
  BY <1>10 DEF Answered, StepValid
<1>11. CASE Modify
  BY <1>11 DEF Modify, Mount, StepValid
<1>12. CASE Reload
  BY <1>12 DEF Reload, Mount
<1>13. ASSUME NEW f \in Touched, NEW v \in Offered(f), Change(f, v) PROVE ClassicInv'
  <2>1. /\ options = "ready" /\ view = "wizard" /\ f \in Steps[step]
        /\ design' = [design EXCEPT ![f] = v] /\ stored' \in {stored, design'}
        /\ UNCHANGED <<options, view, wizardStep, step, running, post>>
    BY <1>13 DEF Change, OnWizard
  <2>0. ASSUME ~skipped' PROVE ~skipped /\ ~running
    <3>1. skipped' = (skipped \/ running)
      BY <1>13 DEF Change
    <3> QED BY <2>0, <3>1, Zenon
  <2>2. IsDesign(design')
    BY <2>1, ChangedIsDesign, StepsPartition
  <2>3. ClassicShape'
    BY <2>1, <2>2
  <2>4. ASSUME ~skipped', NEW s \in 1..3, s < step PROVE StepValid(s, design')
    <3>1. ~skipped /\ s \in 1..(Review - 1)
      BY <2>0, <2>4
    <3>2. StepValid(s, design)
      BY <2>1, <2>4, <3>1
    <3>3. s \in 1..4 /\ step \in 1..4 /\ s # step
      BY <2>4
    <3>4. StepValid(s, [design EXCEPT ![f] = v])
      BY <2>1, <3>2, <3>3, OtherStepsKept
    <3> QED BY <2>1, <3>4
  <2>5. ~skipped' => ~running' /\ post' = Nothing /\ view' # "results"
    BY <2>1, <2>0
  <2>6. StepsWalked'
    BY <2>1, <2>4, <2>5
  <2> QED BY <2>3, <2>6
<1>14. ASSUME NEW s \in 1..Review, EditLink(s) PROVE ClassicInv'
  BY <1>14 DEF EditLink, GoTo, OnWizard, StepValid
<1>15. ASSUME NEW s \in 1..Review, Jump(s) PROVE ClassicInv'
  BY <1>15 DEF Jump, GoTo, OnWizard, StepValid
<1> QED BY <1>1, <1>2, <1>3, <1>4, <1>5, <1>6, <1>7, <1>8, <1>9, <1>10, <1>11, <1>12, <1>13, <1>14,
           <1>15 DEF ClassicNext
(* Wizard.tsx 37-76 against app.ts 34-82: whatever the controls offer, whatever was stored   *)
(* and however often the person goes back, reloads or runs, a design that was walked through *)
(* by its Next buttons is never refused by the server.                                     *)
THEOREM WalkedRunsAreAccepted == ClassicSpec => []WalkedRunIsAccepted
<1>1. ClassicInv /\ [ClassicNext]_classicVars => ClassicInv'
  BY ClassicStepInv
<1>2. ClassicInv => WalkedRunIsAccepted
  BY DEF ClassicInv, StepsWalked, WalkedRunIsAccepted
<1> QED BY ClassicInitInv, <1>1, <1>2, PTL DEF ClassicSpec
================================================================================
