-------------------------------- MODULE ShareLinks --------------------------------
(* "Or get a link": the export panel of the web app's results page (ExportPanel.tsx,       *)
(* share.ts), the routes under /api/designs and the table behind them (repo/designs.ts,    *)
(* db.ts).  The page's store outlives the panel: the design changes on another page, and   *)
(* an upload that is still being read changes it under the mounted panel.                 *)
(*                                                                                        *)
(* A design is <<its author, how often it was changed>>.  No row is ever given an         *)
(* expiresAt, so that neither the check of it nor the purge has anything to do.           *)
EXTENDS Naturals

CONSTANTS Sharers,
          ShareIds,         \* what generateShareId() may draw
          MaxShareAttempts, \* MAX_SHARE_ID_ATTEMPTS
          MaxClicks, MaxDesigns, \* bounds
          Nobody

Unavailable == "Sharing needs the server."

ASSUME ShareAssumption == {Nobody, Unavailable} \cap ShareIds = {}

VARIABLES snapshots, \* DesignSnapshot: the design under a shareId
          panels,    \* a sharer's store and panel
          posts      \* posts[s]: the POSTs of s that are not answered

linkVars == <<snapshots, panels, posts>>

LinkInit ==
  /\ snapshots = << >>
  /\ panels = [s \in Sharers |-> [design |-> 0, shareId |-> Nobody, clicks |-> 0, mount |-> 0,
                                  sharing |-> FALSE, message |-> Nobody, shared |-> Nobody]]
  /\ posts = [s \in Sharers |-> << >>]

Panel(s, next) == panels' = [panels EXCEPT ![s] = next]
Reply(s, k, answer) == posts' = [posts EXCEPT ![s][k].answer = answer]

(* setRequest() on the setup page: the panel is a new one when the person comes back.      *)
Redesign(s) ==
  /\ panels[s].design < MaxDesigns
  /\ Panel(s, [panels[s] EXCEPT !.design = @ + 1, !.mount = @ + 1, !.sharing = FALSE,
                                !.message = Nobody, !.shared = Nobody])
  /\ UNCHANGED <<snapshots, posts>>
(* An upload whose file is read at last.                                                   *)
UploadArrives(s) ==
  /\ panels[s].design < MaxDesigns /\ Panel(s, [panels[s] EXCEPT !.design = @ + 1])
  /\ UNCHANGED <<snapshots, posts>>

(* onShare(): the button is disabled while its own panel shares.                           *)
Post(design, mount) == [design |-> design, mount |-> mount, attempt |-> 1, answer |-> Nobody]
OnShare(s) ==
  LET design == <<s, panels[s].design>>
      click == panels[s].clicks + 1
  IN /\ ~panels[s].sharing /\ panels[s].clicks < MaxClicks
     /\ Panel(s, [panels[s] EXCEPT !.clicks = click, !.sharing = TRUE, !.message = Nobody, !.shared = design])
     /\ posts' = [posts EXCEPT ![s] =
          [k \in DOMAIN @ \cup {click} |-> IF k = click THEN Post(design, panels[s].mount) ELSE @[k]]]
     /\ UNCHANGED snapshots

(* saveDesign(): a shareId that is taken is drawn again, a few times.                      *)
Open(s, k) == posts[s][k].answer = Nobody
WithRow(id, design) == [i \in DOMAIN snapshots \cup {id} |-> IF i = id THEN design ELSE snapshots[i]]
CreateOrReplace(s, k, id) ==
  /\ Open(s, k)
  /\ snapshots' = WithRow(id, posts[s][k].design)
  /\ Reply(s, k, id) /\ UNCHANGED panels
Create(s, k, id) ==
  /\ Open(s, k) /\ id \notin DOMAIN snapshots
  /\ snapshots' = WithRow(id, posts[s][k].design)
  /\ Reply(s, k, id) /\ UNCHANGED panels
Taken(s, k, id) ==
  /\ Open(s, k) /\ id \in DOMAIN snapshots
  /\ IF posts[s][k].attempt < MaxShareAttempts THEN posts' = [posts EXCEPT ![s][k].attempt = @ + 1]
     ELSE Reply(s, k, Unavailable)
  /\ UNCHANGED <<snapshots, panels>>
(* withDb(): no database, or one that fails - before the row is there, or after.           *)
MayHaveWritten(s, k) ==
  snapshots' \in {snapshots} \cup {WithRow(id, posts[s][k].design) : id \in ShareIds \ DOMAIN snapshots}
DbFails(s, k) ==
  /\ Open(s, k) /\ MayHaveWritten(s, k)
  /\ Reply(s, k, Unavailable) /\ UNCHANGED panels

(* The answer is in, or fetch() throws: setShareId() is the store's, the message and the   *)
(* button are of a panel that may be gone.                                                *)
Settled(s, k, shareId, message) ==
  LET still == posts[s][k].mount = panels[s].mount
  IN /\ posts' = [posts EXCEPT ![s] = [j \in DOMAIN @ \ {k} |-> @[j]]]
     /\ Panel(s, [panels[s] EXCEPT !.shareId = shareId, !.sharing = @ /\ ~still,
                                   !.message = IF still THEN message ELSE @])
Answered(s, k) ==
  LET answer == posts[s][k].answer
  IN /\ ~Open(s, k) /\ UNCHANGED snapshots
     /\ Settled(s, k, IF answer \in ShareIds THEN answer ELSE panels[s].shareId, answer)
FetchThrows(s, k) ==
  /\ IF Open(s, k) THEN MayHaveWritten(s, k) ELSE UNCHANGED snapshots
  /\ Settled(s, k, panels[s].shareId, Nobody)

(* GET /api/designs/[shareId]: loadDesign() finds the row or answers null.                 *)
LoadDesign(id) == IF id \in DOMAIN snapshots THEN snapshots[id] ELSE Nobody

LinkNext ==
  \E s \in Sharers :
     \/ Redesign(s) \/ UploadArrives(s) \/ OnShare(s)
     \/ \E k \in DOMAIN posts[s] :
           \/ \E id \in ShareIds : Create(s, k, id) \/ Taken(s, k, id)
           \/ DbFails(s, k) \/ Answered(s, k) \/ FetchThrows(s, k)

LinkSpec == LinkInit /\ [][LinkNext]_linkVars

--------------------------------------------------------------------------------
(* A link that was given out opens the design it was asked for, for good: whoever draws    *)
(* the same letters, whatever is lost, and though the panel that asked is gone.           *)
Given(s) == {posts[s][k].answer : k \in DOMAIN posts[s]} \cap ShareIds
LinksStand ==
  \A s \in Sharers :
     /\ \A id \in Given(s) \cup ({panels[s].shareId} \ {Nobody}) :
           \E d \in 0..panels[s].design : LoadDesign(id) = <<s, d>>
     /\ panels[s].message \in ShareIds => LoadDesign(panels[s].message) = panels[s].shared
================================================================================
