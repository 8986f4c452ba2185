-------------------------------- MODULE Dashboard --------------------------------
(* apps/studio/src/routes/Dashboard.tsx: the list of a person's shelters.  One request    *)
(* lists them, then one per row asks for its runs; deletions and cancelled ANSYS runs go   *)
(* on meanwhile, and a second tab changes the same designs.                              *)
EXTENDS Integers, FiniteSets, TLC
CONSTANTS Designs, Ran, Timed, \* the person's designs, those with a run and with a clock
          MaxCalls,     \* bound: clicks that call the server
          MaxElsewhere, \* bound: what a second tab does
          NoOne

VARIABLES server,     \* live: designs stored; ran: those with a run; timed: with an ANSYS clock
          state,      \* of the list: loading, error or shown
          rows,       \* id -> the dawn temperature shown and whether a clock runs
          confirming, \* the row that asks whether to delete
          deleting,   \* the row whose delete is under way
          cancelling, \* the row whose ANSYS run is being cancelled
          calls,      \* requests without an answer here; the server's once it is given
          clicks, elsewhere

vars == <<server, state, rows, confirming, deleting, cancelling, calls, clicks, elsewhere>>

Row(dawn, timed) == [dawn |-> dawn, timed |-> timed]
Sent(kind, id, number) == [kind |-> kind, id |-> id, number |-> number, stage |-> "sent",
                           designs |-> {}, timed |-> {}, run |-> FALSE]

Init ==
  /\ server = [live |-> Designs, ran |-> Ran, timed |-> Timed]
  /\ state = "loading" /\ rows = <<>>
  /\ confirming = NoOne /\ deleting = NoOne /\ cancelling = NoOne
  /\ calls = {Sent("list", NoOne, 0)}
  /\ clicks = 0 /\ elsewhere = 0

--------------------------------------------------------------------------------
(* The server. *)
Answered(c, reply) == calls' = (calls \ {c}) \cup {[reply EXCEPT !.stage = "answered"]}
Refused(c) == calls' = (calls \ {c}) \cup {[c EXCEPT !.stage = "refused"]}

Serve(c) ==
  /\ c.stage = "sent"
  /\ CASE c.kind = "list" ->
            /\ Answered(c, [c EXCEPT !.designs = server.live, !.timed = server.timed])
            /\ UNCHANGED server
       [] c.kind = "runs" ->
            /\ IF c.id \in server.live THEN Answered(c, [c EXCEPT !.run = c.id \in server.ran]) ELSE Refused(c)
            /\ UNCHANGED server
       [] c.kind = "delete" ->
            /\ IF c.id \in server.live THEN Answered(c, c) ELSE Refused(c)
            /\ server' = [server EXCEPT !.live = @ \ {c.id}]
       [] c.kind = "cancel" ->
            /\ IF c.id \in server.live THEN Answered(c, c) ELSE Refused(c)
            /\ server' = [server EXCEPT !.timed = @ \ {c.id}]
  /\ UNCHANGED <<state, rows, confirming, deleting, cancelling, clicks, elsewhere>>

(* Before or after the server, a call may be lost: the page sees a rejection.             *)
Lost(c) ==
  /\ c.stage \in {"sent", "answered"} /\ Refused(c)
  /\ UNCHANGED <<server, state, rows, confirming, deleting, cancelling, clicks, elsewhere>>

(* A second tab deletes a design, runs it, or starts its ANSYS clock. *)
Elsewhere ==
  /\ elsewhere < MaxElsewhere /\ elsewhere' = elsewhere + 1
  /\ \E id \in server.live : \/ server' = [server EXCEPT !.live = @ \ {id}]
                             \/ server' = [server EXCEPT !.ran = @ \cup {id}]
                             \/ server' = [server EXCEPT !.timed = @ \cup {id}]
  /\ UNCHANGED <<state, rows, confirming, deleting, cancelling, calls, clicks>>

--------------------------------------------------------------------------------
(* The page.  Every answer changes the rows as they are by then. *)
Settle(c) == c.stage \in {"answered", "refused"} /\ c \in calls
Without(f, id) == [i \in DOMAIN f \ {id} |-> f[i]]

(* Mutant of WithRow: the row is put back. *)
WithRowAnew(id, row) == (id :> row) @@ rows
WithRow(id, row) == IF id \in DOMAIN rows THEN [rows EXCEPT ![id] = row] ELSE rows

(* 105-143: the list, then a request per row. *)
Listed(c) ==
  /\ Settle(c) /\ c.kind = "list"
  /\ IF c.stage = "answered"
     THEN /\ state' = "shown"
          /\ rows' = [id \in c.designs |-> Row("unknown", id \in c.timed)]
          /\ calls' = (calls \ {c}) \cup {Sent("runs", id, 0) : id \in c.designs}
     ELSE /\ state' = "error" /\ calls' = calls \ {c} /\ UNCHANGED rows
  /\ UNCHANGED <<server, confirming, deleting, cancelling, clicks, elsewhere>>

(* Mutant of DawnOf: a rejected request leaves the row waiting. *)
DawnOfAnswersOnly(c) ==
  IF c.stage = "answered" THEN (IF c.run THEN "temperature" ELSE "notRun") ELSE "unknown"
DawnOf(c) == IF c.stage = "answered" /\ c.run THEN "temperature" ELSE "notRun"
Dawned(c) ==
  /\ Settle(c) /\ c.kind = "runs"
  /\ rows' = WithRow(c.id, Row(DawnOf(c), c.id \in DOMAIN rows /\ rows[c.id].timed))
  /\ calls' = calls \ {c}
  /\ UNCHANGED <<server, state, confirming, deleting, cancelling, clicks, elsewhere>>

(* handleDelete: the row goes when the server says so; any question asked is withdrawn.    *)
Deleted(c) ==
  /\ Settle(c) /\ c.kind = "delete"
  /\ IF c.stage = "answered" THEN rows' = Without(rows, c.id) /\ confirming' = NoOne
     ELSE UNCHANGED <<rows, confirming>>
  /\ deleting' = NoOne
  /\ calls' = calls \ {c}
  /\ UNCHANGED <<server, state, cancelling, clicks, elsewhere>>

(* handleCancelAnsys: the clock of the row stops when the server says so. *)
Cancelled(c) ==
  /\ Settle(c) /\ c.kind = "cancel"
  /\ rows' = IF c.stage = "answered" /\ c.id \in DOMAIN rows
             THEN WithRow(c.id, Row(rows[c.id].dawn, FALSE)) ELSE rows
  /\ cancelling' = NoOne
  /\ calls' = calls \ {c}
  /\ UNCHANGED <<server, state, confirming, deleting, clicks, elsewhere>>

(* The person.  A row whose delete is under way can be asked about again once another row  *)
(* was, so the same request may be under way twice.                                       *)
Click(kind, id) ==
  /\ clicks < MaxCalls /\ clicks' = clicks + 1
  /\ calls' = calls \cup {Sent(kind, id, clicks')}

RetryList ==
  /\ state = "error" /\ Click("list", NoOne)
  /\ state' = "loading" /\ rows' = <<>>
  /\ UNCHANGED <<server, confirming, deleting, cancelling, elsewhere>>
Ask(id) ==
  /\ state = "shown" /\ id \in DOMAIN rows /\ confirming # id
  /\ confirming' = id
  /\ UNCHANGED <<server, state, rows, deleting, cancelling, calls, clicks, elsewhere>>
Withdraw ==
  /\ confirming # NoOne /\ deleting # confirming
  /\ confirming' = NoOne
  /\ UNCHANGED <<server, state, rows, deleting, cancelling, calls, clicks, elsewhere>>
ConfirmDelete ==
  /\ confirming \in DOMAIN rows /\ deleting # confirming
  /\ Click("delete", confirming)
  /\ deleting' = confirming
  /\ UNCHANGED <<server, state, rows, confirming, cancelling, elsewhere>>
CancelAnsys(id) ==
  /\ state = "shown" /\ id \in DOMAIN rows /\ rows[id].timed /\ cancelling # id
  /\ Click("cancel", id)
  /\ cancelling' = id
  /\ UNCHANGED <<server, state, rows, confirming, deleting, elsewhere>>

Answer == \E c \in calls : Listed(c) \/ Dawned(c) \/ Deleted(c) \/ Cancelled(c)
Serves == \E c \in calls : Serve(c) \/ Lost(c)
Next ==
  \/ Serves
  \/ Answer \/ Elsewhere
  \/ RetryList \/ Withdraw \/ ConfirmDelete
  \/ \E id \in Designs : Ask(id) \/ CancelAnsys(id)

(* The server answers or the connection fails, and the page takes what comes.             *)
Fairness == WF_vars(Serves) /\ WF_vars(Answer)
Spec == Init /\ [][Next]_vars /\ Fairness

--------------------------------------------------------------------------------
(* A list that is shown only learns.  Four kinds of answers change the same rows in any    *)
(* order (lines 107-153): none of them may bring back a row that was deleted, hide a       *)
(* temperature that was shown, or restart a clock that was cancelled.                     *)
RowFactsStand ==
  state = "shown" =>
    /\ state' = "shown" /\ DOMAIN rows' \subseteq DOMAIN rows
    /\ \A id \in DOMAIN rows' :
         /\ rows[id].dawn # "unknown" => rows'[id].dawn = rows[id].dawn
         /\ ~rows[id].timed => ~rows'[id].timed

(* The page is done at last: the list is shown or says it failed, every row says whether   *)
(* it was run, and no button stays at "Deleting..." though the server never answered.     *)
ListIsUp == state # "loading"
ButtonsAreFree == deleting = NoOne /\ cancelling = NoOne
RowsAreKnown == \A id \in DOMAIN rows : rows[id].dawn # "unknown"
================================================================================
