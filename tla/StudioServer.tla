------------------------------ MODULE StudioServer ------------------------------
(* apps/studio-server: accounts, saved designs and their frozen simulations.  Every      *)
(* handler awaits MongoDB at least twice - it reads, then it writes - so requests of one *)
(* account from two tabs or devices interleave between the two.                          *)
CONSTANTS Request,   \* HTTP requests, each served by one handler
          Account,   \* e-mail addresses
          Members,   \* those already registered
          Id,        \* design ids; a design created by a request is named by the request
          Name, Shape, \* names and ShelterDesigns of the bodies
          Saved,     \* the designs already in the database, as a function on a part of Id
          None

VARIABLES users,       \* the users collection
          designs,     \* the designs collection
          simulations, \* the simulations collection
          handler      \* what each request asked for and where its handler stands

vars == <<users, designs, simulations, handler>>

Person == Members \cup Request   \* user ids; an account is named by the request that made it
Design == [owner : Person, name : Name, design : Shape, ansysStartedAt : Request \cup {None}]
User   == [email : Account, id : Person]
Run    == [id : Request, owner : Person, designId : Id, inputSnapshot : Shape, result : Shape]

ASSUME StudioAssumption ==
  /\ Members \subseteq Account /\ Request \subseteq Id
  /\ None \notin Request \cup Name \cup Shape \cup Account
  /\ DOMAIN Saved \subseteq Id \ Request
  /\ Saved \in [DOMAIN Saved -> Design]

Ops == {"get", "update", "delete", "startAnsys", "cancelAnsys", "simulate", "listRuns"}
Stages == {"idle", "hashing", "verifying", "loaded", "prepared", "answered"}

Statuses == {0, 200, 201, 204, 401, 404, 409, 500}
AnyOp == Ops \cup {"register", "login", "logout", "me", "list", "getRun", "create", None}

(* What a handler knows of its request, and what it has read. *)
Handler == [stage : Stages, op : AnyOp,
            user : Account \cup Person \cup {None}, id : Id \cup {None},
            name : Name \cup {None}, shape : Shape \cup {None}, doc : Design \cup {None},
            result : Person \cup Shape \cup {None}, shown : SUBSET (Id \cup Run),
            status : Statuses]

TypeOK == /\ users \subseteq User
          /\ designs \in [Id -> Design \cup {None}]
          /\ simulations \subseteq Run
          /\ handler \in [Request -> Handler]

Idle == [stage |-> "idle", op |-> None, user |-> None, id |-> None, name |-> None,
         shape |-> None, doc |-> None, result |-> None, shown |-> {}, status |-> 0]

Init == /\ users = {[email |-> m, id |-> m] : m \in Members}
        /\ designs = [d \in Id |-> IF d \in DOMAIN Saved THEN Saved[d] ELSE None]
        /\ simulations = {}
        /\ handler = [r \in Request |-> Idle]

(* What a handler knows grows with the request and the documents it has read. *)
Keep(r, h) == handler' = [handler EXCEPT ![r] = h]
Answered(h, status, doc) == [h EXCEPT !.stage = "answered", !.status = status, !.doc = doc]
Respond(r, status, doc) == Keep(r, Answered(handler[r], status, doc))

--------------------------------------------------------------------------------
(* registerUser(), auth/service.ts 34-45: findOne(), hashPassword(), create(). *)
RegisterUser(r, email) ==
  LET h == [Idle EXCEPT !.op = "register", !.user = email] IN
    /\ handler[r].stage = "idle"
    /\ IF \E u \in users : u.email = email
       THEN Keep(r, Answered(h, 409, None))
       ELSE Keep(r, [h EXCEPT !.stage = "hashing"])
    /\ UNCHANGED <<users, designs, simulations>>

(* The unique index on email (auth/model.ts, 10) turns the second create() away with an  *)
(* E11000 that the error handler knows no better status for than 500.                    *)
InsertUserAnyway(r) ==
  /\ handler[r].stage = "hashing"
  /\ users' = users \cup {[email |-> handler[r].user, id |-> r]}
  /\ Respond(r, 201, None)
  /\ UNCHANGED <<designs, simulations>>
InsertUser(r) ==
  /\ handler[r].stage = "hashing"
  /\ IF \E u \in users : u.email = handler[r].user
     THEN UNCHANGED users /\ Respond(r, 500, None)
     ELSE users' = users \cup {[email |-> handler[r].user, id |-> r]} /\ Respond(r, 201, None)
  /\ UNCHANGED <<designs, simulations>>

(* authenticateUser(), auth/service.ts 51-58: findOne(), then scrypt against the hash that *)
(* was found or a dummy one.  What it found is what it signs the cookie for.             *)
Login(r, email) ==
  LET h == [Idle EXCEPT !.op = "login", !.user = email] IN
    /\ handler[r].stage = "idle"
    /\ Keep(r, [h EXCEPT !.stage = "verifying",
                         !.result = IF \E u \in users : u.email = email
                                    THEN (CHOOSE u \in users : u.email = email).id ELSE None])
    /\ UNCHANGED <<users, designs, simulations>>

VerifyPassword(r, right) ==
  /\ handler[r].stage = "verifying"
  /\ Respond(r, IF right /\ handler[r].result # None THEN 200 ELSE 401, None)
  /\ UNCHANGED <<users, designs, simulations>>

(* The token names the user and the server keeps nothing: a cookie that was ever signed  *)
(* is good until it expires, on whatever device it is, logged out elsewhere or not.      *)
SignedFor == {u.id : u \in users}

(* authenticate(), auth/authenticate.ts 12-18, before every handler below; without a     *)
(* cookie it is the whole answer.                                                        *)
Unauthenticated(r, op) ==
  /\ handler[r].stage = "idle"
  /\ Keep(r, Answered([Idle EXCEPT !.op = op], 401, None))
  /\ UNCHANGED <<users, designs, simulations>>

(* Requests with one await or none: logout, `me', the user's designs, one of the user's  *)
(* simulations (auth/routes.ts 73-85, designs/service.ts 45-48, simulations/service.ts    *)
(* 101-108).                                                                             *)
Logout(r) ==
  /\ handler[r].stage = "idle"
  /\ Keep(r, Answered([Idle EXCEPT !.op = "logout"], 200, None))
  /\ UNCHANGED <<users, designs, simulations>>
Me(r, user) ==
  LET h == [Idle EXCEPT !.op = "me", !.user = user] IN
    /\ handler[r].stage = "idle"
    /\ Keep(r, Answered(h, IF \E u \in users : u.id = user THEN 200 ELSE 401, None))
    /\ UNCHANGED <<users, designs, simulations>>
ListDesigns(r, user) ==
  LET own == {d \in Id : designs[d] # None /\ designs[d].owner = user} IN
    /\ handler[r].stage = "idle"
    /\ Keep(r, Answered([Idle EXCEPT !.op = "list", !.user = user, !.shown = own], 200, None))
    /\ UNCHANGED <<users, designs, simulations>>
GetSimulation(r, user, id) ==
  LET found == {s \in simulations : s.id = id /\ s.owner = user}
      h == [Idle EXCEPT !.op = "getRun", !.user = user, !.id = id, !.shown = found]
  IN /\ handler[r].stage = "idle"
     /\ Keep(r, Answered(h, IF found = {} THEN 404 ELSE 200, None))
     /\ UNCHANGED <<users, designs, simulations>>

--------------------------------------------------------------------------------
(* createDesign(), designs/service.ts 36-43. *)
CreateDesign(r, user, name, shape) ==
  LET doc == [owner |-> user, name |-> name, design |-> shape, ansysStartedAt |-> None] IN
    /\ handler[r].stage = "idle"
    /\ designs' = [designs EXCEPT ![r] = doc]
    /\ Keep(r, Answered([Idle EXCEPT !.op = "create", !.user = user, !.id = r], 201, doc))
    /\ UNCHANGED <<users, simulations>>

(* getOwnedDesignDoc(), 53-61: every request about a design starts with it.  `get` is    *)
(* done then, and so is the start of an ANSYS run that has already started.              *)
Found(user, d) == IF designs[d] # None /\ designs[d].owner = user THEN {designs[d]} ELSE {}

LoadDesign(r, op, user, d, name, shape) ==
  LET h == [Idle EXCEPT !.op = op, !.user = user, !.id = d, !.name = name, !.shape = shape] IN
    /\ handler[r].stage = "idle"
    /\ op # "update" => name = None /\ shape = None
    /\ op = "update" => name # None /\ shape # None
    /\ \/ Found(user, d) = {} /\ Keep(r, Answered(h, 404, None))
       \/ \E doc \in Found(user, d) :
            IF op = "get" \/ (op = "startAnsys" /\ doc.ansysStartedAt # None)
            THEN Keep(r, Answered(h, 200, doc))
            ELSE Keep(r, [h EXCEPT !.stage = "loaded", !.doc = doc])
    /\ UNCHANGED <<users, designs, simulations>>

(* doc.save(): an update of the paths the handler changed, and of nothing else; it fails *)
(* when the document is gone, even if no path has changed.                               *)
SaveWhole(r, new) ==
  LET d == handler[r].id IN
    IF designs[d] = None
    THEN UNCHANGED designs /\ Respond(r, 500, None)
    ELSE designs' = [designs EXCEPT ![d] = new] /\ Respond(r, 200, new)
Save(r, new) ==
  LET d == handler[r].id
      old == handler[r].doc
  IN IF designs[d] = None
     THEN UNCHANGED designs /\ Respond(r, 500, None)
     ELSE /\ designs' = [designs EXCEPT ![d] =
                [f \in DOMAIN new |-> IF new[f] # old[f] THEN new[f] ELSE designs[d][f]]]
          /\ Respond(r, 200, new)

(* updateDesign(), 67-78, after its first await. *)
UpdateDesign(r) ==
  /\ handler[r].stage = "loaded" /\ handler[r].op = "update"
  /\ Save(r, [handler[r].doc EXCEPT !.name = handler[r].name, !.design = handler[r].shape])
  /\ UNCHANGED <<users, simulations>>

(* startAnsys() and cancelAnsys(), 88-102.  A start is named by the request whose time it *)
(* records.                                                                              *)
StartAnsys(r) ==
  /\ handler[r].stage = "loaded" /\ handler[r].op = "startAnsys"
  /\ Save(r, [handler[r].doc EXCEPT !.ansysStartedAt = r])
  /\ UNCHANGED <<users, simulations>>

CancelAnsys(r) ==
  /\ handler[r].stage = "loaded" /\ handler[r].op = "cancelAnsys"
  /\ Save(r, [handler[r].doc EXCEPT !.ansysStartedAt = None])
  /\ UNCHANGED <<users, simulations>>

(* deleteDesign(), 80-83: deleting what is gone already is no error. *)
DeleteDesign(r) ==
  /\ handler[r].stage = "loaded" /\ handler[r].op = "delete"
  /\ designs' = [designs EXCEPT ![handler[r].id] = None]
  /\ Respond(r, 204, None)
  /\ UNCHANGED <<users, simulations>>

--------------------------------------------------------------------------------
(* runSimulation(), simulations/service.ts 67-88.  The snapshot is taken from the         *)
(* document as it was read; the weather of a custom location is awaited before the run.  *)
PrepareCurrent(r) ==
  /\ handler[r].stage = "loaded" /\ handler[r].op = "simulate"
  /\ LET now == designs[handler[r].id] IN
       Keep(r, [handler[r] EXCEPT !.stage = "prepared",
                  !.result = IF now = None THEN handler[r].doc.design ELSE now.design])
  /\ UNCHANGED <<users, designs, simulations>>
Prepare(r) ==
  /\ handler[r].stage = "loaded" /\ handler[r].op = "simulate"
  /\ Keep(r, [handler[r] EXCEPT !.stage = "prepared", !.result = handler[r].doc.design])
  /\ UNCHANGED <<users, designs, simulations>>

CreateSimulation(r) ==
  /\ handler[r].stage = "prepared"
  /\ simulations' = simulations \cup
       {[id |-> r, owner |-> handler[r].user, designId |-> handler[r].id,
         inputSnapshot |-> handler[r].doc.design, result |-> handler[r].result]}
  /\ Respond(r, 201, handler[r].doc)
  /\ UNCHANGED <<users, designs>>

(* listSimulations(), 92-99: the design is looked up for its owner, its simulations by    *)
(* the design alone.                                                                     *)
ListSimulations(r) ==
  /\ handler[r].stage = "loaded" /\ handler[r].op = "listRuns"
  /\ Keep(r, [Answered(handler[r], 200, handler[r].doc) EXCEPT
                 !.shown = {s \in simulations : s.designId = handler[r].id}])
  /\ UNCHANGED <<users, designs, simulations>>

(* Any await may reject: the database, the weather sources, the engine on this design.   *)
(* 500 stands for every status the error handler of app.ts gives these: 400, 422, 500,   *)
(* 502.                                                                                  *)
Fail(r) ==
  /\ handler[r].stage \in {"hashing", "verifying", "loaded", "prepared"}
  /\ Respond(r, 500, None)
  /\ UNCHANGED <<users, designs, simulations>>

--------------------------------------------------------------------------------
Arrive(r) ==
  \/ \E e \in Account : RegisterUser(r, e) \/ Login(r, e)
  \/ \E op \in Ops : Unauthenticated(r, op)
  \/ Logout(r)
  \/ \E u \in SignedFor :
       \/ Me(r, u) \/ ListDesigns(r, u) \/ \E id \in Request : GetSimulation(r, u, id)
       \/ \E n \in Name, s \in Shape : CreateDesign(r, u, n, s)
       \/ \E op \in Ops, d \in DOMAIN Saved, n \in Name \cup {None}, s \in Shape \cup {None} :
            LoadDesign(r, op, u, d, n, s)

Resume(r) == \/ InsertUser(r) \/ (\E right \in BOOLEAN : VerifyPassword(r, right)) \/ UpdateDesign(r) \/ StartAnsys(r) \/ CancelAnsys(r)
             \/ DeleteDesign(r) \/ Prepare(r) \/ CreateSimulation(r) \/ ListSimulations(r) \/ Fail(r)

Next == \E r \in Request : Arrive(r) \/ Resume(r)
Spec == Init /\ [][Next]_vars

--------------------------------------------------------------------------------
(* However registrations and logins of one address interleave, one account comes of them, *)
(* only its creator is told so, and a login is signed for that account and no other.     *)
OneAccountPerEmail ==
  /\ \A u, v \in users : u.email = v.email => u = v
  /\ \A r \in Request : handler[r].op = "register" /\ handler[r].status = 201
       => [email |-> handler[r].user, id |-> r] \in users
  /\ \A r \in Request : handler[r].op = "login" /\ handler[r].status = 200
       => [email |-> handler[r].user, id |-> handler[r].result] \in users

(* API.md 9 and 8: the result a simulation is stored with is that of its own             *)
(* inputSnapshot, a design of its own owner that its request did read, whatever was      *)
(* saved or deleted while it ran; and a run that has been shown, to its owner and to      *)
(* nobody else, stays as it was shown.                                                   *)
SnapshotMatchesResult ==
  /\ \A s \in simulations :
       /\ s.result = s.inputSnapshot /\ s.inputSnapshot = handler[s.id].doc.design
       /\ s.owner = handler[s.id].doc.owner
  /\ \A r \in Request : handler[r].op \in {"listRuns", "getRun"} =>
       \A s \in handler[r].shown : s \in simulations /\ s.owner = handler[r].user

Steps(op, d) == \E r \in Request : /\ handler[r].op = op /\ handler[r].id = d
                                   /\ handler[r].stage = "loaded" /\ handler'[r].stage = "answered"
(* API.md 8: a PUT leaves ansysStartedAt unchanged and starting or cancelling a run      *)
(* leaves name and design, also when they overlap; and a design that was deleted stays   *)
(* deleted: no handler that read it before brings it back by saving it.                  *)
SavesStayApart ==
  [][/\ \A d \in Id : designs[d] # None /\ designs'[d] # None =>
       /\ designs'[d].ansysStartedAt # designs[d].ansysStartedAt
            => Steps("startAnsys", d) \/ Steps("cancelAnsys", d)
       /\ (designs'[d].name # designs[d].name \/ designs'[d].design # designs[d].design)
            => Steps("update", d)
     /\ \A d \in DOMAIN Saved : designs[d] = None => designs'[d] = None]_vars
================================================================================
