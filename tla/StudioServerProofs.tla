--------------------------- MODULE StudioServerProofs ---------------------------
(* Proofs about StudioServer: for any number of requests, accounts and designs, however   *)
(* the handlers interleave at their awaits and whichever of them fail.                    *)
EXTENDS StudioServer, TLAPS

(* What the answer with this status tells the client is in the database. *)
Told(h, status, r, us, sims) ==
  /\ h.op = "register" /\ status = 201 => [email |-> h.user, id |-> r] \in us
  /\ h.op = "login" /\ status = 200 => [email |-> h.user, id |-> h.result] \in us
  /\ h.op \in {"listRuns", "getRun"} => h.shown \subseteq sims /\ \A s \in h.shown : s.owner = h.user

(* What a handler knows is backed by what the database holds: the account it registered or *)
(* signs in, the owned design it has read, the input a result is of, the runs it showed.   *)
(* Databases us and sims only grow, so what is backed once stays so.                       *)
Backed(h, r, us, sims) ==
  /\ h.stage = "hashing" => h.op = "register" /\ h.user \in Account
  /\ h.stage = "verifying" =>
       h.op = "login" /\ (h.result # None => [email |-> h.user, id |-> h.result] \in us)
  /\ Told(h, h.status, r, us, sims)
  /\ h.stage \in {"loaded", "prepared"} =>
       /\ h.op \in Ops /\ h.id \in DOMAIN Saved /\ h.doc \in Design
       /\ h.user = h.doc.owner /\ h.doc.owner = Saved[h.id].owner
  /\ h.stage = "loaded" /\ h.op = "update" => h.name \in Name /\ h.shape \in Shape
  /\ h.stage = "prepared" => h.op = "simulate" /\ h.result = h.doc.design

Unique == \A u, v \in users : u.email = v.email => u = v

(* A design is never handed on, and a request that has not arrived has created none.      *)
Owned == /\ \A d \in DOMAIN Saved : designs[d] # None => designs[d].owner = Saved[d].owner
         /\ \A r \in Request : handler[r].stage = "idle" => designs[r] = None

(* A simulation is what its request answered, and that handler is done.                   *)
Stored == \A s \in simulations :
            LET h == handler[s.id] IN
              /\ h.stage = "answered"
              /\ s.designId \in DOMAIN Saved /\ s.owner = Saved[s.designId].owner
              /\ s.result = s.inputSnapshot /\ s.inputSnapshot = h.doc.design
              /\ s.owner = h.doc.owner

(* The inductive invariant. *)
IInv == /\ TypeOK /\ Unique /\ Owned /\ Stored
        /\ \A r \in Request : Backed(handler[r], r, users, simulations)

--------------------------------------------------------------------------------
(* One field of a handler's record at a time. *)
LEMMA Edits ==
  ASSUME NEW h \in Handler
  PROVE  /\ \A x \in Stages : [h EXCEPT !.stage = x] \in Handler
         /\ \A x \in AnyOp : [h EXCEPT !.op = x] \in Handler
         /\ \A x \in Account \cup Person \cup {None} : [h EXCEPT !.user = x] \in Handler
         /\ \A x \in Id \cup {None} : [h EXCEPT !.id = x] \in Handler
         /\ \A x \in Name \cup {None} : [h EXCEPT !.name = x] \in Handler
         /\ \A x \in Shape \cup {None} : [h EXCEPT !.shape = x] \in Handler
         /\ \A x \in Design \cup {None} : [h EXCEPT !.doc = x] \in Handler
         /\ \A x \in Person \cup Shape \cup {None} : [h EXCEPT !.result = x] \in Handler
         /\ \A x \in SUBSET (Id \cup Run) : [h EXCEPT !.shown = x] \in Handler
         /\ \A x \in Statuses : [h EXCEPT !.status = x] \in Handler
BY DEF Handler

LEMMA IdleType ==
  /\ Idle \in Handler
  /\ Idle.stage = "idle" /\ Idle.status = 0 /\ Idle.shown = {} /\ Idle.doc = None
BY DEF Idle, Handler, Stages, Statuses, AnyOp

(* A handler that has answered is backed if what it tells the client is. *)
LEMMA AnsweredBacked ==
  ASSUME NEW h \in Handler, NEW status \in Statuses, NEW doc \in Design \cup {None},
         NEW r, NEW us, NEW sims, Told(h, status, r, us, sims)
  PROVE  LET g == Answered(h, status, doc) IN
           g \in Handler /\ g.stage = "answered" /\ g.doc = doc /\ Backed(g, r, us, sims)
<1> DEFINE g == Answered(h, status, doc)
<1>1. g \in Handler
  BY Edits DEF Answered, Stages
<1>2. /\ g.stage = "answered" /\ g.status = status /\ g.doc = doc /\ g.op = h.op
      /\ g.user = h.user /\ g.result = h.result /\ g.shown = h.shown
  BY DEF Handler, Answered
<1>3. Backed(g, r, us, sims)
  BY <1>2 DEF Backed, Told
<1> QED BY <1>1, <1>2, <1>3

LEMMA Codes == None \in Design \cup {None} /\ {200, 201, 204, 401, 404, 409, 500} \subseteq Statuses
BY DEF Statuses

LEMMA InitInv == Init => IInv
<1> SUFFICES ASSUME Init PROVE IInv
  OBVIOUS
<1> USE StudioAssumption DEF Init
<1>1. TypeOK
  <2>1. users \subseteq User
    BY DEF User, Person
  <2> QED BY <2>1, IdleType DEF TypeOK
<1>2. Unique
  BY DEF Unique
<1>3. Owned
  BY DEF Owned
<1>4. Stored
  BY DEF Stored
<1>5. ASSUME NEW r \in Request
      PROVE  Backed(handler[r], r, users, simulations)
  <2>1. handler[r] = Idle
    OBVIOUS
  <2> QED BY <2>1, IdleType DEF Backed, Told, Idle
<1> QED BY <1>1, <1>2, <1>3, <1>4, <1>5 DEF IInv

(* A step of one handler leaves the others backed, and the simulations of those that are   *)
(* done with them.                                                                        *)
LEMMA OneHandler ==
  ASSUME IInv, NEW r \in Request, NEW h \in Handler, handler[r].stage # "answered",
         Keep(r, h), users \subseteq users', simulations \subseteq simulations',
         Backed(h, r, users', simulations')
  PROVE  /\ handler' \in [Request -> Handler]
         /\ handler'[r] = h /\ \A q \in Request \ {r} : handler'[q] = handler[q]
         /\ \A q \in Request : Backed(handler'[q], q, users', simulations')
         /\ \A s \in simulations : s \in Run /\ handler'[s.id] = handler[s.id]
<1>1. handler \in [Request -> Handler] /\ simulations \subseteq Run
  BY DEF IInv, TypeOK
<1>2. /\ handler' \in [Request -> Handler]
      /\ handler'[r] = h /\ \A q \in Request \ {r} : handler'[q] = handler[q]
  BY <1>1 DEF Keep
<1>3. ASSUME NEW q \in Request, q # r
      PROVE  Backed(handler'[q], q, users', simulations')
  <2>1. Backed(handler[q], q, users, simulations)
    BY DEF IInv
  <2> QED BY <1>2, <1>3, <2>1 DEF Backed, Told
<1>4. ASSUME NEW s \in simulations
      PROVE  s \in Run /\ handler'[s.id] = handler[s.id]
  <2>1. s \in Run /\ s.id \in Request
    BY <1>1 DEF Run
  <2>2. handler[s.id].stage = "answered"
    BY DEF IInv, Stored
  <2> QED BY <1>2, <2>1, <2>2
<1> QED BY <1>2, <1>3, <1>4

(* A handler that only reads: all but the database is as it was. *)
LEMMA Reads ==
  ASSUME IInv, NEW r \in Request, NEW h \in Handler, handler[r].stage # "answered",
         h.stage # "idle", Keep(r, h), UNCHANGED <<users, designs, simulations>>,
         Backed(h, r, users, simulations)
  PROVE  IInv'
<1>1. /\ handler' \in [Request -> Handler]
      /\ handler'[r] = h /\ \A q \in Request \ {r} : handler'[q] = handler[q]
      /\ \A q \in Request : Backed(handler'[q], q, users', simulations')
      /\ \A s \in simulations : s \in Run /\ handler'[s.id] = handler[s.id]
  BY OneHandler
<1>2. TypeOK' /\ Unique'
  BY <1>1 DEF IInv, TypeOK, Unique
<1>3. Owned'
  BY <1>1 DEF IInv, Owned
<1>4. Stored'
  BY <1>1 DEF IInv, Stored
<1> QED BY <1>1, <1>2, <1>3, <1>4 DEF IInv

(* A handler that writes the design it has read, or one that it creates. *)
LEMMA WritesDesign ==
  ASSUME IInv, NEW r \in Request, NEW h \in Handler, handler[r].stage # "answered",
         h.stage # "idle", Keep(r, h), UNCHANGED <<users, simulations>>,
         Backed(h, r, users, simulations),
         NEW d \in DOMAIN Saved \cup {r}, NEW new \in Design \cup {None},
         designs' = [designs EXCEPT ![d] = new],
         d \in DOMAIN Saved /\ new # None => new.owner = Saved[d].owner
  PROVE  IInv'
<1> USE StudioAssumption
<1>1. /\ handler' \in [Request -> Handler]
      /\ handler'[r] = h /\ \A q \in Request \ {r} : handler'[q] = handler[q]
      /\ \A q \in Request : Backed(handler'[q], q, users', simulations')
      /\ \A s \in simulations : s \in Run /\ handler'[s.id] = handler[s.id]
  BY OneHandler
<1>2. designs \in [Id -> Design \cup {None}] /\ d \in Id
  BY DEF IInv, TypeOK
<1>3. /\ designs' \in [Id -> Design \cup {None}]
      /\ designs'[d] = new /\ \A e \in Id \ {d} : designs'[e] = designs[e]
  BY <1>2
<1>4. TypeOK' /\ Unique'
  BY <1>1, <1>3 DEF IInv, TypeOK, Unique
<1>5. Owned'
  <2>1. ASSUME NEW e \in DOMAIN Saved, designs'[e] # None
        PROVE  designs'[e].owner = Saved[e].owner
    BY <1>3, <2>1 DEF IInv, Owned
  <2>2. ASSUME NEW q \in Request, handler'[q].stage = "idle"
        PROVE  designs'[q] = None
    BY <1>1, <1>3, <2>2 DEF IInv, Owned
  <2> QED BY <2>1, <2>2 DEF Owned
<1>6. Stored'
  BY <1>1 DEF IInv, Stored
<1> QED BY <1>1, <1>4, <1>5, <1>6 DEF IInv

(* A handler that answers without having written. *)
LEMMA OnlyAnswers ==
  ASSUME IInv, NEW r \in Request, NEW h \in Handler, NEW status \in Statuses,
         NEW doc \in Design \cup {None}, handler[r].stage # "answered",
         Keep(r, Answered(h, status, doc)), UNCHANGED <<users, designs, simulations>>,
         Told(h, status, r, users, simulations)
  PROVE  IInv'
<1> DEFINE g == Answered(h, status, doc)
<1>1. g \in Handler /\ g.stage = "answered" /\ Backed(g, r, users, simulations)
  BY AnsweredBacked
<1> HIDE DEF g
<1> QED BY <1>1, Reads DEF g

--------------------------------------------------------------------------------
(* The requests that arrive. *)
LEMMA AccountRequests ==
  ASSUME IInv, NEW r \in Request,
         \/ \E e \in Account : RegisterUser(r, e) \/ Login(r, e)
         \/ \E op \in Ops : Unauthenticated(r, op)
         \/ Logout(r)
         \/ \E u \in SignedFor : Me(r, u)
  PROVE  IInv'
<1> USE StudioAssumption
<1>1. users \subseteq User /\ SignedFor \subseteq Person
  BY DEF IInv, TypeOK, SignedFor, User
<1>2. ASSUME NEW e \in Account, RegisterUser(r, e)
      PROVE  IInv'
  <2> DEFINE h == [Idle EXCEPT !.op = "register", !.user = e]
             g == [h EXCEPT !.stage = "hashing"]
  <2>1. h \in Handler /\ g \in Handler
    BY IdleType, Edits DEF AnyOp, Stages
  <2>2. /\ h.op = "register" /\ h.user = e
        /\ g.op = "register" /\ g.user = e /\ g.stage = "hashing" /\ g.status = 0
    BY IdleType DEF Handler
  <2>3. Backed(g, r, users, simulations)
    BY <2>2 DEF Backed, Told
  <2>4. /\ handler[r].stage = "idle" /\ UNCHANGED <<users, designs, simulations>>
        /\ Keep(r, Answered(h, 409, None)) \/ Keep(r, g)
    BY <1>2 DEF RegisterUser
  <2>5. Told(h, 409, r, users, simulations)
    BY <2>2 DEF Told
  <2> HIDE DEF h, g
  <2> QED BY <2>1, <2>2, <2>3, <2>4, <2>5, Codes, OnlyAnswers, Reads
<1>3. ASSUME NEW e \in Account, Login(r, e)
      PROVE  IInv'
  <2> DEFINE found == IF \E u \in users : u.email = e
                      THEN (CHOOSE u \in users : u.email = e).id ELSE None
             h == [Idle EXCEPT !.op = "login", !.user = e]
             g == [h EXCEPT !.stage = "verifying", !.result = found]
  <2>1. found \in Person \cup {None} /\ (found # None => [email |-> e, id |-> found] \in users)
    BY <1>1 DEF User
  <2>2. h \in Handler /\ g \in Handler
    BY <2>1, IdleType, Edits DEF AnyOp, Stages
  <2>3. /\ g.op = "login" /\ g.user = e /\ g.stage = "verifying" /\ g.status = 0
        /\ g.result = found
    BY IdleType DEF Handler
  <2>4. Backed(g, r, users, simulations)
    BY <2>1, <2>3 DEF Backed, Told
  <2> QED BY <1>3, <2>2, <2>3, <2>4, Reads DEF Login
<1>4. ASSUME NEW op \in Ops, Unauthenticated(r, op)
      PROVE  IInv'
  <2> DEFINE h == [Idle EXCEPT !.op = op]
  <2>1. h \in Handler
    BY IdleType, Edits DEF AnyOp
  <2>2. h.op = op /\ h.shown = {}
    BY IdleType DEF Handler
  <2>3. handler[r].stage = "idle" /\ Keep(r, Answered(h, 401, None))
        /\ UNCHANGED <<users, designs, simulations>>
    BY <1>4 DEF Unauthenticated
  <2>4. Told(h, 401, r, users, simulations)
    BY <2>2 DEF Told
  <2> HIDE DEF h
  <2> QED BY <2>1, <2>3, <2>4, Codes, OnlyAnswers
<1>5. CASE Logout(r)
  <2> DEFINE h == [Idle EXCEPT !.op = "logout"]
  <2>1. h \in Handler
    BY IdleType, Edits DEF AnyOp
  <2>2. h.op = "logout"
    BY IdleType DEF Handler
  <2>3. handler[r].stage = "idle" /\ Keep(r, Answered(h, 200, None))
        /\ UNCHANGED <<users, designs, simulations>>
    BY <1>5 DEF Logout
  <2>4. Told(h, 200, r, users, simulations)
    BY <2>2 DEF Told
  <2> HIDE DEF h
  <2> QED BY <2>1, <2>3, <2>4, Codes, OnlyAnswers
<1>6. ASSUME NEW u \in SignedFor, Me(r, u)
      PROVE  IInv'
  <2> DEFINE h == [Idle EXCEPT !.op = "me", !.user = u]
  <2>1. h \in Handler
    BY <1>1, IdleType, Edits DEF AnyOp
  <2>2. h.op = "me"
    BY IdleType DEF Handler
  <2>3. PICK status \in {200, 401} : Keep(r, Answered(h, status, None))
    BY <1>6 DEF Me
  <2>4. handler[r].stage = "idle" /\ UNCHANGED <<users, designs, simulations>>
    BY <1>6 DEF Me
  <2>5. Told(h, status, r, users, simulations)
    BY <2>2 DEF Told
  <2> HIDE DEF h
  <2> QED BY <2>1, <2>3, <2>4, <2>5, Codes, OnlyAnswers
<1> QED BY <1>2, <1>3, <1>4, <1>5, <1>6

LEMMA DesignRequests ==
  ASSUME IInv, NEW r \in Request, NEW u \in SignedFor,
         \/ ListDesigns(r, u) \/ \E id \in Request : GetSimulation(r, u, id)
         \/ \E n \in Name, s \in Shape : CreateDesign(r, u, n, s)
         \/ \E op \in Ops, d \in DOMAIN Saved, n \in Name \cup {None}, s \in Shape \cup {None} :
              LoadDesign(r, op, u, d, n, s)
  PROVE  IInv'
<1> USE StudioAssumption
<1>1. /\ users \subseteq User /\ designs \in [Id -> Design \cup {None}]
      /\ simulations \subseteq Run /\ u \in Person
  BY DEF IInv, TypeOK, SignedFor, User
<1>2. CASE ListDesigns(r, u)
  <2> DEFINE own == {d \in Id : designs[d] # None /\ designs[d].owner = u}
             h == [Idle EXCEPT !.op = "list", !.user = u, !.shown = own]
  <2>1. own \in SUBSET (Id \cup Run)
    OBVIOUS
  <2>2. h \in Handler
    BY <1>1, <2>1, IdleType, Edits DEF AnyOp
  <2>3. h.op = "list"
    BY IdleType DEF Handler
  <2>4. handler[r].stage = "idle" /\ Keep(r, Answered(h, 200, None))
        /\ UNCHANGED <<users, designs, simulations>>
    BY <1>2 DEF ListDesigns
  <2>5. Told(h, 200, r, users, simulations)
    BY <2>3 DEF Told
  <2> HIDE DEF h
  <2> QED BY <2>2, <2>4, <2>5, Codes, OnlyAnswers
<1>3. ASSUME NEW id \in Request, GetSimulation(r, u, id)
      PROVE  IInv'
  <2> DEFINE found == {s \in simulations : s.id = id /\ s.owner = u}
             h == [Idle EXCEPT !.op = "getRun", !.user = u, !.id = id, !.shown = found]
  <2>1. found \in SUBSET (Id \cup Run)
    BY <1>1
  <2>2. h \in Handler
    BY <1>1, <2>1, IdleType, Edits DEF AnyOp
  <2>3. h.op = "getRun" /\ h.user = u /\ h.shown = found
    BY IdleType DEF Handler
  <2>4. PICK status \in {200, 404} : Keep(r, Answered(h, status, None))
    BY <1>3 DEF GetSimulation
  <2>5. handler[r].stage = "idle" /\ UNCHANGED <<users, designs, simulations>>
    BY <1>3 DEF GetSimulation
  <2>6. Told(h, status, r, users, simulations)
    BY <2>3 DEF Told
  <2> HIDE DEF h
  <2> QED BY <2>2, <2>4, <2>5, <2>6, Codes, OnlyAnswers
<1>4. ASSUME NEW n \in Name, NEW s \in Shape, CreateDesign(r, u, n, s)
      PROVE  IInv'
  <2> DEFINE doc == [owner |-> u, name |-> n, design |-> s, ansysStartedAt |-> None]
             h == [Idle EXCEPT !.op = "create", !.user = u, !.id = r]
             g == Answered(h, 201, doc)
  <2>1. doc \in Design
    BY <1>1 DEF Design
  <2>2. h \in Handler
    BY <1>1, IdleType, Edits DEF AnyOp
  <2>3. h.op = "create"
    BY IdleType DEF Handler
  <2>4. g \in Handler /\ g.stage = "answered" /\ Backed(g, r, users, simulations)
    <3>1. Told(h, 201, r, users, simulations)
      BY <2>3 DEF Told
    <3> HIDE DEF h, doc
    <3> QED BY <2>1, <2>2, <3>1, Codes, AnsweredBacked
  <2>5. /\ handler[r].stage # "answered" /\ Keep(r, g) /\ UNCHANGED <<users, simulations>>
        /\ designs' = [designs EXCEPT ![r] = doc] /\ r \notin DOMAIN Saved
    BY <1>4 DEF CreateDesign
  <2> HIDE DEF g, doc
  <2> QED BY <2>1, <2>4, <2>5, WritesDesign
<1>5. ASSUME NEW op \in Ops, NEW d \in DOMAIN Saved, NEW n \in Name \cup {None},
             NEW s \in Shape \cup {None}, LoadDesign(r, op, u, d, n, s)
      PROVE  IInv'
  <2> DEFINE h == [Idle EXCEPT !.op = op, !.user = u, !.id = d, !.name = n, !.shape = s]
  <2>1. /\ handler[r].stage = "idle" /\ UNCHANGED <<users, designs, simulations>>
        /\ op = "update" => n # None /\ s # None
    BY <1>5 DEF LoadDesign
  <2>2. h \in Handler
    BY <1>1, IdleType, Edits DEF AnyOp
  <2>3. /\ h.shown = {} /\ h.status = 0 /\ h.op = op /\ h.user = u
        /\ h.id = d /\ h.name = n /\ h.shape = s
    BY IdleType DEF Handler
  <2>4. \/ Keep(r, Answered(h, 404, None))
        \/ \E doc \in Found(u, d) :
             Keep(r, Answered(h, 200, doc)) \/ Keep(r, [h EXCEPT !.stage = "loaded", !.doc = doc])
    BY <1>5 DEF LoadDesign
  <2>5. Found(u, d) \subseteq Design
    BY <1>1 DEF Found
  <2> HIDE DEF h
  <2>6. ASSUME NEW status \in {200, 404}, NEW doc \in Design \cup {None},
               Keep(r, Answered(h, status, doc))
        PROVE  IInv'
    <3>1. Told(h, status, r, users, simulations)
      BY <2>3 DEF Told, Ops
    <3> QED BY <2>1, <2>2, <2>6, <3>1, Codes, OnlyAnswers
  <2>7. ASSUME NEW doc \in Found(u, d), Keep(r, [h EXCEPT !.stage = "loaded", !.doc = doc])
        PROVE  IInv'
    <3> DEFINE g == [h EXCEPT !.stage = "loaded", !.doc = doc]
    <3>1. doc \in Design /\ doc.owner = u /\ u = Saved[d].owner
      BY <1>1 DEF Found, IInv, Owned
    <3>2. g \in Handler
      BY <2>2, <3>1, Edits DEF Stages
    <3>3. /\ g.stage = "loaded" /\ g.doc = doc /\ g.shown = {} /\ g.status = 0 /\ g.op = op
          /\ g.user = u /\ g.id = d /\ g.name = n /\ g.shape = s
      BY <2>2, <2>3 DEF Handler
    <3>4. Backed(g, r, users, simulations)
      BY <2>1, <3>1, <3>3 DEF Backed, Told, Ops
    <3> HIDE DEF g
    <3> QED BY <2>1, <2>7, <3>2, <3>3, <3>4, Reads DEF g
  <2>8. CASE Keep(r, Answered(h, 404, None))
    BY <2>6, <2>8
  <2>9. CASE \E doc \in Found(u, d) : Keep(r, Answered(h, 200, doc))
    BY <2>5, <2>6, <2>9
  <2> QED BY <2>4, <2>7, <2>8, <2>9
<1> QED BY <1>2, <1>3, <1>4, <1>5

--------------------------------------------------------------------------------
(* The handlers that resume. *)
LEMMA Standing ==
  ASSUME IInv, NEW r \in Request
  PROVE  handler[r] \in Handler /\ Backed(handler[r], r, users, simulations)
BY DEF IInv, TypeOK

(* An error is never more than was known before. *)
LEMMA Failing ==
  ASSUME IInv, NEW r \in Request, Fail(r)
  PROVE  IInv'
<1> DEFINE h == handler[r]
<1>1. h \in Handler /\ Backed(h, r, users, simulations)
  BY Standing
<1>2. /\ h.stage # "answered" /\ Keep(r, Answered(h, 500, None))
      /\ UNCHANGED <<users, designs, simulations>>
  BY DEF Fail, Respond
<1>3. Told(h, 500, r, users, simulations)
  BY <1>1 DEF Backed, Told
<1> HIDE DEF h
<1> QED BY <1>1, <1>2, <1>3, Codes, OnlyAnswers DEF h

LEMMA AccountHandlers ==
  ASSUME IInv, NEW r \in Request,
         InsertUser(r) \/ \E right \in BOOLEAN : VerifyPassword(r, right)
  PROVE  IInv'
<1> DEFINE h == handler[r]
<1>1. h \in Handler /\ Backed(h, r, users, simulations)
  BY Standing
<1>2. ASSUME NEW right \in BOOLEAN, VerifyPassword(r, right)
      PROVE  IInv'
  <2>1. PICK status \in {200, 401} : /\ Keep(r, Answered(h, status, None))
                                     /\ status = 200 => h.result # None
    BY <1>2 DEF VerifyPassword, Respond
  <2>2. h.stage = "verifying" /\ UNCHANGED <<users, designs, simulations>>
    BY <1>2 DEF VerifyPassword
  <2>3. Told(h, status, r, users, simulations)
    BY <1>1, <2>1, <2>2 DEF Backed, Told
  <2> HIDE DEF h
  <2> QED BY <1>1, <2>1, <2>2, <2>3, Codes, OnlyAnswers DEF h
<1>3. CASE InsertUser(r)
  <2>1. h.stage = "hashing" /\ h.op = "register" /\ h.user \in Account
    BY <1>1, <1>3 DEF InsertUser, Backed
  <2>2. CASE \E u \in users : u.email = h.user
    <3>1. Keep(r, Answered(h, 500, None)) /\ UNCHANGED <<users, designs, simulations>>
      BY <1>3, <2>2 DEF InsertUser, Respond
    <3>2. Told(h, 500, r, users, simulations)
      BY <2>1 DEF Told
    <3> HIDE DEF h
    <3> QED BY <1>1, <2>1, <3>1, <3>2, Codes, OnlyAnswers DEF h
  <2>3. CASE ~ \E u \in users : u.email = h.user
    <3> DEFINE u == [email |-> h.user, id |-> r]
               g == Answered(h, 201, None)
    <3>1. /\ users' = users \cup {u} /\ Keep(r, g)
          /\ UNCHANGED <<designs, simulations>>
      BY <1>3, <2>3 DEF InsertUser, Respond
    <3>2. Told(h, 201, r, users', simulations')
      BY <2>1, <3>1 DEF Told
    <3>3. g \in Handler /\ g.stage = "answered" /\ Backed(g, r, users', simulations')
      <4> HIDE DEF h
      <4> QED BY <1>1, <3>2, Codes, AnsweredBacked
    <3>4. u \in User /\ u.email = h.user
      BY <2>1 DEF User, Person
    <3> HIDE DEF g, u
    <3>5. /\ handler' \in [Request -> Handler]
          /\ handler'[r] = g /\ \A q \in Request \ {r} : handler'[q] = handler[q]
          /\ \A q \in Request : Backed(handler'[q], q, users', simulations')
          /\ \A s \in simulations : s \in Run /\ handler'[s.id] = handler[s.id]
      BY <2>1, <3>1, <3>3, OneHandler
    <3>6. TypeOK'
      BY <3>1, <3>4, <3>5 DEF IInv, TypeOK
    <3>7. Unique'
      BY <2>3, <3>1, <3>4 DEF IInv, Unique
    <3>8. Owned'
      BY <3>1, <3>3, <3>5 DEF IInv, Owned
    <3>9. Stored'
      BY <3>1, <3>5 DEF IInv, Stored
    <3> QED BY <3>5, <3>6, <3>7, <3>8, <3>9 DEF IInv
  <2> QED BY <2>2, <2>3
<1> QED BY <1>2, <1>3

(* A field comes from the handler that changed it or from the database. *)
LEMMA Merged ==
  ASSUME NEW new \in Design, NEW old \in Design, NEW now \in Design, new.owner = old.owner
  PROVE  LET doc == [f \in DOMAIN new |-> IF new[f] # old[f] THEN new[f] ELSE now[f]] IN
           doc \in Design /\ doc.owner = now.owner
BY DEF Design

LEMMA Saving ==
  ASSUME IInv, NEW r \in Request, handler[r].stage = "loaded",
         handler[r].op \in {"update", "startAnsys", "cancelAnsys"},
         NEW new \in Design, new.owner = handler[r].doc.owner,
         Save(r, new), UNCHANGED <<users, simulations>>
  PROVE  IInv'
<1> USE StudioAssumption
<1> DEFINE h == handler[r]
           d == h.id
           now == designs[d]
           doc == [f \in DOMAIN new |-> IF new[f] # h.doc[f] THEN new[f] ELSE now[f]]
           g == Answered(h, 200, new)
<1>1. /\ h \in Handler /\ d \in DOMAIN Saved /\ h.doc \in Design
      /\ h.doc.owner = Saved[d].owner
  BY Standing DEF Backed
<1>2. Told(h, 200, r, users, simulations) /\ Told(h, 500, r, users, simulations)
  BY DEF Told
<1>3. CASE now = None
  <2>1. Keep(r, Answered(h, 500, None)) /\ UNCHANGED designs
    BY <1>3 DEF Save, Respond
  <2> HIDE DEF h
  <2> QED BY <1>1, <1>2, <2>1, Codes, OnlyAnswers DEF h
<1>4. CASE now # None
  <2>1. now \in Design /\ now.owner = Saved[d].owner
    BY <1>1, <1>4 DEF IInv, TypeOK, Owned
  <2>2. Keep(r, g) /\ designs' = [designs EXCEPT ![d] = doc]
    BY <1>4 DEF Save, Respond
  <2> HIDE DEF h, now
  <2>3. g \in Handler /\ g.stage = "answered" /\ Backed(g, r, users, simulations)
    BY <1>1, <1>2, Codes, AnsweredBacked
  <2>4. doc \in Design /\ doc.owner = Saved[d].owner
    BY <1>1, <2>1, Merged DEF h
  <2> HIDE DEF doc, g, d
  <2> QED BY <1>1, <2>2, <2>3, <2>4, WritesDesign
<1> QED BY <1>3, <1>4

LEMMA DesignHandlers ==
  ASSUME IInv, NEW r \in Request,
         UpdateDesign(r) \/ StartAnsys(r) \/ CancelAnsys(r) \/ DeleteDesign(r)
  PROVE  IInv'
<1> USE StudioAssumption
<1> DEFINE h == handler[r]
<1>1. h \in Handler /\ h.stage = "loaded" /\ h.doc \in Design /\ h.id \in DOMAIN Saved
  BY Standing DEF Backed, UpdateDesign, StartAnsys, CancelAnsys, DeleteDesign
<1>2. CASE UpdateDesign(r)
  <2> DEFINE new == [h.doc EXCEPT !.name = h.name, !.design = h.shape]
  <2>1. h.op = "update" /\ Save(r, new) /\ UNCHANGED <<users, simulations>>
    BY <1>2 DEF UpdateDesign
  <2>2. h.name \in Name /\ h.shape \in Shape
    BY <1>1, <2>1, Standing DEF Backed
  <2>3. new \in Design /\ new.owner = h.doc.owner
    BY <1>1, <2>2 DEF Design
  <2> HIDE DEF new
  <2> QED BY <1>1, <2>1, <2>3, Saving
<1>3. CASE StartAnsys(r)
  <2> DEFINE new == [h.doc EXCEPT !.ansysStartedAt = r]
  <2>1. h.op = "startAnsys" /\ Save(r, new) /\ UNCHANGED <<users, simulations>>
    BY <1>3 DEF StartAnsys
  <2>2. new \in Design /\ new.owner = h.doc.owner
    BY <1>1 DEF Design
  <2> HIDE DEF new
  <2> QED BY <1>1, <2>1, <2>2, Saving
<1>4. CASE CancelAnsys(r)
  <2> DEFINE new == [h.doc EXCEPT !.ansysStartedAt = None]
  <2>1. h.op = "cancelAnsys" /\ Save(r, new) /\ UNCHANGED <<users, simulations>>
    BY <1>4 DEF CancelAnsys
  <2>2. new \in Design /\ new.owner = h.doc.owner
    BY <1>1 DEF Design
  <2> HIDE DEF new
  <2> QED BY <1>1, <2>1, <2>2, Saving
<1>5. CASE DeleteDesign(r)
  <2> DEFINE d == h.id
             g == Answered(h, 204, None)
  <2>1. /\ h.op = "delete" /\ Keep(r, g) /\ designs' = [designs EXCEPT ![d] = None]
        /\ UNCHANGED <<users, simulations>>
    BY <1>5 DEF DeleteDesign, Respond
  <2>2. Told(h, 204, r, users, simulations)
    BY <2>1 DEF Told
  <2> HIDE DEF h
  <2>3. g \in Handler /\ g.stage = "answered" /\ Backed(g, r, users, simulations)
    BY <1>1, <2>2, Codes, AnsweredBacked
  <2> HIDE DEF g, d
  <2>4. handler[r].stage # "answered" /\ d \in DOMAIN Saved \cup {r}
    BY <1>1 DEF h, d
  <2> QED BY <2>1, <2>3, <2>4, Codes, WritesDesign
<1> QED BY <1>2, <1>3, <1>4, <1>5

LEMMA RunHandlers ==
  ASSUME IInv, NEW r \in Request,
         Prepare(r) \/ CreateSimulation(r) \/ ListSimulations(r)
  PROVE  IInv'
<1> USE StudioAssumption
<1> DEFINE h == handler[r]
<1>1. /\ h \in Handler /\ h.stage \in {"loaded", "prepared"}
      /\ h.doc \in Design /\ h.id \in DOMAIN Saved
      /\ h.user = h.doc.owner /\ h.doc.owner = Saved[h.id].owner
      /\ Told(h, h.status, r, users, simulations)
  BY Standing DEF Backed, Prepare, CreateSimulation, ListSimulations
<1>2. CASE Prepare(r)
  <2> DEFINE g == [h EXCEPT !.stage = "prepared", !.result = h.doc.design]
  <2>1. h.op = "simulate" /\ Keep(r, g) /\ UNCHANGED <<users, designs, simulations>>
    BY <1>2 DEF Prepare
  <2>2. h.doc.design \in Person \cup Shape \cup {None}
    BY <1>1 DEF Design
  <2>3. g \in Handler
    BY <1>1, <2>2, Edits DEF Stages
  <2>4. /\ g.stage = "prepared" /\ g.result = h.doc.design /\ g.op = "simulate"
        /\ g.doc = h.doc /\ g.id = h.id /\ g.user = h.user
    BY <1>1, <2>1 DEF Handler
  <2>5. Backed(g, r, users, simulations)
    BY <1>1, <2>4 DEF Backed, Told, Ops
  <2> HIDE DEF g
  <2> QED BY <1>1, <2>1, <2>3, <2>4, <2>5, Reads
<1>3. CASE ListSimulations(r)
  <2> DEFINE shown == {s \in simulations : s.designId = h.id}
             a == Answered(h, 200, h.doc)
             g == [a EXCEPT !.shown = shown]
  <2>1. h.op = "listRuns" /\ Keep(r, g) /\ UNCHANGED <<users, designs, simulations>>
    BY <1>3 DEF ListSimulations
  <2>2. shown \in SUBSET (Id \cup Run) /\ \A s \in shown : s.owner = h.user
    BY <1>1 DEF IInv, TypeOK, Stored
  <2>3. a \in Handler /\ a.stage = "answered" /\ a.op = "listRuns" /\ a.user = h.user
    <3>1. Told(h, 200, r, users, simulations)
      BY <1>1, <2>1 DEF Told
    <3>2. a \in Handler
      <4> HIDE DEF h
      <4> QED BY <1>1, <3>1, Codes, AnsweredBacked
    <3> QED BY <1>1, <2>1, <3>2 DEF Answered, Handler
  <2> HIDE DEF a
  <2>4. g \in Handler
    BY <2>2, <2>3, Edits
  <2>5. g.stage = "answered" /\ g.op = "listRuns" /\ g.user = h.user /\ g.shown = shown
    BY <2>3 DEF Handler
  <2>6. Backed(g, r, users, simulations)
    BY <2>2, <2>5 DEF Backed, Told
  <2> HIDE DEF g
  <2> QED BY <1>1, <2>1, <2>4, <2>5, <2>6, Reads
<1>4. CASE CreateSimulation(r)
  <2> DEFINE s == [id |-> r, owner |-> h.user, designId |-> h.id,
                   inputSnapshot |-> h.doc.design, result |-> h.result]
             g == Answered(h, 201, h.doc)
  <2>1. /\ h.op = "simulate" /\ h.result = h.doc.design
        /\ simulations' = simulations \cup {s} /\ Keep(r, g) /\ UNCHANGED <<users, designs>>
    BY <1>4, Standing DEF Backed, CreateSimulation, Respond
  <2>2. /\ s \in Run /\ s.id = r /\ s.designId = h.id /\ s.owner = h.doc.owner
        /\ s.inputSnapshot = h.doc.design /\ s.result = h.doc.design
    BY <1>1, <2>1 DEF Run, Design
  <2>3. Told(h, 201, r, users', simulations')
    BY <2>1 DEF Told
  <2>4. /\ g \in Handler /\ g.stage = "answered" /\ g.doc = h.doc
        /\ Backed(g, r, users', simulations')
    <3> HIDE DEF h
    <3> QED BY <1>1, <2>3, Codes, AnsweredBacked
  <2> HIDE DEF s, g
  <2>5. /\ handler' \in [Request -> Handler]
        /\ handler'[r] = g /\ \A q \in Request \ {r} : handler'[q] = handler[q]
        /\ \A q \in Request : Backed(handler'[q], q, users', simulations')
        /\ \A t \in simulations : t \in Run /\ handler'[t.id] = handler[t.id]
    BY <1>1, <2>1, <2>4, OneHandler
  <2>6. TypeOK' /\ Unique'
    BY <2>1, <2>2, <2>5 DEF IInv, TypeOK, Unique
  <2>7. Owned'
    BY <2>1, <2>4, <2>5 DEF IInv, Owned
  <2>8. Stored'
    <3>1. ASSUME NEW t \in simulations
          PROVE  LET k == handler'[t.id] IN
                   /\ k.stage = "answered"
                   /\ t.designId \in DOMAIN Saved /\ t.owner = Saved[t.designId].owner
                   /\ t.result = t.inputSnapshot /\ t.inputSnapshot = k.doc.design
                   /\ t.owner = k.doc.owner
      BY <2>5 DEF IInv, Stored
    <3> QED BY <1>1, <2>1, <2>2, <2>4, <2>5, <3>1 DEF Stored
  <2> QED BY <2>5, <2>6, <2>7, <2>8 DEF IInv
<1> QED BY <1>2, <1>3, <1>4

--------------------------------------------------------------------------------
LEMMA NextInv == IInv /\ [Next]_vars => IInv'
<1> SUFFICES ASSUME IInv, [Next]_vars PROVE IInv'
  OBVIOUS
<1>1. CASE UNCHANGED vars
  BY <1>1 DEF vars, IInv, TypeOK, Unique, Owned, Stored, Backed, Told
<1>2. ASSUME NEW r \in Request, Arrive(r)
      PROVE  IInv'
  BY <1>2, AccountRequests, DesignRequests DEF Arrive
<1>3. ASSUME NEW r \in Request, Resume(r)
      PROVE  IInv'
  BY <1>3, AccountHandlers, DesignHandlers, RunHandlers, Failing DEF Resume
<1> QED BY <1>1, <1>2, <1>3 DEF Next

LEMMA Invariance == Spec => []IInv
BY InitInv, NextInv, PTL DEF Spec

(* Every variable keeps its type: StudioServer's whole state. *)
THEOREM TypeCorrect == Spec => []TypeOK
<1>1. IInv => TypeOK
  BY DEF IInv
<1> QED BY <1>1, Invariance, PTL

(* registerUser(), create() on the unique index and authenticateUser(): one account per     *)
(* address, whose creator alone is told so and for whom alone a login is signed.           *)
THEOREM AccountsAreUnique == Spec => []OneAccountPerEmail
<1>1. IInv => OneAccountPerEmail
  BY DEF IInv, Unique, Backed, Told, OneAccountPerEmail
<1> QED BY <1>1, Invariance, PTL

(* runSimulation(), listSimulations() and getSimulation(): a stored result is that of its   *)
(* own snapshot, of a design its owner's request did read, and it is shown as stored, to    *)
(* that owner alone.                                                                      *)
THEOREM SnapshotsMatch == Spec => []SnapshotMatchesResult
<1>1. IInv => SnapshotMatchesResult
  BY DEF IInv, Stored, Backed, Told, SnapshotMatchesResult
<1> QED BY <1>1, Invariance, PTL

--------------------------------------------------------------------------------
(* What SavesStayApart says of a step. *)
Apart ==
  /\ \A d \in Id : designs[d] # None /\ designs'[d] # None =>
       /\ designs'[d].ansysStartedAt # designs[d].ansysStartedAt
            => Steps("startAnsys", d) \/ Steps("cancelAnsys", d)
       /\ (designs'[d].name # designs[d].name \/ designs'[d].design # designs[d].design)
            => Steps("update", d)
  /\ \A d \in DOMAIN Saved : designs[d] = None => designs'[d] = None

LEMMA SavingApart ==
  ASSUME IInv, NEW r \in Request, handler[r].stage = "loaded",
         NEW new \in Design, Save(r, new),
         \/ handler[r].op = "update" /\ new.ansysStartedAt = handler[r].doc.ansysStartedAt
         \/ /\ handler[r].op \in {"startAnsys", "cancelAnsys"}
            /\ new.name = handler[r].doc.name /\ new.design = handler[r].doc.design
  PROVE  Apart
<1> USE StudioAssumption
<1> DEFINE h == handler[r]
           d == h.id
           now == designs[d]
           doc == [f \in DOMAIN new |-> IF new[f] # h.doc[f] THEN new[f] ELSE now[f]]
<1>1. /\ h \in Handler /\ d \in DOMAIN Saved /\ d \in Id /\ h.doc \in Design
      /\ designs \in [Id -> Design \cup {None}] /\ handler \in [Request -> Handler]
  BY Standing DEF Backed, IInv, TypeOK
<1>2. CASE now = None
  BY <1>1, <1>2 DEF Save, Apart
<1>3. CASE now # None
  <2>1. Keep(r, Answered(h, 200, new)) /\ designs' = [designs EXCEPT ![d] = doc]
    BY <1>3 DEF Save, Respond
  <2>2. handler'[r].stage = "answered"
    BY <1>1, <2>1 DEF Keep, Answered, Handler
  <2>3. /\ new.name = h.doc.name => doc.name = now.name
        /\ new.design = h.doc.design => doc.design = now.design
        /\ new.ansysStartedAt = h.doc.ansysStartedAt => doc.ansysStartedAt = now.ansysStartedAt
    <3>1. now \in Design
      BY <1>1, <1>3
    <3> HIDE DEF h, now
    <3> QED BY <1>1, <3>1 DEF Design
  <2> HIDE DEF doc
  <2>4. designs'[d] = doc /\ \A e \in Id \ {d} : designs'[e] = designs[e]
    BY <1>1, <2>1
  <2>5. h.op = "update" => Steps("update", d)
    BY <2>2 DEF Steps
  <2>6. h.op \in {"startAnsys", "cancelAnsys"} => Steps("startAnsys", d) \/ Steps("cancelAnsys", d)
    BY <2>2 DEF Steps
  <2>7. ASSUME NEW e \in Id, designs[e] # None, designs'[e] # None
        PROVE  /\ designs'[e].ansysStartedAt # designs[e].ansysStartedAt
                    => Steps("startAnsys", e) \/ Steps("cancelAnsys", e)
               /\ (designs'[e].name # designs[e].name \/ designs'[e].design # designs[e].design)
                    => Steps("update", e)
    <3>1. CASE e # d
      BY <2>4, <3>1
    <3>2. CASE e = d
      BY <2>3, <2>4, <2>5, <2>6, <3>2
    <3> QED BY <3>1, <3>2
  <2>8. \A e \in DOMAIN Saved : designs[e] = None => designs'[e] = None
    BY <1>3, <2>4
  <2> QED BY <2>7, <2>8 DEF Apart
<1> QED BY <1>2, <1>3

LEMMA StepsApart == IInv /\ [Next]_vars => Apart
<1> SUFFICES ASSUME IInv, [Next]_vars PROVE Apart
  OBVIOUS
<1> USE StudioAssumption
<1>1. UNCHANGED designs => Apart
  BY DEF Apart
<1>2. CASE UNCHANGED vars
  BY <1>1, <1>2 DEF vars
<1>3. ASSUME NEW r \in Request, Arrive(r)
      PROVE  Apart
  <2>1. CASE UNCHANGED designs
    BY <1>1, <2>1
  <2>2. ASSUME NEW u \in SignedFor, NEW n \in Name, NEW s \in Shape, CreateDesign(r, u, n, s)
        PROVE  Apart
    <3>1. designs \in [Id -> Design \cup {None}] /\ r \in Id /\ r \notin DOMAIN Saved
      BY DEF IInv, TypeOK
    <3>2. designs[r] = None /\ \A d \in Id \ {r} : designs'[d] = designs[d]
      BY <2>2, <3>1 DEF CreateDesign, IInv, Owned
    <3> QED BY <3>1, <3>2 DEF Apart
  <2>3. \A e \in Account : RegisterUser(r, e) \/ Login(r, e) => UNCHANGED designs
    BY DEF RegisterUser, Login
  <2>4. /\ \A op \in Ops : Unauthenticated(r, op) => UNCHANGED designs
        /\ Logout(r) => UNCHANGED designs
    BY DEF Unauthenticated, Logout
  <2>5. \A u \in SignedFor : /\ Me(r, u) \/ ListDesigns(r, u) => UNCHANGED designs
                            /\ \A id \in Request : GetSimulation(r, u, id) => UNCHANGED designs
    BY DEF Me, ListDesigns, GetSimulation
  <2>6. ASSUME NEW op, NEW u, NEW d, NEW n, NEW s, LoadDesign(r, op, u, d, n, s)
        PROVE  UNCHANGED designs
    BY <2>6, Zenon DEF LoadDesign
  <2> QED BY <1>3, <2>1, <2>2, <2>3, <2>4, <2>5, <2>6 DEF Arrive
<1>4. ASSUME NEW r \in Request, Resume(r)
      PROVE  Apart
  <2> DEFINE h == handler[r]
  <2>1. h.stage = "loaded" => h.doc \in Design /\ h.id \in DOMAIN Saved
    BY Standing DEF Backed
  <2>2. CASE UpdateDesign(r)
    <3>1. h.stage = "loaded" /\ h.op = "update" /\ h.doc \in Design /\ h.name \in Name /\ h.shape \in Shape
      BY <2>1, <2>2, Standing DEF UpdateDesign, Backed
    <3> DEFINE new == [h.doc EXCEPT !.name = h.name, !.design = h.shape]
    <3>2. new \in Design /\ new.ansysStartedAt = h.doc.ansysStartedAt
      BY <3>1 DEF Design
    <3>3. Save(r, new)
      BY <2>2 DEF UpdateDesign
    <3> HIDE DEF new
    <3> QED BY <3>1, <3>2, <3>3, SavingApart
  <2>3. ASSUME NEW start \in Request \cup {None}, h.stage = "loaded",
               h.op \in {"startAnsys", "cancelAnsys"},
               Save(r, [h.doc EXCEPT !.ansysStartedAt = start])
        PROVE  Apart
    <3> DEFINE new == [h.doc EXCEPT !.ansysStartedAt = start]
    <3>1. new \in Design /\ new.name = h.doc.name /\ new.design = h.doc.design
      BY <2>1, <2>3 DEF Design
    <3>2. Save(r, new)
      BY <2>3
    <3> HIDE DEF new
    <3> QED BY <2>3, <3>1, <3>2, SavingApart
  <2>4. CASE StartAnsys(r)
    BY <2>3, <2>4 DEF StartAnsys
  <2>5. CASE CancelAnsys(r)
    BY <2>3, <2>5 DEF CancelAnsys
  <2>6. CASE DeleteDesign(r)
    <3>1. designs \in [Id -> Design \cup {None}] /\ h.id \in Id
      BY <2>1, <2>6 DEF IInv, TypeOK, DeleteDesign
    <3>2. designs'[h.id] = None /\ \A d \in Id \ {h.id} : designs'[d] = designs[d]
      BY <2>6, <3>1 DEF DeleteDesign
    <3> HIDE DEF h
    <3> QED BY <3>1, <3>2 DEF Apart
  <2>7. CASE \/ InsertUser(r) \/ (\E right \in BOOLEAN : VerifyPassword(r, right))
             \/ Prepare(r) \/ CreateSimulation(r) \/ ListSimulations(r) \/ Fail(r)
    BY <1>1, <2>7 DEF InsertUser, VerifyPassword, Prepare, CreateSimulation, ListSimulations, Fail
  <2> QED BY <1>4, <2>2, <2>4, <2>5, <2>6, <2>7 DEF Resume
<1> QED BY <1>2, <1>3, <1>4 DEF Next

(* updateDesign(), startAnsys(), cancelAnsys() and deleteDesign(): overlapping saves of one *)
(* design write the fields of their own alone, and none brings a deleted design back.      *)
THEOREM SavesDoNotMix == Spec => SavesStayApart
<1>1. IInv /\ [Next]_vars => [Apart]_vars
  BY StepsApart
<1> QED BY <1>1, Invariance, PTL DEF Spec, SavesStayApart, Apart
================================================================================
