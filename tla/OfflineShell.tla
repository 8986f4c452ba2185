------------------------------- MODULE OfflineShell -------------------------------
(* The web app's service worker (public/sw.js, registered by _pwa-register.tsx): the page  *)
(* and its data come from the network and are kept, the build's hashed chunks are kept    *)
(* for good.  The server is deployed anew meanwhile and has the chunks of its build only;  *)
(* a network that fails fails one request or many.                                        *)
EXTENDS Naturals, Sequences

CONSTANTS CacheVersion, \* CacheVersion[b]: CACHE_VERSION in the sw.js of build b
          Parts,        \* the chunks of a build
          MaxLoads      \* bound

VARIABLES live,    \* the build the server has
          caches,  \* in the order they were opened
          worker,  \* the version that is active and the one that installs, or 0
          tab      \* the document that is open

shellVars == <<live, caches, worker, tab>>

Builds == DOMAIN CacheVersion
ShellInit ==
  /\ live = 1 /\ caches = << >> /\ worker = [active |-> 0, installing |-> 0, installed |-> FALSE]
  /\ tab = [state |-> "none", document |-> 0, got |-> {}, loads |-> 0, calm |-> TRUE, asked |-> 0]

(* caches.open(name) and cache.put(): not awaited, so it may never come to it.             *)
Opened(name) ==
  IF \E i \in DOMAIN caches : caches[i].name = name THEN caches
  ELSE Append(caches, [name |-> name, document |-> 0, chunks |-> {}])
Put(name, document, chunks) ==
  LET opened == Opened(name)
  IN [i \in DOMAIN opened |->
        IF opened[i].name # name THEN opened[i]
        ELSE [opened[i] EXCEPT !.document = IF document = 0 THEN @ ELSE document, !.chunks = @ \cup chunks]]

(* caches.match(): the first cache that has it.                                            *)
CachedDocument ==
  LET with == SelectSeq(caches, LAMBDA cache : cache.document # 0)
  IN IF with = << >> THEN 0 ELSE with[1].document
CachedChunk(chunk) == \E i \in DOMAIN caches : chunk \in caches[i].chunks

Loads(build, up) ==
  tab' = [tab EXCEPT !.state = IF build = 0 THEN "none" ELSE "loading", !.document = build,
                     !.got = {}, !.loads = @ + 1, !.calm = up, !.asked = live]

(* The document: networkFirst() once a worker is active.                                   *)
NavigateCached(up) ==
  /\ tab.loads < MaxLoads
  /\ IF worker.active # 0 /\ CachedDocument # 0 THEN Loads(CachedDocument, up) /\ UNCHANGED caches
     ELSE /\ Loads(IF up THEN live ELSE 0, up)
          /\ caches' \in {caches} \cup (IF up /\ worker.active # 0 THEN {Put(worker.active, live, {})} ELSE {})
  /\ UNCHANGED <<live, worker>>
Navigate(up) ==
  /\ tab.loads < MaxLoads
  /\ IF up
     THEN /\ Loads(live, up)
          /\ caches' \in {caches} \cup (IF worker.active # 0 THEN {Put(worker.active, live, {})} ELSE {})
     ELSE Loads(IF worker.active # 0 THEN CachedDocument ELSE 0, up) /\ UNCHANGED caches
  /\ UNCHANGED <<live, worker>>

(* A chunk: cacheFirst().                                                                  *)
Fetch(part, up) ==
  LET chunk == <<tab.document, part>>
      cached == worker.active # 0 /\ CachedChunk(chunk)
      served == up /\ tab.document = live
      got == IF cached \/ served THEN tab.got \cup {part} ELSE tab.got
  IN /\ tab.state = "loading" /\ part \notin tab.got
     /\ tab' = [tab EXCEPT !.got = got, !.calm = @ /\ up,
                           !.state = IF part \notin got THEN "broken" ELSE IF got = Parts THEN "whole" ELSE @]
     /\ caches' \in {caches} \cup (IF worker.active # 0 /\ ~cached /\ served
                                   THEN {Put(worker.active, 0, {chunk})} ELSE {})
     /\ UNCHANGED <<live, worker>>

(* register(), once the page is up: sw.js is compared with the worker there is.            *)
Register ==
  /\ tab.state = "whole" /\ worker.installing = 0 /\ CacheVersion[live] # worker.active
  /\ worker' = [worker EXCEPT !.installing = CacheVersion[live], !.installed = FALSE]
  /\ UNCHANGED <<live, caches, tab>>
(* install: all of PRECACHE_URLS, or none and no worker.                                   *)
Install ==
  /\ worker.installing # 0 /\ ~worker.installed
  /\ caches' = Put(worker.installing, live, {}) /\ worker' = [worker EXCEPT !.installed = TRUE]
  /\ UNCHANGED <<live, tab>>
InstallFails ==
  /\ worker.installing # 0 /\ ~worker.installed /\ worker' = [worker EXCEPT !.installing = 0]
  /\ caches' = Opened(worker.installing)
  /\ UNCHANGED <<live, tab>>
(* activate: the other caches go, the open page is claimed.                                *)
Activate ==
  /\ worker.installed
  /\ caches' = SelectSeq(caches, LAMBDA cache : cache.name = worker.installing)
  /\ worker' = [active |-> worker.installing, installing |-> 0, installed |-> FALSE]
  /\ UNCHANGED <<live, tab>>

Deploy ==
  /\ live + 1 \in Builds /\ live' = live + 1
  /\ tab' = [tab EXCEPT !.calm = @ /\ tab.state # "loading"]
  /\ UNCHANGED <<caches, worker>>

ShellNext ==
  \/ \E up \in BOOLEAN : Navigate(up) \/ \E part \in Parts : Fetch(part, up)
  \/ Register \/ Install \/ InstallFails \/ Activate \/ Deploy

ShellSpec == ShellInit /\ [][ShellNext]_shellVars

--------------------------------------------------------------------------------
(* sw.js 16-26: a load during which the server can be reached, and is not deployed anew,   *)
(* shows the build the server had, whole - whatever builds and versions the caches hold.  *)
CalmLoadIsLive ==
  tab.calm /\ tab.loads > 0 => tab.document = tab.asked /\ tab.state \in {"loading", "whole"}
================================================================================
