--------------------------- MODULE FrontendCache ---------------------------
(***************************************************************************)
(* src/src/frontend/cache.rs: the middleware around the file service, with *)
(* browsers that cache what it sends them.  Resource 0 is the entry        *)
(* document, resource r the asset of release r under /static/.  Validators *)
(* do not distinguish releases (reproducible builds normalise the mtimes), *)
(* so a conditional request the file service gets to see is always met.    *)
(***************************************************************************)
EXTENDS FrontendRoot

VARIABLES
  req,            \* the exchange each browser has under way
  store,          \* what each browser keeps, by resource
  page            \* the release of the entry document each browser shows

cacheVars == <<req, store, page>>

Resources == 0..MaxRelease
Conditions == {"none", "match", "unmodified"}
Statuses == {"ok", "not_modified", "error"}
Controls == {"immutable", "no-store"}

\* An exchange: `since' is the release on disk when it was sent, `body' the
\* release of the content (0: none).
Exchange == [stage : {"idle", "sent", "answered"}, get : BOOLEAN, res : Resources,
             cond : Conditions, since : Releases, status : Statuses,
             body : Resources, control : Controls]

Idle == [stage |-> "idle", get |-> TRUE, res |-> 0, cond |-> "none", since |-> 1,
         status |-> "ok", body |-> 0, control |-> "no-store"]

\* A stored response has to be validated before use, or never again.
Kept == [kind : {"none", "validate", "immutable"}, body : Resources]
Nothing == [kind |-> "none", body |-> 0]

\* A browser may hold the entry document and the asset of release 1 from
\* before the middleware was in place, to be validated.
CacheInit ==
  /\ req = [c \in Clients |-> Idle]
  /\ page = [c \in Clients |-> 1]
  /\ store \in [Clients -> {[x \in Resources |-> IF x \in old THEN [kind |-> "validate", body |-> 1]
                                                 ELSE Nothing] : old \in SUBSET {0, 1}}]

IsImmutable(get, res) == get /\ res # 0

\* Mutant: the middleware leaves the conditions of every request alone.
ForwardedAlways(get, res, cond) == cond

\* The condition as the file service gets it: removed, unless the resource
\* never changes.
Forwarded(get, res, cond) == IF IsImmutable(get, res) THEN cond ELSE "none"

\* What the file service answers.
Content(res) == IF res = 0 THEN entry ELSE IF res \in assets THEN res ELSE 0

ServedStatus(get, res, cond) ==
  IF ~get \/ Content(res) = 0 \/ cond = "unmodified" THEN "error"
  ELSE IF cond = "match" THEN "not_modified" ELSE "ok"

\* Mutant: every response below /static/ is immutable, whatever its status.
CacheControlOfPath(get, res, status) ==
  IF IsImmutable(get, res) THEN "immutable" ELSE "no-store"

CacheControl(get, res, status) ==
  IF IsImmutable(get, res) /\ status \in {"ok", "not_modified"} THEN "immutable" ELSE "no-store"

\* A browser asks, unless it holds an immutable response; it validates what
\* else it holds, and may demand that nothing has changed.
Send(c, get, res, cond) ==
  /\ req[c].stage = "idle"
  /\ store[c][res].kind # "immutable"
  /\ cond = "match" => store[c][res].kind = "validate"
  /\ req' = [req EXCEPT ![c] = [Idle EXCEPT !.stage = "sent", !.get = get, !.res = res,
                                            !.cond = cond, !.since = entry]]
  /\ UNCHANGED <<store, page>>

\* The usual request of a browser: valid as of what it holds.
Fetch(c, res) ==
  Send(c, TRUE, res, IF store[c][res].kind = "validate" THEN "match" ELSE "none")

\* set(): the request goes through the middleware to the files and back.
Set(c) ==
  /\ req[c].stage = "sent"
  /\ LET q == req[c]
         status == ServedStatus(q.get, q.res, Forwarded(q.get, q.res, q.cond))
     IN req' = [req EXCEPT ![c].stage = "answered", ![c].status = status,
                           ![c].body = IF status = "ok" THEN Content(q.res) ELSE 0,
                           ![c].control = CacheControl(q.get, q.res, status)]
  /\ UNCHANGED <<store, page>>

\* What a cache makes of a response.
Updated(old, q) ==
  CASE q.status = "ok" ->
         IF q.control = "immutable" THEN [kind |-> "immutable", body |-> q.body] ELSE Nothing
    [] q.status = "not_modified" ->
         IF q.control = "immutable" THEN [old EXCEPT !.kind = "immutable"] ELSE old
    [] OTHER -> IF q.control = "immutable" THEN [kind |-> "immutable", body |-> 0] ELSE old

Receive(c) ==
  /\ req[c].stage = "answered"
  /\ LET q == req[c] IN
     /\ store' = [store EXCEPT ![c][q.res] = Updated(@, q)]
     /\ page' = [page EXCEPT ![c] = CASE q.res # 0 \/ q.status = "error" -> @
                                      [] q.res = 0 /\ q.status = "ok" -> q.body
                                      [] OTHER -> store[c][0].body]
  /\ req' = [req EXCEPT ![c] = Idle]

CacheNext ==
  \E c \in Clients :
    \/ \E get \in BOOLEAN, res \in Resources, cond \in Conditions : Send(c, get, res, cond)
    \/ Set(c)
    \/ Receive(c)

\* The directory with its first release, and browsers that may know it.
CacheRootInit == RootInit /\ CacheInit

CacheSpec ==
  /\ CacheRootInit
  /\ [][(CacheNext /\ UNCHANGED root) \/ (RootNext /\ UNCHANGED cacheVars)]_<<root, cacheVars>>

CacheTypeOK ==
  /\ req \in [Clients -> Exchange]
  /\ store \in [Clients -> [Resources -> Kept]]
  /\ page \in [Clients -> Releases]

-----------------------------------------------------------------------------
\* An entry document that is shown was on disk when it was asked for, or came
\* later: whatever a browser kept and however deployments fall into the
\* exchange, no conditional request revives an older release (cache.rs:34-39).
FreshEntry ==
  [][\A c \in Clients :
       (Receive(c) /\ req[c].res = 0 /\ req[c].status # "error") => page'[c] >= req[c].since
    ]_<<root, cacheVars>>

\* What is kept for good is the content of an asset, whole and of its own
\* release: never the entry document, never the answer to a request that came
\* before the asset was published, after it was withdrawn or on a failed
\* condition (cache.rs:42-49).
OnlyAssetsStick ==
  \A c \in Clients, res \in Resources :
    store[c][res].kind = "immutable" => res # 0 /\ store[c][res].body = res
=============================================================================
