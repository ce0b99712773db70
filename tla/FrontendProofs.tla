--------------------------- MODULE FrontendProofs ---------------------------
(***************************************************************************)
(* The frontend, for any number of browsers and releases: what the cache   *)
(* policy of cache.rs lets a browser keep and show, however deployments    *)
(* interleave with its requests, and the version header against it.        *)
(***************************************************************************)
EXTENDS Frontend, TLAPS

-----------------------------------------------------------------------------
(* The cache policy.                                                       *)

\* Releases only go forward.
RootOK == entry \in Releases /\ assets \subseteq Releases

\* What is kept of an asset is the asset, and the entry document is not kept
\* for good.
StoreOK ==
  \A c \in Clients, res \in Resources :
    /\ res # 0 /\ store[c][res].kind # "none" => store[c][res].body = res
    /\ store[c][res].kind = "immutable" => res # 0

\* A request under way was sent no later than now, and one that is conditional
\* on a stored response still has it.
RequestOK(q, kept) ==
  q.stage # "idle" => /\ q.since <= entry
                      /\ q.cond = "match" => kept[q.res].kind = "validate"

\* What the answers through the middleware can be.
AnswerOK(q) ==
  q.stage = "answered" =>
    /\ q.res = 0 => q.control = "no-store" /\ q.status # "not_modified"
    /\ q.control = "immutable" => q.status # "error"
    /\ q.status = "ok" => /\ q.res # 0 => q.body = q.res
                          /\ q.res = 0 => q.body \in Releases /\ q.since <= q.body
    /\ q.status = "not_modified" => q.cond = "match"

ExchangesOK == \A c \in Clients : RequestOK(req[c], store[c]) /\ AnswerOK(req[c])

CacheInv == RootOK /\ CacheTypeOK /\ StoreOK /\ ExchangesOK

CacheStep == CacheNext /\ UNCHANGED root
DeployStep == RootNext /\ UNCHANGED cacheVars

LEMMA ResourceSets == 0 \in Resources /\ 1 \in Releases /\ Releases = Resources \ {0} /\ Releases \subseteq Nat
  BY RootAssumption DEF Resources, Releases

LEMMA CacheInitInv == RootInit /\ CacheInit => CacheInv
<1> SUFFICES ASSUME RootInit, CacheInit PROVE CacheInv
  OBVIOUS
<1> USE RootAssumption DEF RootInit, CacheInit
<1>1. RootOK
  BY DEF RootOK, Releases
<1>2. CacheTypeOK
  <2>1. Idle \in Exchange
    BY DEF Idle, Exchange, Resources, Releases, Conditions, Statuses, Controls
  <2>2. \A old : [x \in Resources |-> IF x \in old THEN [kind |-> "validate", body |-> 1] ELSE Nothing]
                   \in [Resources -> Kept]
    BY DEF Kept, Nothing, Resources
  <2> QED
    BY <2>1, <2>2 DEF CacheTypeOK, Releases
<1>3. StoreOK
  BY DEF StoreOK, Nothing, Resources
<1>4. ExchangesOK
  BY DEF ExchangesOK, RequestOK, AnswerOK, Idle
<1> QED
  BY <1>1, <1>2, <1>3, <1>4 DEF CacheInv

\* Deployments do not disturb what browsers have.
LEMMA DeployStepInv == CacheInv /\ DeployStep => CacheInv'
<1> SUFFICES ASSUME CacheInv, DeployStep PROVE CacheInv'
  OBVIOUS
<1>1. RootOK' /\ entry <= entry'
  BY RootAssumption DEF CacheInv, DeployStep, RootOK, RootNext, SwapRoot, WriteEntry, WriteManifest, PublishAsset,
                        WithdrawAsset, Releases
<1>2. req' = req /\ store' = store /\ page' = page
  BY DEF DeployStep, cacheVars
<1>3. ASSUME NEW c \in Clients PROVE RequestOK(req[c], store[c])'
  <2>1. req[c].since \in Nat /\ entry \in Nat /\ entry' \in Nat
    BY <1>1 DEF CacheInv, RootOK, CacheTypeOK, Exchange, Releases
  <2> QED
    BY <1>1, <1>2, <2>1 DEF CacheInv, ExchangesOK, RequestOK
<1> QED
  BY <1>1, <1>2, <1>3 DEF CacheInv, CacheTypeOK, StoreOK, ExchangesOK, AnswerOK

\* The answer set() builds.
LEMMA SetAnswers ==
  ASSUME CacheInv, NEW c \in Clients, Set(c)
  PROVE  /\ req' \in [Clients -> Exchange]
         /\ AnswerOK(req'[c]) /\ RequestOK(req'[c], store[c])
         /\ \A d \in Clients \ {c} : req'[d] = req[d]
<1> DEFINE q == req[c]
           status == ServedStatus(q.get, q.res, Forwarded(q.get, q.res, q.cond))
           control == CacheControl(q.get, q.res, status)
           body == IF status = "ok" THEN Content(q.res) ELSE 0
           answer == [q EXCEPT !.stage = "answered", !.status = status, !.body = body, !.control = control]
<1>1. q \in Exchange /\ q.stage = "sent" /\ req' = [req EXCEPT ![c] = answer]
  BY DEF CacheInv, CacheTypeOK, Set
<1>2. status \in Statuses /\ control \in Controls
  BY DEF ServedStatus, CacheControl, Statuses, Controls
<1>3. Content(q.res) \in Resources /\ (q.res = 0 => Content(q.res) = entry) /\ entry \in Releases
  BY <1>1, ResourceSets DEF CacheInv, RootOK, Content, Exchange
<1>4. answer \in Exchange
  <2>1. body \in Resources
    BY <1>3, ResourceSets
  <2> HIDE DEF status, control, body
  <2> QED
    BY <1>1, <1>2, <2>1 DEF Exchange
<1>5. AnswerOK(answer)
  <2>1. q.res = 0 => control = "no-store" /\ status # "not_modified"
    BY DEF CacheControl, IsImmutable, Forwarded, ServedStatus
  <2>2. control = "immutable" => status # "error"
    BY DEF CacheControl
  <2>3. status = "ok" => body = Content(q.res) /\ Content(q.res) # 0
    BY DEF ServedStatus
  <2>4. q.res # 0 /\ Content(q.res) # 0 => Content(q.res) = q.res
    BY DEF Content
  <2>5. status = "not_modified" => q.cond = "match"
    BY DEF ServedStatus, Forwarded
  <2>6. q.since <= entry
    BY <1>1 DEF CacheInv, ExchangesOK, RequestOK
  <2> HIDE DEF status, control, body
  <2> QED
    BY <1>1, <1>3, <2>1, <2>2, <2>3, <2>4, <2>5, <2>6 DEF AnswerOK, Exchange
<1>6. RequestOK(answer, store[c])
  BY <1>1 DEF CacheInv, ExchangesOK, RequestOK, Exchange
<1> HIDE DEF answer
<1>7. req'[c] = answer /\ \A d \in Clients \ {c} : req'[d] = req[d]
  BY <1>1 DEF CacheInv, CacheTypeOK
<1> QED
  BY <1>1, <1>4, <1>5, <1>6, <1>7 DEF CacheInv, CacheTypeOK

\* What a browser makes of an answer.
LEMMA ReceiveUpdates ==
  ASSUME CacheInv, NEW c \in Clients, Receive(c)
  PROVE  /\ store' \in [Clients -> [Resources -> Kept]]
         /\ page' \in [Clients -> Releases]
         /\ StoreOK'
         /\ \A d \in Clients \ {c} : store'[d] = store[d]
<1> DEFINE q == req[c]
           old == store[c][q.res]
           new == Updated(old, q)
<1>1. q \in Exchange /\ q.stage = "answered" /\ q.res \in Resources /\ old \in Kept
  BY DEF CacheInv, CacheTypeOK, Receive, Exchange
<1>2. AnswerOK(q) /\ RequestOK(q, store[c])
  BY DEF CacheInv, ExchangesOK
<1>3. new \in Kept
  <2>1. q.body \in Resources /\ 0 \in Resources
    BY <1>1, ResourceSets DEF Exchange
  <2>2. Nothing \in Kept /\ \A b \in Resources : [kind |-> "immutable", body |-> b] \in Kept
    BY ResourceSets DEF Nothing, Kept
  <2>3. [old EXCEPT !.kind = "immutable"] \in Kept
    BY <1>1 DEF Kept
  <2> QED
    BY <1>1, <2>1, <2>2, <2>3 DEF Updated
<1>4. /\ q.res # 0 /\ new.kind # "none" => new.body = q.res
      /\ new.kind = "immutable" => q.res # 0
  <2>1. /\ q.res # 0 /\ old.kind # "none" => old.body = q.res
        /\ old.kind = "immutable" => q.res # 0
    BY <1>1 DEF CacheInv, StoreOK
  <2>2. CASE q.status = "ok"
    BY <1>1, <1>2, <2>2 DEF Updated, AnswerOK, Nothing
  <2>3. CASE q.status = "not_modified"
    BY <1>1, <1>2, <2>1, <2>3 DEF Updated, AnswerOK, RequestOK, Kept
  <2>4. CASE q.status = "error"
    BY <1>1, <1>2, <2>1, <2>4 DEF Updated, AnswerOK
  <2> QED
    BY <1>1, <2>2, <2>3, <2>4 DEF Exchange, Statuses
<1>5. store' = [store EXCEPT ![c][q.res] = new]
  BY DEF Receive
<1>6. page' \in [Clients -> Releases]
  <2>1. q.res = 0 /\ q.status # "error" => q.status = "ok" /\ q.body \in Releases
    BY <1>1, <1>2 DEF AnswerOK, Exchange, Statuses
  <2> DEFINE shown == CASE q.res # 0 \/ q.status = "error" -> page[c]
                        [] q.res = 0 /\ q.status = "ok" -> q.body
                        [] OTHER -> store[c][0].body
  <2>2. page' = [page EXCEPT ![c] = shown]
    BY DEF Receive
  <2>3. page[c] \in Releases
    BY DEF CacheInv, CacheTypeOK
  <2>4. shown \in Releases
    <3>1. CASE q.res # 0 \/ q.status = "error"
      BY <2>3, <3>1
    <3>2. CASE ~(q.res # 0 \/ q.status = "error")
      BY <2>1, <3>2
    <3> QED
      BY <3>1, <3>2
  <2> HIDE DEF shown
  <2> QED
    BY <2>2, <2>4 DEF CacheInv, CacheTypeOK
<1> HIDE DEF new
<1>7. store' \in [Clients -> [Resources -> Kept]] /\ \A d \in Clients \ {c} : store'[d] = store[d]
  BY <1>1, <1>3, <1>5 DEF CacheInv, CacheTypeOK
<1>8. StoreOK'
  BY <1>1, <1>4, <1>5 DEF CacheInv, CacheTypeOK, StoreOK
<1> QED
  BY <1>6, <1>7, <1>8

LEMMA CacheStepInv == CacheInv /\ CacheStep => CacheInv'
<1> SUFFICES ASSUME CacheInv, CacheStep PROVE CacheInv'
  OBVIOUS
<1>0. RootOK' /\ entry' = entry
  BY DEF CacheInv, CacheStep, RootOK, root
<1>1. ASSUME NEW c \in Clients, NEW get \in BOOLEAN, NEW res \in Resources, NEW cond \in Conditions,
             Send(c, get, res, cond)
      PROVE  CacheInv'
  <2> DEFINE sent == [Idle EXCEPT !.stage = "sent", !.get = get, !.res = res, !.cond = cond, !.since = entry]
  <2>1. req' = [req EXCEPT ![c] = sent] /\ UNCHANGED <<store, page>>
    BY <1>1 DEF Send
  <2>2. sent \in Exchange
    BY ResourceSets DEF CacheInv, RootOK, Idle, Exchange, Statuses, Controls
  <2>3. RequestOK(sent, store[c]) /\ AnswerOK(sent)
    BY <1>1 DEF CacheInv, RootOK, Releases, Send, RequestOK, AnswerOK, Idle
  <2> HIDE DEF sent
  <2>4. ExchangesOK'
    BY <1>0, <2>1, <2>3 DEF CacheInv, CacheTypeOK, ExchangesOK, RequestOK, AnswerOK
  <2> QED
    BY <1>0, <2>1, <2>2, <2>4 DEF CacheInv, CacheTypeOK, StoreOK
<1>2. ASSUME NEW c \in Clients, Set(c) PROVE CacheInv'
  <2>1. UNCHANGED <<store, page>>
    BY <1>2 DEF Set
  <2> QED
    BY <1>0, <1>2, <2>1, SetAnswers DEF CacheInv, CacheTypeOK, StoreOK, ExchangesOK, RequestOK, AnswerOK
<1>3. ASSUME NEW c \in Clients, Receive(c) PROVE CacheInv'
  <2>1. req' = [req EXCEPT ![c] = Idle] /\ Idle \in Exchange
    BY <1>3, RootAssumption DEF Receive, Idle, Exchange, Resources, Releases, Conditions, Statuses, Controls
  <2>2. ExchangesOK'
    BY <1>0, <1>3, <2>1, ReceiveUpdates DEF CacheInv, CacheTypeOK, ExchangesOK, RequestOK, AnswerOK, Idle
  <2> QED
    BY <1>0, <1>3, <2>1, <2>2, ReceiveUpdates DEF CacheInv, CacheTypeOK
<1> QED
  BY <1>1, <1>2, <1>3 DEF CacheStep, CacheNext

LEMMA CacheInvariant == CacheSpec => []CacheInv
<1>1. CacheInv /\ UNCHANGED <<root, cacheVars>> => CacheInv'
  BY DEF CacheInv, RootOK, CacheTypeOK, StoreOK, ExchangesOK, RequestOK, AnswerOK, root, cacheVars
<1> QED
  BY <1>1, CacheInitInv, CacheStepInv, DeployStepInv, PTL DEF CacheSpec, CacheRootInit, CacheStep, DeployStep

\* Type correctness of browsers and their caches (CacheTypeOK).
THEOREM CacheTypeCorrect == CacheSpec => []CacheTypeOK
  BY CacheInvariant, PTL DEF CacheInv

\* Only assets, each with its own content, are kept for good
\* (OnlyAssetsStick).
THEOREM AssetsStick == CacheSpec => []OnlyAssetsStick
<1>1. CacheInv => OnlyAssetsStick
  BY DEF CacheInv, StoreOK, OnlyAssetsStick
<1> QED
  BY <1>1, CacheInvariant, PTL

\* No request shows an entry document older than the one on disk when it was
\* sent (FreshEntry).
THEOREM EntryIsFresh == CacheSpec => FreshEntry
<1> DEFINE Fresh == \A c \in Clients :
                      (Receive(c) /\ req[c].res = 0 /\ req[c].status # "error") => page'[c] >= req[c].since
<1>1. CacheInv => Fresh
  BY DEF CacheInv, CacheTypeOK, ExchangesOK, AnswerOK, Receive, Exchange, Statuses, Releases
<1> QED
  BY <1>1, CacheInvariant, PTL DEF CacheSpec, FreshEntry

-----------------------------------------------------------------------------
(* The version header against the cache policy.                            *)

ManifestOK == manifest \in Manifest /\ (swapped => manifest = Whole(entry))

\* What a middleware has read, and what it has sent, is not from before the
\* request.
CallsInTime ==
  \A c \in Clients :
    LET q == call[c] IN
    /\ q.stage # "idle" => q.since <= LastWhole
    /\ \A h \in {q.version, q.header} :
         h.state = "whole" => q.since <= h.of /\ h.of <= manifest.of

\* A browser reloads for a version that is there, and asks for its entry
\* document after it has heard of it.
WantedIsThere ==
  \A c \in Clients :
    /\ swapped /\ wanted[c].state = "whole" => wanted[c].of <= entry
    /\ req[c].stage # "idle" /\ req[c].res = 0 =>
         /\ wanted[c] # NoHeader
         /\ swapped /\ wanted[c].state = "whole" => wanted[c].of <= req[c].since

FrontendInv ==
  /\ CacheInv /\ VersionTypeOK /\ wanted \in [Clients -> Header]
  /\ ManifestOK /\ CallsInTime /\ WantedIsThere

LEMMA FrontendInitInv == FrontendInit => FrontendInv
<1> SUFFICES ASSUME FrontendInit PROVE FrontendInv
  OBVIOUS
<1>1. CacheInv
  BY CacheInitInv DEF FrontendInit
<1>2. NoHeader \in Header /\ IdleCall \in Call
  BY RootAssumption DEF NoHeader, Header, IdleCall, Call, Releases
<1>3. ManifestOK
  BY RootAssumption DEF FrontendInit, RootInit, ManifestOK, Manifest, ManifestState, Whole, Releases
<1>4. CallsInTime /\ WantedIsThere
  BY DEF FrontendInit, CacheInit, VersionInit, CallsInTime, WantedIsThere, Idle, IdleCall, NoHeader
<1> QED
  BY <1>1, <1>2, <1>3, <1>4 DEF FrontendInit, VersionInit, VersionTypeOK, FrontendInv

\* Deployments only go forward.
LEMMA DeployForward ==
  ASSUME RootOK, ManifestOK, RootNext
  PROVE  /\ ManifestOK' /\ entry <= entry' /\ UNCHANGED swapped
         /\ manifest.of <= manifest'.of /\ LastWhole <= LastWhole'
<1> USE RootAssumption DEF RootOK, ManifestOK, Manifest, Releases, LastWhole
<1>0. UNCHANGED swapped
  BY DEF RootNext
<1>1. CASE SwapRoot
  BY <1>0, <1>1 DEF SwapRoot, Whole, ManifestState
<1>2. CASE WriteManifest
  BY <1>0, <1>2 DEF WriteManifest, ManifestState
<1>3. CASE UNCHANGED manifest /\ ~swapped /\ entry <= entry'
  BY <1>0, <1>3
<1>4. \/ SwapRoot \/ WriteManifest
      \/ UNCHANGED manifest /\ ~swapped /\ entry <= entry'
  BY DEF RootNext, PublishAsset, WithdrawAsset, WriteEntry
<1> QED
  BY <1>0, <1>1, <1>2, <1>3, <1>4

LEMMA DeployInv == FrontendInv /\ RootNext /\ UNCHANGED <<cacheVars, call, wanted>> => FrontendInv'
<1> SUFFICES ASSUME FrontendInv, RootNext, UNCHANGED <<cacheVars, call, wanted>> PROVE FrontendInv'
  OBVIOUS
<1>1. CacheInv'
  BY DeployStepInv DEF FrontendInv, DeployStep
<1>2. /\ ManifestOK' /\ entry <= entry' /\ UNCHANGED swapped
      /\ manifest.of <= manifest'.of /\ LastWhole <= LastWhole'
  BY DeployForward DEF FrontendInv, CacheInv
<1>3. UNCHANGED <<req, call, wanted>>
  BY DEF cacheVars
<1>4. /\ entry \in Nat /\ entry' \in Nat /\ manifest.of \in Nat /\ manifest'.of \in Nat
      /\ LastWhole \in Int /\ LastWhole' \in Int
  <2>1. /\ entry \in Releases /\ manifest.of \in Releases
        /\ entry' \in Releases /\ manifest'.of \in Releases
    BY <1>1, <1>2 DEF FrontendInv, CacheInv, RootOK, ManifestOK, Manifest
  <2>2. /\ entry \in Nat /\ entry' \in Nat /\ manifest.of \in Nat /\ manifest'.of \in Nat
    BY <2>1, ResourceSets
  <2> QED
    BY <2>2 DEF LastWhole
<1>5. \A c \in Clients : /\ call[c].since \in Nat /\ call[c].version.of \in Nat /\ call[c].header.of \in Nat
                         /\ wanted[c].of \in Nat
  BY RootAssumption DEF FrontendInv, VersionTypeOK, Call, Header, Releases
<1>6. CallsInTime'
  BY <1>2, <1>3, <1>4, <1>5 DEF FrontendInv, CallsInTime
<1>7. WantedIsThere'
  BY <1>2, <1>3, <1>4, <1>5 DEF FrontendInv, WantedIsThere
<1> QED
  BY <1>1, <1>2, <1>3, <1>6, <1>7 DEF FrontendInv, VersionTypeOK

LEMMA ApiInv == \A c \in Clients : FrontendInv /\ Api(c) => FrontendInv'
<1> SUFFICES ASSUME NEW c \in Clients, FrontendInv, Api(c) PROVE FrontendInv'
  OBVIOUS
<1>1. UNCHANGED <<swapped, entry, assets, manifest, req, store, page, wanted>>
  BY DEF Api, root, cacheVars
<1>2. CacheInv' /\ ManifestOK' /\ WantedIsThere' /\ wanted' \in [Clients -> Header]
  BY <1>1 DEF FrontendInv, CacheInv, RootOK, CacheTypeOK, StoreOK, ExchangesOK, RequestOK, AnswerOK, ManifestOK,
              WantedIsThere
<1>3. call[c] \in Call /\ manifest \in Manifest
  BY DEF FrontendInv, VersionTypeOK, ManifestOK
<1>4. PICK q \in Call : /\ call' = [call EXCEPT ![c] = q]
                        /\ q.stage # "idle" => q.since <= LastWhole
                        /\ \A h \in {q.version, q.header} :
                             h.state = "whole" => q.since <= h.of /\ h.of <= manifest.of
  <2>1. CASE SendCall(c)
    <3> DEFINE q == [IdleCall EXCEPT !.stage = "sent", !.since = LastWhole]
    <3>1. NoHeader \in Header /\ LastWhole \in 0..MaxRelease
      BY <1>3, RootAssumption DEF NoHeader, Header, LastWhole, Manifest, Releases
    <3>2. /\ IdleCall \in Call
          /\ IdleCall.version = NoHeader /\ IdleCall.header = NoHeader
      BY <3>1, RootAssumption DEF IdleCall, Call
    <3>3. q \in Call
      BY <3>1, <3>2 DEF Call
    <3>4. q.since = LastWhole /\ q.version = NoHeader /\ q.header = NoHeader
      BY <3>1, <3>2 DEF Call
    <3> HIDE DEF q
    <3>5. call' = [call EXCEPT ![c] = q]
      BY <2>1 DEF SendCall, q
    <3>6. LastWhole <= LastWhole /\ NoHeader.state # "whole"
      BY <3>1 DEF NoHeader
    <3> QED
      BY <3>3, <3>4, <3>5, <3>6
  <2>2. CASE ReadManifest(c)
    <3> DEFINE q == [call[c] EXCEPT !.stage = "handling", !.version = Read]
    <3>1. Read \in Header
      BY <1>3, RootAssumption DEF Read, NoHeader, Header, Manifest, ManifestState, Releases
    <3>2. q \in Call /\ q.since = call[c].since /\ q.version = Read /\ q.header = call[c].header
      BY <1>3, <3>1 DEF Call
    <3>3. Read.state = "whole" => Read.of = manifest.of /\ LastWhole = manifest.of
      BY DEF Read, NoHeader, LastWhole
    <3>4. manifest.of \in Nat
      BY <1>3, ResourceSets DEF Manifest
    <3>5. /\ call[c].since <= LastWhole
          /\ call[c].header.state = "whole" => call[c].since <= call[c].header.of /\ call[c].header.of <= manifest.of
      BY <2>2 DEF ReadManifest, FrontendInv, CallsInTime
    <3>6. call' = [call EXCEPT ![c] = q]
      BY <2>2, <1>3 DEF ReadManifest, FrontendInv, VersionTypeOK
    <3> HIDE DEF q, Read
    <3>7. \A h \in {q.version, q.header} : h.state = "whole" => q.since <= h.of /\ h.of <= manifest.of
      BY <3>2, <3>3, <3>4, <3>5
    <3> QED
      BY <3>2, <3>5, <3>6, <3>7
  <2>3. CASE SetHeader(c)
    <3> DEFINE q == [call[c] EXCEPT !.stage = "answered", !.header = call[c].version]
    <3>1. q \in Call
      BY <1>3 DEF Call
    <3> QED
      BY <1>3, <2>3, <3>1 DEF SetHeader, FrontendInv, CallsInTime, Call
  <2> QED
    BY <2>1, <2>2, <2>3 DEF Api
<1>5. VersionTypeOK' /\ CallsInTime'
  BY <1>1, <1>4 DEF FrontendInv, VersionTypeOK, CallsInTime, LastWhole
<1> QED
  BY <1>2, <1>5 DEF FrontendInv

LEMMA HearInv == \A c \in Clients : FrontendInv /\ Hear(c) => FrontendInv'
<1> SUFFICES ASSUME NEW c \in Clients, FrontendInv, Hear(c) PROVE FrontendInv'
  OBVIOUS
<1>1. UNCHANGED <<swapped, entry, assets, manifest, req, store, page>>
  BY DEF Hear, root, cacheVars
<1>2. CacheInv' /\ ManifestOK'
  BY <1>1 DEF FrontendInv, CacheInv, RootOK, CacheTypeOK, StoreOK, ExchangesOK, RequestOK, AnswerOK, ManifestOK
<1>3. IdleCall \in Call
  BY RootAssumption DEF NoHeader, Header, IdleCall, Call, Releases
<1>4. VersionTypeOK' /\ CallsInTime'
  BY <1>1, <1>3 DEF Hear, FrontendInv, VersionTypeOK, CallsInTime, IdleCall, NoHeader, LastWhole
<1>5. CASE wanted' = wanted
  BY <1>1, <1>2, <1>4, <1>5 DEF FrontendInv, WantedIsThere
<1>6. CASE wanted' = [wanted EXCEPT ![c] = call[c].header] /\ wanted[c] = NoHeader
  <2>1. call[c].header \in Header
    BY DEF FrontendInv, VersionTypeOK, Call
  <2>2. swapped /\ call[c].header.state = "whole" => call[c].header.of <= entry
    BY DEF FrontendInv, CallsInTime, ManifestOK, Whole
  <2>3. ~(req[c].stage # "idle" /\ req[c].res = 0)
    BY <1>6 DEF FrontendInv, WantedIsThere
  <2>4. WantedIsThere'
    BY <1>1, <1>6, <2>1, <2>2, <2>3 DEF FrontendInv, WantedIsThere
  <2> QED
    BY <1>2, <1>4, <1>6, <2>1, <2>4 DEF FrontendInv
<1> QED
  BY <1>5, <1>6 DEF Hear, FrontendInv

\* The requests for files are steps of the cache policy.
LEMMA FilesInv ==
  \A c \in Clients : FrontendInv /\ (Reload(c) \/ LoadAsset(c) \/ File(c) \/ Show(c)) => FrontendInv'
<1> SUFFICES ASSUME NEW c \in Clients, FrontendInv, Reload(c) \/ LoadAsset(c) \/ File(c) \/ Show(c)
             PROVE  FrontendInv'
  OBVIOUS
<1>1. UNCHANGED <<swapped, entry, assets, manifest, root, call>>
  BY DEF Reload, LoadAsset, File, Show, root
<1>2. VersionTypeOK' /\ ManifestOK' /\ CallsInTime'
  BY <1>1 DEF FrontendInv, VersionTypeOK, ManifestOK, CallsInTime, LastWhole
<1>3. page[c] \in Resources /\ page[c] # 0 /\ 0 \in Resources
  BY ResourceSets DEF FrontendInv, CacheInv, CacheTypeOK
<1>4. CacheStep
  BY <1>1, <1>3 DEF Reload, LoadAsset, File, Show, Fetch, CacheStep, CacheNext, Conditions
<1>5. CacheInv'
  BY <1>4, CacheStepInv DEF FrontendInv
<1> USE DEF FrontendInv, CacheInv, CacheTypeOK, WantedIsThere
<1>6. CASE Reload(c)
  <2>1. /\ req' = [req EXCEPT ![c] = [Idle EXCEPT !.stage = "sent", !.get = TRUE, !.res = 0,
                     !.cond = IF store[c][0].kind = "validate" THEN "match" ELSE "none", !.since = entry]]
        /\ wanted[c] # NoHeader /\ wanted' = wanted
    BY <1>6 DEF Reload, Fetch, Send
  <2>2. req'[c].res = 0 /\ req'[c].since = entry
    BY <2>1 DEF Idle
  <2>3. WantedIsThere'
    BY <1>1, <2>1, <2>2
  <2> QED
    BY <1>2, <1>5, <2>1, <2>3
<1>7. CASE LoadAsset(c)
  <2>1. /\ req' = [req EXCEPT ![c] = [Idle EXCEPT !.stage = "sent", !.get = TRUE, !.res = page[c],
                     !.cond = IF store[c][page[c]].kind = "validate" THEN "match" ELSE "none", !.since = entry]]
        /\ wanted' = wanted
    BY <1>7 DEF LoadAsset, Fetch, Send
  <2>2. req'[c].res # 0
    BY <1>3, <2>1 DEF Idle
  <2>3. WantedIsThere'
    BY <1>1, <2>1, <2>2
  <2> QED
    BY <1>2, <1>5, <2>1, <2>3
<1>8. CASE File(c)
  <2>1. /\ req'[c].res = req[c].res /\ req'[c].since = req[c].since /\ req[c].stage # "idle"
        /\ \A d \in Clients \ {c} : req'[d] = req[d]
        /\ wanted' = wanted
    BY <1>8 DEF File, Set, Exchange
  <2>2. WantedIsThere'
    BY <1>1, <2>1
  <2> QED
    BY <1>2, <1>5, <2>1, <2>2
<1>9. CASE Show(c)
  <2>1. /\ req' = [req EXCEPT ![c] = Idle] /\ NoHeader \in Header
        /\ wanted' = [wanted EXCEPT ![c] = NoHeader] \/ wanted' = wanted
    BY <1>9, RootAssumption DEF Show, Receive, NoHeader, Header, Releases
  <2>2. WantedIsThere'
    BY <1>1, <2>1 DEF Idle, NoHeader
  <2> QED
    BY <1>2, <1>5, <2>1, <2>2
<1> QED
  BY <1>6, <1>7, <1>8, <1>9

LEMMA FrontendInvStep == FrontendInv /\ [FrontendNext]_frontendVars => FrontendInv'
<1>1. FrontendInv /\ UNCHANGED frontendVars => FrontendInv'
  BY DEF FrontendInv, VersionTypeOK, ManifestOK, CallsInTime, WantedIsThere, LastWhole, frontendVars, root, cacheVars,
         CacheInv, RootOK, CacheTypeOK, StoreOK, ExchangesOK, RequestOK, AnswerOK
<1> QED
  BY <1>1, DeployInv, ApiInv, HearInv, FilesInv DEF FrontendNext

LEMMA FrontendInvariant == FrontendSpec => []FrontendInv
  BY FrontendInitInv, FrontendInvStep, PTL DEF FrontendSpec

\* Type correctness of the frontend and its browsers (FrontendTypeOK).
THEOREM FrontendTypeCorrect == FrontendSpec => []FrontendTypeOK
<1>1. FrontendInv => FrontendTypeOK
  BY DEF FrontendInv, CacheInv, FrontendTypeOK
<1> QED
  BY <1>1, FrontendInvariant, PTL

\* A whole version in a response is not from before the request, nor from the
\* future (HeaderInTime).
THEOREM HeadersAreInTime == FrontendSpec => []HeaderInTime
<1>1. FrontendInv => HeaderInTime
  BY DEF FrontendInv, CallsInTime, HeaderInTime
<1> QED
  BY <1>1, FrontendInvariant, PTL

\* With releases that replace the directory as a whole, the reload for a
\* version shows that version or a later one (ReloadSuffices).
THEOREM OneReloadIsEnough == FrontendSpec => ReloadSuffices
<1> DEFINE Enough ==
      swapped =>
        \A c \in Clients :
          (Show(c) /\ req[c].res = 0 /\ req[c].status # "error" /\ wanted[c].state = "whole")
            => page'[c] >= wanted[c].of
<1>1. ASSUME FrontendInv, swapped, NEW c \in Clients, Show(c), req[c].res = 0, req[c].status # "error",
             wanted[c].state = "whole"
      PROVE  page'[c] >= wanted[c].of
  <2>1. req[c].stage = "answered" /\ req[c] \in Exchange /\ req[c].status = "ok"
    BY <1>1 DEF FrontendInv, CacheInv, CacheTypeOK, ExchangesOK, AnswerOK, Show, Receive, Exchange, Statuses
  <2>2. req[c].since <= req[c].body /\ wanted[c].of <= req[c].since
    BY <1>1, <2>1 DEF FrontendInv, CacheInv, ExchangesOK, AnswerOK, WantedIsThere
  <2>3. page'[c] = req[c].body
    BY <1>1, <2>1 DEF FrontendInv, CacheInv, CacheTypeOK, Show, Receive
  <2>4. req[c].since \in Nat /\ req[c].body \in Nat /\ wanted[c].of \in Nat
    BY <2>1, <1>1, RootAssumption DEF FrontendInv, Exchange, Resources, Releases, Header
  <2> QED
    BY <2>2, <2>3, <2>4
<1>2. FrontendInv => Enough
  BY <1>1
<1> QED
  BY <1>2, FrontendInvariant, PTL DEF FrontendSpec, ReloadSuffices
=============================================================================
