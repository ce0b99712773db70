------------------------------ MODULE Frontend ------------------------------
(***************************************************************************)
(* src/src/frontend.rs: a frontend router with the cache policy, an API    *)
(* router with the version header, and the application in the browser they *)
(* exist for.  It polls the API; a version other than its own makes it     *)
(* reload its entry document and then the asset of the release it got.     *)
(***************************************************************************)
EXTENDS FrontendCache, FrontendVersion

VARIABLE wanted   \* the header each browser reloads for

frontendVars == <<root, cacheVars, call, wanted>>

FrontendInit ==
  /\ RootInit
  /\ CacheInit
  /\ VersionInit
  /\ wanted = [c \in Clients |-> NoHeader]

\* with_frontend_version(): the API's requests.
Api(c) ==
  /\ SendCall(c) \/ ReadManifest(c) \/ SetHeader(c)
  /\ UNCHANGED <<root, cacheVars, wanted>>

\* The browser compares the header with the release it shows, unless it has
\* already decided to reload.
Hear(c) ==
  /\ call[c].stage = "answered"
  /\ call' = [call EXCEPT ![c] = IdleCall]
  /\ wanted' = [wanted EXCEPT ![c] = IF wanted[c] # NoHeader \/ call[c].header = Whole(page[c]) THEN @
                                     ELSE call[c].header]
  /\ UNCHANGED <<root, cacheVars>>

\* with_frontend_cache(): the requests for files.
Reload(c) ==
  /\ wanted[c] # NoHeader
  /\ Fetch(c, 0)
  /\ UNCHANGED <<root, call, wanted>>

LoadAsset(c) ==
  /\ Fetch(c, page[c])
  /\ UNCHANGED <<root, call, wanted>>

File(c) == Set(c) /\ UNCHANGED <<root, call, wanted>>

Show(c) ==
  /\ Receive(c)
  /\ wanted' = IF req[c].res = 0 THEN [wanted EXCEPT ![c] = NoHeader] ELSE wanted
  /\ UNCHANGED <<root, call>>

FrontendNext ==
  \/ RootNext /\ UNCHANGED <<cacheVars, call, wanted>>
  \/ \E c \in Clients : Api(c) \/ Hear(c) \/ Reload(c) \/ LoadAsset(c) \/ File(c) \/ Show(c)

\* The server answers what it is asked, and the application keeps polling,
\* reloads when it decided to and asks for its asset until it has it.
FrontendFairness ==
  \A c \in Clients :
    /\ WF_frontendVars(Api(c)) /\ WF_frontendVars(Hear(c))
    /\ WF_frontendVars(File(c)) /\ WF_frontendVars(Show(c))
    /\ SF_frontendVars(Reload(c)) /\ SF_frontendVars(LoadAsset(c))

FrontendSpec == FrontendInit /\ [][FrontendNext]_frontendVars /\ FrontendFairness

FrontendTypeOK == CacheTypeOK /\ VersionTypeOK /\ wanted \in [Clients -> Header]

-----------------------------------------------------------------------------
\* A whole version in a response is neither older than the manifest was when
\* the request was sent nor newer than the manifest now, whatever deployments
\* fall between the reading and the response (version.rs:56-79).
HeaderInTime ==
  \A c \in Clients :
    LET q == call[c] IN
    q.header.state = "whole" => q.since <= q.header.of /\ q.header.of <= manifest.of

\* Where a release replaces the directory as a whole, one reload is enough:
\* the entry document it shows is not older than the version that was heard,
\* although header and document come from two routers and two moments.
ReloadSuffices ==
  [][swapped =>
       \A c \in Clients :
         (Show(c) /\ req[c].res = 0 /\ req[c].status # "error" /\ wanted[c].state = "whole")
           => page'[c] >= wanted[c].of
    ]_frontendVars

\* However the files of a deployment change, once the last release is all
\* there every browser ends up with its entry document and its asset: no
\* stale entry, no remembered 404 and no torn header holds it back for good.
BrowsersCatchUp ==
  \A c \in Clients :
    <>[](entry = MaxRelease /\ MaxRelease \in assets /\ manifest = Whole(MaxRelease))
      => <>[](page[c] = MaxRelease /\ store[c][MaxRelease].body = MaxRelease)
=============================================================================
