---------------------------- MODULE FrontendRoot ----------------------------
(***************************************************************************)
(* The frontend directory that src/src/frontend.rs serves from, and the    *)
(* deployments that change it under the running server.  Release r         *)
(* consists of an entry document outside /static/, an asset of its own     *)
(* below /static/ and a version manifest.  Nothing here is code of the     *)
(* repository: it is what the two middleware find when they look.          *)
(***************************************************************************)
EXTENDS Integers

CONSTANTS
  MaxRelease,   \* releases are 1..MaxRelease, deployed in this order
  Clients       \* the browsers

ASSUME RootAssumption == MaxRelease \in Nat \ {0}

VARIABLES
  swapped,      \* is a release one replacement of the whole directory?
  entry,        \* the release whose entry document is on disk
  assets,       \* the releases whose asset is on disk
  manifest      \* the version manifest on disk

root == <<swapped, entry, assets, manifest>>

Releases == 1..MaxRelease

\* What a manifest can hold: the whole version of a release, a part of it, no
\* byte at all, bytes that make no header value, or there is no file.
ManifestState == {"whole", "torn", "empty", "invalid", "missing"}
Manifest == [state : ManifestState, of : Releases]

Whole(r) == [state |-> "whole", of |-> r]

RootInit ==
  /\ swapped \in BOOLEAN
  /\ entry = 1
  /\ assets = {1}
  /\ manifest = Whole(1)

\* The directory is exchanged for that of the next release in one step; the
\* assets published before may be carried over or not.
SwapRoot ==
  /\ swapped
  /\ entry < MaxRelease
  /\ entry' = entry + 1
  /\ manifest' = Whole(entry + 1)
  /\ \E kept \in SUBSET assets : assets' = kept \cup {entry + 1}

\* Otherwise the files change one by one and in any order, the manifest
\* through every state a rewrite in place leaves it in.
PublishAsset(r) ==
  /\ ~swapped
  /\ assets' = assets \cup {r}
  /\ UNCHANGED <<entry, manifest>>

WithdrawAsset(r) ==
  /\ ~swapped
  /\ r < entry
  /\ assets' = assets \ {r}
  /\ UNCHANGED <<entry, manifest>>

WriteEntry ==
  /\ ~swapped
  /\ entry < MaxRelease
  /\ entry' = entry + 1
  /\ UNCHANGED <<assets, manifest>>

WriteManifest ==
  /\ ~swapped
  /\ \/ /\ manifest.state = "whole"
        /\ manifest.of < MaxRelease
        /\ manifest' \in [state : {"empty", "invalid", "missing"}, of : {manifest.of + 1}]
     \/ /\ manifest.state \in {"empty", "invalid", "missing"}
        /\ manifest' = [manifest EXCEPT !.state = "torn"]
     \/ /\ manifest.state = "torn"
        /\ manifest' = [manifest EXCEPT !.state = "whole"]
  /\ UNCHANGED <<entry, assets>>

RootNext ==
  /\ \/ SwapRoot \/ WriteEntry \/ WriteManifest
     \/ \E r \in Releases : PublishAsset(r) \/ WithdrawAsset(r)
  /\ UNCHANGED swapped   \* it is a matter of the deployment, not of a release
=============================================================================
