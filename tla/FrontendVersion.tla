-------------------------- MODULE FrontendVersion --------------------------
(***************************************************************************)
(* src/src/frontend/version.rs: the middleware that reads the manifest     *)
(* when a request enters and sets it as a header when the response leaves. *)
(***************************************************************************)
EXTENDS FrontendRoot

VARIABLE call   \* the API request each browser has under way

Header == [state : {"none", "whole", "torn", "empty"}, of : Releases]
NoHeader == [state |-> "none", of |-> 1]

\* `since' is the last version the manifest was known to hold whole when the
\* request was sent; `version' what attach() has read; `header' what is sent.
Call == [stage : {"idle", "sent", "handling", "answered"}, since : 0..MaxRelease,
         version : Header, header : Header]

IdleCall == [stage |-> "idle", since |-> 0, version |-> NoHeader, header |-> NoHeader]

VersionInit == call = [c \in Clients |-> IdleCall]

\* read(): a failure to read or to parse is no header; an empty file is an
\* empty header value, and a part of a version is as good as another version.
Read == IF manifest.state \in {"missing", "invalid"} THEN NoHeader ELSE manifest

LastWhole == IF manifest.state = "whole" THEN manifest.of ELSE manifest.of - 1

SendCall(c) ==
  /\ call[c].stage = "idle"
  /\ call' = [call EXCEPT ![c] = [IdleCall EXCEPT !.stage = "sent", !.since = LastWhole]]

\* Mutant: the manifest is read once, when the router is built.
ReadManifestOnce(c) ==
  /\ call[c].stage = "sent"
  /\ call' = [call EXCEPT ![c].stage = "handling", ![c].version = Whole(1)]

\* attach(), up to the handler ...
ReadManifest(c) ==
  /\ call[c].stage = "sent"
  /\ call' = [call EXCEPT ![c].stage = "handling", ![c].version = Read]

\* ... and after it.
SetHeader(c) ==
  /\ call[c].stage = "handling"
  /\ call' = [call EXCEPT ![c].stage = "answered", ![c].header = call[c].version]

VersionTypeOK == call \in [Clients -> Call]
=============================================================================
