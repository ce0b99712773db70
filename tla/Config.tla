------------------------------- MODULE Config -------------------------------
(***************************************************************************)
(* src/src/config.rs, src/src/config/external.rs and src/src/logging.rs:   *)
(* a process loads its configuration, from threads that may do so at the   *)
(* same time, resolves the external values in it and installs its logging, *)
(* while the files it reads from change.  TOML, socket addresses, URIs,    *)
(* filters and connection options are parsed by other crates: a string is  *)
(* the class it falls into.                                                *)
(***************************************************************************)
EXTENDS Integers, Sequences, FiniteSets

CONSTANTS
  Threads,      \* threads that load configuration
  Docs,         \* configuration documents
  Rotations     \* how often the credential changes

VARIABLES
  disk,         \* the configuration file: a document, or why it cannot be read
  stdin,        \* what standard input still holds: a document, empty or not UTF-8
  secret,       \* the credential, in its file
  load,         \* the call of from_args() or load() each thread makes
  core,         \* the configuration the process runs with
  token,        \* the credential it resolved, the last attempt
  logging       \* the process-wide subscriber and log adapter

configVars == <<disk, stdin, secret, load, core, token, logging>>

-----------------------------------------------------------------------------
(* Values and how they parse. *)

Absent == "absent"

\* FromStr for ListenAddress: an absolute path is never read as an address.
Absolute == {"/run/http.sock"}
SocketAddr == {"127.0.0.1:0", "[::1]:3000"}
ListenAddress(raw) ==
  CASE raw \in Absolute -> "Unix"
    [] raw \in SocketAddr -> "Tcp"
    [] OTHER -> "ParseListenAddressError"

\* LogFilter, which defaults to its own text.
DefaultFilter == "info,tower_http=warn,axum=warn"
LogFilter(raw) ==
  CASE raw = Absent -> DefaultFilter
    [] raw = "malformed" -> "ParseError"
    [] OTHER -> raw

\* Option<PublicUrl> (its checks are in Urls) and what Core::url_source and
\* Core::urls make of it.
PublicUrl(raw) == IF raw = "malformed" THEN "ParsePublicUrlError" ELSE raw
UrlSource(url) == IF url = Absent THEN "Automatic" ELSE "Explicit"

\* FromStr for DatabaseUrl: the scheme is looked at, in any case, before the
\* rest is parsed.
PostgresSchemes == {"postgres", "POSTGRES", "postgresql"}

\* Mutant: the scheme is left to the parser, which takes any.
DatabaseUrlAny(raw) == IF raw.malformed THEN "Invalid" ELSE "ok"

DatabaseUrl(raw) ==
  IF ~raw.colon \/ raw.scheme \notin PostgresSchemes THEN "Scheme"
  ELSE IF raw.malformed THEN "Invalid" ELSE "ok"

\* External, as it is deserialised: a string is a literal, a table must name one
\* source, once.
ExternalSource(raw) ==
  IF raw.string THEN "Value"
  ELSE IF raw.keys = {"file"} THEN "File"
  ELSE IF raw.keys = {"env"} THEN "Env" ELSE "unknown"

-----------------------------------------------------------------------------
(* Loading. *)

\* A document that is not TOML, or empty, has no listen address.
Doc == [listen : Absolute \cup SocketAddr \cup {"http.sock", Absent},
        filter : {Absent, "debug", "malformed"}, url : {Absent, "https", "malformed"},
        database : [colon : BOOLEAN, scheme : PostgresSchemes \cup {"http"}, malformed : BOOLEAN],
        token : [string : BOOLEAN, keys : SUBSET {"file", "env", "other"}]]

ASSUME ConfigAssumption == Rotations \in Nat /\ Docs \subseteq Doc

Empty == [text |-> FALSE, why |-> "empty"]
Opaque == [text |-> FALSE, why |-> "not UTF-8"]
Missing == [text |-> FALSE, why |-> "not found"]
Text(doc) == [text |-> TRUE, doc |-> doc]

\* An application's configuration, Core flattened into it, and the document it
\* was read from.
NoCore == [listen |-> Absent, token |-> Absent]
Deserialized(doc) ==
  [doc |-> doc, listen |-> ListenAddress(doc.listen), filter |-> LogFilter(doc.filter),
   url |-> PublicUrl(doc.url), urls |-> UrlSource(doc.url), database |-> DatabaseUrl(doc.database),
   token |-> ExternalSource(doc.token)]

\* deserialize(): every value parses, or none is had.
Deserialize(content, location) ==
  LET fields == Deserialized(content.doc) IN
  IF /\ content.text
     /\ fields.listen # "ParseListenAddressError" /\ fields.filter # "ParseError"
     /\ fields.url # "ParsePublicUrlError" /\ fields.database = "ok" /\ fields.token # "unknown"
  THEN [is |-> "ok", location |-> location, core |-> fields]
  ELSE [is |-> "Parse", location |-> location, core |-> NoCore]

\* Location::read_to_string and load_location(): a source that cannot be read
\* is told from one that does not parse.
LoadLocation(content, location) ==
  IF content \in {Missing, Opaque} THEN [is |-> "Read", location |-> location, core |-> NoCore]
  ELSE Deserialize(content, location)

Failed(error) == [is |-> error, location |-> "none", core |-> NoCore]

\* From<OsString> for Location.
LocationOf(argument) == IF argument = "-" THEN "stdin" ELSE "file"

NoLoad == [stage |-> "idle", location |-> "none", result |-> Failed("none")]

\* Loading ends with the first configuration the process adopts.
Idle(t) == load[t].stage = "idle" /\ core = NoCore

StartReading(t, location) ==
  load' = [load EXCEPT ![t] = [stage |-> "reading", location |-> location, result |-> Failed("none")]]

Reject(t, error) ==
  load' = [load EXCEPT ![t] = [stage |-> "done", location |-> "none", result |-> Failed(error)]]

\* from_args(): the arguments are counted before anything is read.
FromArgs(t, arguments) ==
  /\ Idle(t)
  /\ CASE Len(arguments) < 2 -> Reject(t, "MissingPath")
       [] Len(arguments) > 2 -> Reject(t, "UnexpectedArgument")
       [] OTHER -> StartReading(t, LocationOf(arguments[2]))
  /\ UNCHANGED <<disk, stdin, secret, core, token, logging>>

\* load()
Load(t, path) ==
  /\ Idle(t)
  /\ StartReading(t, LocationOf(path))
  /\ UNCHANGED <<disk, stdin, secret, core, token, logging>>

\* Mutant: standard input is left as it was.
ReadAgain(t) ==
  /\ load[t].stage = "reading"
  /\ LET location == load[t].location
         content == IF location = "stdin" THEN stdin ELSE disk
     IN load' = [load EXCEPT ![t].stage = "done", ![t].result = LoadLocation(content, location)]
  /\ UNCHANGED <<disk, stdin, secret, core, token, logging>>

\* The file is read as it is by now; standard input, behind its lock, to its
\* end, and it is empty for whoever comes next.
Read(t) ==
  /\ load[t].stage = "reading"
  /\ LET location == load[t].location
         content == IF location = "stdin" THEN stdin ELSE disk
     IN /\ load' = [load EXCEPT ![t].stage = "done", ![t].result = LoadLocation(content, location)]
        /\ stdin' = IF location = "stdin" THEN Empty ELSE stdin
  /\ UNCHANGED <<disk, secret, core, token, logging>>

\* The process runs with the first configuration that loads.
Adopt(t) ==
  /\ load[t].stage = "done"
  /\ load' = [load EXCEPT ![t] = NoLoad]
  /\ core' = IF core = NoCore THEN load[t].result.core ELSE core
  /\ UNCHANGED <<disk, stdin, secret, token, logging>>

-----------------------------------------------------------------------------
(* External values and logging. *)

\* The credential a process has resolved: its version.
NoToken == [is |-> "none"]
LoadErrors == {"File", "MissingEnv", "NonUnicodeEnv"}

\* External::load on the three sources; what a variable holds is as fixed as
\* the configuration.
LoadedFile(file) ==
  IF file.state = "text" THEN [is |-> "ok", version |-> file.version]
  ELSE [is |-> "File"]

LoadExternal ==
  /\ core # NoCore
  /\ token.is # "ok"
  /\ CASE core.token = "Value" -> token' = [is |-> "ok", version |-> 0]
       [] core.token = "File" -> token' = LoadedFile(secret)
       [] core.token = "Env" -> \E is \in {"ok"} \cup (LoadErrors \ {"File"}) :
                                  token' = [is |-> is, version |-> 0]
  /\ UNCHANGED <<disk, stdin, secret, load, core, logging>>

NoLogging == [subscriber |-> "none", adapter |-> "none", init |-> "none"]

\* logging::init: try_init() sets the subscriber first, then the adapter for
\* the log crate; it fails where either is taken, the second time with its own
\* subscriber in place.
InitLogging ==
  /\ core # NoCore
  /\ logging.init = "none"
  /\ logging' = IF logging.subscriber # "none" THEN [logging EXCEPT !.init = "err"]
                ELSE [logging EXCEPT !.init = "subscribed", !.subscriber = core.filter]
  /\ UNCHANGED <<disk, stdin, secret, load, core, token>>

\* Mutant: the adapter is not looked at.
InitAdapterUnchecked ==
  /\ logging.init = "subscribed"
  /\ logging' = [logging EXCEPT !.init = "ok"]
  /\ UNCHANGED <<disk, stdin, secret, load, core, token>>

InitAdapter ==
  /\ logging.init = "subscribed"
  /\ logging' = IF logging.adapter # "none" THEN [logging EXCEPT !.init = "err"]
                ELSE [logging EXCEPT !.init = "ok", !.adapter = "ours"]
  /\ UNCHANGED <<disk, stdin, secret, load, core, token>>

\* Other code of the process installs logging of its own.
OtherLogging ==
  /\ \/ logging.subscriber = "none" /\ logging' = [logging EXCEPT !.subscriber = "other"]
     \/ logging.adapter = "none" /\ logging' = [logging EXCEPT !.adapter = "other"]
  /\ UNCHANGED <<disk, stdin, secret, load, core, token>>

\* Operators and deployments change the files.
ChangeDisk ==
  /\ core = NoCore
  /\ disk' \in {Text(doc) : doc \in Docs} \cup {Missing}
  /\ UNCHANGED <<stdin, secret, load, core, token, logging>>

Rotate ==
  /\ secret.version < Rotations
  /\ secret' \in [state : {"text", "opaque", "missing"}, version : {secret.version + 1}]
  /\ UNCHANGED <<disk, stdin, load, core, token, logging>>

Arguments == {<<>>, <<"app">>, <<"app", "-">>, <<"app", "path">>, <<"app", "-", "path">>}

ConfigInit ==
  /\ disk = Missing
  /\ stdin \in {Text(doc) : doc \in Docs} \cup {Empty, Opaque}
  /\ secret \in [state : {"text", "missing"}, version : {0}]
  /\ load = [t \in Threads |-> NoLoad]
  /\ core = NoCore
  /\ token = NoToken
  /\ logging = NoLogging

ConfigNext ==
  \/ \E t \in Threads : Read(t) \/ Adopt(t)
  \/ \E t \in Threads, arguments \in Arguments : FromArgs(t, arguments)
  \/ \E t \in Threads, path \in {"-", "path"} : Load(t, path)
  \/ LoadExternal \/ InitLogging \/ InitAdapter \/ OtherLogging
  \/ ChangeDisk \/ Rotate

ConfigSpec == ConfigInit /\ [][ConfigNext]_configVars

-----------------------------------------------------------------------------
\* Standard input is handed out once: of all the loads of a process, in
\* whatever threads and order, one at most gets a configuration from it
\* (config.rs:63-69).
StdinOnce ==
  /\ \A t, u \in Threads :
       (t # u /\ load[t].result.is = "ok" /\ load[u].result.is = "ok")
         => {load[t].location, load[u].location} # {"stdin"}
  /\ \A t \in Threads : load[t].result.is = "ok" /\ load[t].location = "stdin" => stdin = Empty

\* A configuration that loads can be used by every later stage, whatever raced
\* with loading it: its address is one the listener binds, its URLs come from
\* a checked public URL or from detection, its database is PostgreSQL, its
\* filter is one EnvFilter took and its credential names one source.  A load
\* that fails hands out no part of its document.
UsableCore ==
  /\ \A t \in Threads : load[t].result.is # "ok" <=> load[t].result.core = NoCore
  /\ core # NoCore =>
       /\ core.listen \in {"Unix", "Tcp"}
       /\ (core.urls = "Automatic") <=> (core.url = Absent)
       /\ core.doc.database.scheme # "http" /\ core.doc.database.colon /\ ~core.doc.database.malformed
       /\ ~core.doc.token.string => core.doc.token.keys \in {{"file"}, {"env"}}
       /\ core.filter # "ParseError" /\ core.url # "ParsePublicUrlError"

\* Once init() has returned Ok, the subscriber has the configured filter and
\* the log adapter feeds it, whatever else of the process installs logging and
\* whenever; after Err something else was there first (logging.rs:28-35).
LoggingIsOurs ==
  /\ logging.init = "ok" => logging.subscriber = core.filter /\ logging.adapter = "ours"
  /\ logging.init = "err" => "other" \in {logging.subscriber, logging.adapter}
=============================================================================
