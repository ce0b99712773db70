---------------------------- MODULE StartupProofs ----------------------------
(***************************************************************************)
(* What a process does before it serves, from any configuration and beside *)
(* any number of others: it loads its configuration, installs its logging  *)
(* (Config) and opens a migrated PostgreSQL pool (Postgres).  The two      *)
(* specifications share no state; each theorem is about one of them.       *)
(***************************************************************************)
EXTENDS Config, Postgres, TLAPS

-----------------------------------------------------------------------------
(* Configuration and logging.                                              *)

\* The documents every value of which parses, and the configurations they give.
Loadable(doc) ==
  /\ ListenAddress(doc.listen) # "ParseListenAddressError"
  /\ LogFilter(doc.filter) # "ParseError"
  /\ PublicUrl(doc.url) # "ParsePublicUrlError"
  /\ DatabaseUrl(doc.database) = "ok"
  /\ ExternalSource(doc.token) # "unknown"
Loaded == {Deserialized(doc) : doc \in {d \in Docs : Loadable(d)}}

\* What a source may hold.
Contents == {Text(doc) : doc \in Docs} \cup {Empty, Opaque, Missing}

\* A result is a configuration, whole, or an error with none of it.
Results ==
  [is : {"ok"}, location : {"stdin", "file"}, core : Loaded]
    \cup [is : {"none", "MissingPath", "UnexpectedArgument", "Read", "Parse"},
          location : {"none", "stdin", "file"}, core : {NoCore}]

LoadsOK ==
  /\ disk \in Contents /\ stdin \in Contents
  /\ load \in [Threads -> [stage : {"idle", "reading", "done"}, location : {"none", "stdin", "file"},
                           result : Results]]
  /\ \A t \in Threads : load[t].stage = "reading" => load[t].location # "none"
  /\ core \in Loaded \cup {NoCore}

\* How far init() has got says who holds the subscriber and the adapter, but
\* for what other code installs where nothing is.
LoggingOK ==
  LET ours == logging.subscriber = core.filter /\ core # NoCore IN
  /\ logging \in [subscriber : {"none", "other", DefaultFilter, "debug"}, adapter : {"none", "ours", "other"},
                  init : {"none", "subscribed", "ok", "err"}]
  /\ logging.init = "none" => logging.subscriber \in {"none", "other"} /\ logging.adapter # "ours"
  /\ logging.init = "subscribed" => ours /\ logging.adapter # "ours"
  /\ logging.init = "ok" => ours /\ logging.adapter = "ours"
  /\ logging.init = "err" => logging.subscriber = "other" \/ (ours /\ logging.adapter = "other")

ConfigInv == LoadsOK /\ StdinOnce /\ LoggingOK

\* What a configuration that loads is made of; it is not the one there is
\* before any has loaded, and sources that are not text are told apart from
\* documents.
LEMMA LoadedFields ==
  ASSUME NEW c \in Loaded
  PROVE  /\ c # NoCore
         /\ c.listen \in {"Unix", "Tcp"}
         /\ c.filter \in {DefaultFilter, "debug"}
         /\ c.url # "ParsePublicUrlError" /\ ((c.urls = "Automatic") <=> (c.url = Absent))
         /\ c.doc.database.colon /\ c.doc.database.scheme # "http" /\ ~c.doc.database.malformed
         /\ ~c.doc.token.string => c.doc.token.keys \in {{"file"}, {"env"}}
<1>1. PICK doc \in Docs : Loadable(doc) /\ c = Deserialized(doc)
  BY DEF Loaded
<1>2. doc \in Doc
  BY ConfigAssumption
<1>3. c.listen \in {"Unix", "Tcp"} /\ c # NoCore
  <2>1. c.listen = ListenAddress(doc.listen)
    BY <1>1 DEF Deserialized
  <2>2. ListenAddress(doc.listen) \in {"Unix", "Tcp"}
    BY <1>1 DEF Loadable, ListenAddress
  <2>3. NoCore.listen = "absent"
    BY DEF NoCore, Absent
  <2> QED
    BY <2>1, <2>2, <2>3
<1>4. c.filter \in {DefaultFilter, "debug"}
  BY <1>1, <1>2 DEF Deserialized, Loadable, LogFilter, Doc, Absent
<1>5. c.url = PublicUrl(doc.url) /\ c.urls = UrlSource(doc.url) /\ c.doc = doc
  BY <1>1 DEF Deserialized
<1>6. c.url # "ParsePublicUrlError" /\ ((c.urls = "Automatic") <=> (c.url = Absent))
  BY <1>1, <1>5 DEF Loadable, PublicUrl, UrlSource, Absent
<1>7. c.doc.database.colon /\ c.doc.database.scheme # "http" /\ ~c.doc.database.malformed
  BY <1>1, <1>5 DEF Loadable, DatabaseUrl, PostgresSchemes
<1>8. ~c.doc.token.string => c.doc.token.keys \in {{"file"}, {"env"}}
  BY <1>1, <1>5 DEF Loadable, ExternalSource
<1> QED
  BY <1>3, <1>4, <1>6, <1>7, <1>8

\* load_location() gives a whole configuration or an error, and a
\* configuration only for text.
LEMMA LoadLocationResults ==
  ASSUME NEW content \in Contents, NEW location \in {"stdin", "file"}
  PROVE  /\ LoadLocation(content, location) \in Results
         /\ LoadLocation(content, location).is = "ok" => content.text
<1>1. CASE content \in {Missing, Opaque}
  BY <1>1 DEF LoadLocation, Results
<1>2. CASE content \notin {Missing, Opaque}
  <2>1. LoadLocation(content, location) = Deserialize(content, location)
    BY <1>2 DEF LoadLocation
  <2>2. CASE content = Empty
    BY <2>1, <2>2 DEF Deserialize, Results, Empty
  <2>3. ASSUME NEW doc \in Docs, content = Text(doc) PROVE LoadLocation(content, location) \in Results /\ content.text
    <3>1. content.doc = doc /\ content.text
      BY <2>3 DEF Text
    <3> DEFINE fields == Deserialized(doc)
    <3>2. /\ fields.listen = ListenAddress(doc.listen) /\ fields.filter = LogFilter(doc.filter)
          /\ fields.url = PublicUrl(doc.url) /\ fields.database = DatabaseUrl(doc.database)
          /\ fields.token = ExternalSource(doc.token)
      BY DEF Deserialized
    <3>3. Loadable(doc) => fields \in Loaded
      BY DEF Loaded
    <3> HIDE DEF fields
    <3>4. Deserialize(content, location) =
            IF Loadable(doc) THEN [is |-> "ok", location |-> location, core |-> fields]
            ELSE [is |-> "Parse", location |-> location, core |-> NoCore]
      BY <3>1, <3>2 DEF Deserialize, Loadable, fields
    <3> QED
      BY <2>1, <3>1, <3>3, <3>4 DEF Results
  <2> QED
    BY <1>2, <2>2, <2>3 DEF Contents
<1> QED
  BY <1>1, <1>2

LEMMA ConfigInitInv == ConfigInit => ConfigInv
<1> SUFFICES ASSUME ConfigInit PROVE ConfigInv
  OBVIOUS
<1>1. NoLoad.result \in Results /\ NoLoad.result.is # "ok"
  BY DEF NoLoad, Failed, Results
<1>2. LoadsOK
  BY <1>1 DEF ConfigInit, LoadsOK, Contents, NoLoad
<1>3. StdinOnce
  BY <1>1 DEF ConfigInit, StdinOnce
<1>4. LoggingOK
  BY DEF ConfigInit, LoggingOK, NoLogging
<1> QED
  BY <1>2, <1>3, <1>4 DEF ConfigInv

\* A call of from_args() or load() that only begins, or fails before it reads.
LEMMA BeginInv ==
  ASSUME ConfigInv, NEW t \in Threads, NEW begun,
         begun \in [stage : {"reading", "done"}, location : {"none", "stdin", "file"},
                    result : {Failed(e) : e \in {"none", "MissingPath", "UnexpectedArgument"}}],
         begun.stage = "reading" => begun.location # "none",
         load' = [load EXCEPT ![t] = begun],
         UNCHANGED <<disk, stdin, secret, core, token, logging>>
  PROVE  ConfigInv'
<1>1. begun.result \in Results /\ begun.result.is # "ok"
  BY DEF Failed, Results
<1>2. LoadsOK'
  BY <1>1 DEF ConfigInv, LoadsOK
<1>3. StdinOnce'
  BY <1>1 DEF ConfigInv, LoadsOK, StdinOnce
<1> QED
  BY <1>2, <1>3 DEF ConfigInv, LoggingOK

\* Whoever reads standard input to its end leaves nothing to the others.
LEMMA ReadInv ==
  ASSUME ConfigInv, NEW t \in Threads, Read(t)
  PROVE  ConfigInv'
<1> DEFINE location == load[t].location
           content == IF location = "stdin" THEN stdin ELSE disk
           result == LoadLocation(content, location)
<1>1. load[t].stage = "reading" /\ location \in {"stdin", "file"} /\ content \in Contents
  BY DEF ConfigInv, LoadsOK, Read
<1>2. result \in Results /\ (result.is = "ok" => content.text)
  BY <1>1, LoadLocationResults
<1>3. /\ load' = [load EXCEPT ![t].stage = "done", ![t].result = result]
      /\ stdin' = IF location = "stdin" THEN Empty ELSE stdin
      /\ UNCHANGED <<disk, secret, core, token, logging>>
  BY DEF Read
<1> HIDE DEF result
<1>4. LoadsOK'
  BY <1>1, <1>2, <1>3 DEF ConfigInv, LoadsOK, Contents
<1>5. /\ load'[t].location = location /\ load'[t].result = result
      /\ \A u \in Threads \ {t} : load'[u] = load[u]
  BY <1>3 DEF ConfigInv, LoadsOK
<1>6. StdinOnce'
  <2>1. ASSUME NEW u \in Threads, load'[u].result.is = "ok", load'[u].location = "stdin"
        PROVE  stdin' = Empty
    BY <1>3, <1>5, <2>1 DEF ConfigInv, StdinOnce
  <2>2. ASSUME NEW u \in Threads \ {t}, result.is = "ok", load[u].result.is = "ok"
        PROVE  {location, load[u].location} # {"stdin"}
    <3>1. CASE location = "stdin" /\ load[u].location = "stdin"
      <4>1. stdin = Empty
        BY <2>2, <3>1 DEF ConfigInv, StdinOnce
      <4> QED
        BY <1>2, <2>2, <3>1, <4>1 DEF Empty
    <3> QED
      BY <3>1
  <2>3. ASSUME NEW u \in Threads, NEW v \in Threads, u # v,
               load'[u].result.is = "ok", load'[v].result.is = "ok"
        PROVE  {load'[u].location, load'[v].location} # {"stdin"}
    <3>1. CASE u # t /\ v # t
      BY <1>5, <2>3, <3>1 DEF ConfigInv, StdinOnce
    <3>2. CASE u = t \/ v = t
      BY <1>5, <2>2, <2>3, <3>2
    <3> QED
      BY <3>1, <3>2
  <2> QED
    BY <2>1, <2>3 DEF StdinOnce
<1> QED
  BY <1>3, <1>4, <1>6 DEF ConfigInv, LoggingOK

\* The process runs with one configuration for good, and only with one that
\* has loaded.
LEMMA AdoptInv ==
  ASSUME ConfigInv, NEW t \in Threads, Adopt(t)
  PROVE  ConfigInv' /\ (core # NoCore => core' = core)
<1>1. load[t].result.core \in Loaded \cup {NoCore}
  BY DEF ConfigInv, LoadsOK, Results
<1>2. NoLoad.result \in Results /\ NoLoad.result.is # "ok"
  BY DEF NoLoad, Failed, Results
<1>3. load' = [load EXCEPT ![t] = NoLoad] /\ UNCHANGED <<disk, stdin, logging>>
  BY DEF Adopt
<1>4. (core # NoCore => core' = core) /\ core' \in Loaded \cup {NoCore}
  BY <1>1 DEF Adopt, ConfigInv, LoadsOK
<1>5. LoadsOK'
  BY <1>2, <1>3, <1>4 DEF ConfigInv, LoadsOK, NoLoad
<1>6. StdinOnce'
  BY <1>2, <1>3 DEF ConfigInv, LoadsOK, StdinOnce
<1>7. LoggingOK'
  BY <1>3, <1>4 DEF ConfigInv, LoggingOK
<1> QED
  BY <1>4, <1>5, <1>6, <1>7 DEF ConfigInv

\* The steps of init() and of other code that installs logging.
LEMMA LoggingInv ==
  ASSUME ConfigInv, InitLogging \/ InitAdapter \/ OtherLogging
  PROVE  ConfigInv'
<1>1. core # NoCore => core.filter \in {DefaultFilter, "debug"} /\ core.filter \notin {"none", "other"}
  BY LoadedFields DEF ConfigInv, LoadsOK, DefaultFilter
<1>2. UNCHANGED <<disk, stdin, load, core>>
  BY DEF InitLogging, InitAdapter, OtherLogging
<1>3. LoggingOK'
  <2>1. CASE InitLogging
    BY <1>1, <2>1 DEF ConfigInv, LoggingOK, InitLogging
  <2>2. CASE InitAdapter
    BY <1>1, <2>2 DEF ConfigInv, LoggingOK, InitAdapter
  <2>3. CASE OtherLogging
    BY <1>1, <2>3 DEF ConfigInv, LoggingOK, OtherLogging
  <2> QED
    BY <2>1, <2>2, <2>3
<1> QED
  BY <1>2, <1>3 DEF ConfigInv, LoadsOK, StdinOnce

LEMMA ConfigStepInv == ConfigInv /\ [ConfigNext]_configVars => ConfigInv' /\ (core # NoCore => core' = core)
<1> SUFFICES ASSUME ConfigInv, [ConfigNext]_configVars
             PROVE  ConfigInv' /\ (core # NoCore => core' = core)
  OBVIOUS
<1>1. ASSUME NEW t \in Threads, Read(t) PROVE ConfigInv' /\ core' = core
  BY <1>1, ReadInv DEF Read
<1>2. ASSUME NEW t \in Threads, Adopt(t) PROVE ConfigInv' /\ (core # NoCore => core' = core)
  BY <1>2, AdoptInv
<1>3. ASSUME NEW t \in Threads, NEW arguments \in Arguments, FromArgs(t, arguments)
      PROVE  ConfigInv' /\ core' = core
  <2>1. CASE Len(arguments) < 2
    BY <1>3, <2>1, BeginInv DEF FromArgs, Reject
  <2>2. CASE Len(arguments) > 2
    BY <1>3, <2>2, BeginInv DEF FromArgs, Reject
  <2>3. CASE ~(Len(arguments) < 2) /\ ~(Len(arguments) > 2)
    BY <1>3, <2>3, BeginInv DEF FromArgs, StartReading, LocationOf
  <2> QED
    BY <2>1, <2>2, <2>3
<1>4. ASSUME NEW t \in Threads, NEW path \in {"-", "path"}, Load(t, path) PROVE ConfigInv' /\ core' = core
  <2> DEFINE begun == [stage |-> "reading", location |-> LocationOf(path), result |-> Failed("none")]
  <2>1. LocationOf(path) \in {"stdin", "file"}
    BY DEF LocationOf
  <2>2. load' = [load EXCEPT ![t] = begun] /\ UNCHANGED <<disk, stdin, secret, core, token, logging>>
    BY <1>4 DEF Load, StartReading
  <2> QED
    BY <2>1, <2>2, BeginInv
<1>5. CASE LoadExternal \/ Rotate
  <2>1. UNCHANGED <<disk, stdin, load, core, logging>>
    BY <1>5 DEF LoadExternal, Rotate
  <2> QED
    BY <2>1 DEF ConfigInv, LoadsOK, StdinOnce, LoggingOK
<1>6. CASE InitLogging \/ InitAdapter \/ OtherLogging
  BY <1>6, LoggingInv DEF InitLogging, InitAdapter, OtherLogging
<1>7. CASE ChangeDisk
  BY <1>7 DEF ConfigInv, LoadsOK, StdinOnce, LoggingOK, ChangeDisk, Contents
<1>8. CASE UNCHANGED configVars
  BY <1>8 DEF ConfigInv, LoadsOK, StdinOnce, LoggingOK, configVars
<1> QED
  BY <1>1, <1>2, <1>3, <1>4, <1>5, <1>6, <1>7, <1>8 DEF ConfigNext

LEMMA ConfigInvariant == ConfigSpec => []ConfigInv
  BY ConfigInitInv, ConfigStepInv, PTL DEF ConfigSpec

\* Standard input is handed out once, however many threads load (StdinOnce).
THEOREM StdinIsReadOnce == ConfigSpec => []StdinOnce
  BY ConfigInvariant, PTL DEF ConfigInv

\* Over the whole life of a process standard input feeds one load at most: a
\* load that gets a configuration from it finds text there and leaves nothing,
\* and what is empty stays so (config.rs:63-69).
THEOREM StdinIsDrained ==
  ConfigSpec => [][/\ stdin = Empty => stdin' = Empty
                   /\ \A t \in Threads :
                        (Read(t) /\ load[t].location = "stdin" /\ load'[t].result.is = "ok")
                          => stdin.text /\ stdin' = Empty]_configVars
<1> DEFINE Drained == /\ stdin = Empty => stdin' = Empty
                      /\ \A t \in Threads :
                           (Read(t) /\ load[t].location = "stdin" /\ load'[t].result.is = "ok")
                             => stdin.text /\ stdin' = Empty
<1>1. ConfigInv /\ [ConfigNext]_configVars => [Drained]_configVars
  <2> SUFFICES ASSUME ConfigInv, ConfigNext PROVE Drained
    OBVIOUS
  <2>1. stdin' = stdin \/ stdin' = Empty
    BY DEF ConfigNext, Read, Adopt, FromArgs, Load, LoadExternal, InitLogging, InitAdapter, OtherLogging,
           ChangeDisk, Rotate
  <2>2. ASSUME NEW t \in Threads, Read(t), load[t].location = "stdin", load'[t].result.is = "ok"
        PROVE  stdin.text /\ stdin' = Empty
    <3>1. load'[t].result = LoadLocation(stdin, "stdin")
      BY <2>2 DEF Read, ConfigInv, LoadsOK
    <3>2. stdin \in Contents
      BY DEF ConfigInv, LoadsOK
    <3> QED
      BY <2>2, <3>1, <3>2, LoadLocationResults DEF Read
  <2> QED
    BY <2>1, <2>2
<1> QED
  BY <1>1, ConfigInvariant, PTL DEF ConfigSpec

\* What loads is usable by every later stage, whole or not there (UsableCore).
THEOREM CoreIsUsable == ConfigSpec => []UsableCore
<1>1. ConfigInv => UsableCore
  <2> SUFFICES ASSUME ConfigInv PROVE UsableCore
    OBVIOUS
  <2>1. ASSUME NEW t \in Threads PROVE load[t].result.is # "ok" <=> load[t].result.core = NoCore
    <3>1. load[t].result \in Results
      BY DEF ConfigInv, LoadsOK
    <3> QED
      BY <3>1, LoadedFields DEF Results
  <2>2. core # NoCore => core \in Loaded
    BY DEF ConfigInv, LoadsOK
  <2>3. core # NoCore => core.filter # "ParseError"
    BY <2>2, LoadedFields DEF DefaultFilter
  <2> QED
    BY <2>1, <2>2, <2>3, LoadedFields DEF UsableCore
<1> QED
  BY <1>1, ConfigInvariant, PTL

\* Ok from init() means the configured filter and the log adapter are in
\* place, Err that something else was (LoggingIsOurs).
THEOREM LoggingIsInstalled == ConfigSpec => []LoggingIsOurs
<1>1. ConfigInv => LoggingIsOurs
  BY DEF ConfigInv, LoggingOK, LoggingIsOurs
<1> QED
  BY <1>1, ConfigInvariant, PTL

-----------------------------------------------------------------------------
(* PostgreSQL: any number of replicas, with any migrations, start on one   *)
(* database.  All follows from the advisory lock being held by the only    *)
(* session that checks, applies or unlocks.                                *)


Migrating == {"checking", "applying", "unlocking"}

\* Whoever migrates on an open session holds the lock.
MigratorHasLock ==
  \A r \in Replicas : rep[r] \in Migrating /\ session[r] => lock = r

\* What the holder has learnt of the history stays true while it holds the lock.
HolderIsCurrent ==
  \A r \in Replicas :
    /\ rep[r] = "applying" /\ session[r] => next[r] = Len(history) + 1
    /\ rep[r] = "unlocking" /\ session[r] => Len(history) >= Migrations[r]

\* Migrations are not taken back.
ReadyIsCurrent == \A r \in Replicas : rep[r] = "ready" => Len(history) >= Migrations[r]

PgInv ==
  /\ PgTypeOK /\ NoLockLeft /\ InOrder /\ StartsDoNotCollide
  /\ MigratorHasLock /\ HolderIsCurrent /\ ReadyIsCurrent

USE DEF Nobody

LEMMA PgInitInv == PgInit => PgInv
  BY PostgresAssumption
     DEF PgInit, PgInv, PgTypeOK, NoLockLeft, InOrder, StartsDoNotCollide, MigratorHasLock,
         HolderIsCurrent, ReadyIsCurrent, Migrating, Stages, Steps, MigrateErrors

\* The history in order has every migration up to its length.
LEMMA InOrderDone ==
  ASSUME history \in Seq(Nat), InOrder, NEW m \in Nat
  PROVE  Done(m) <=> m \in 1..Len(history)
  BY DEF InOrder, Done

LEMMA PgInvStep == PgInv /\ [PgNext]_pgVars => PgInv'
<1> SUFFICES ASSUME PgInv, [PgNext]_pgVars PROVE PgInv'
  OBVIOUS
<1> USE PostgresAssumption
        DEF PgInv, PgTypeOK, NoLockLeft, StartsDoNotCollide, MigratorHasLock,
            HolderIsCurrent, ReadyIsCurrent, Migrating, Stages, Steps, MigrateErrors
<1>0. ASSUME NEW r \in Replicas, NEW e \in MigrateErrors \cup {"connect"}, e # "duplicate", Fail(r, e)
      PROVE  PgInv'
  BY <1>0 DEF Fail, CloseSession, Goto, InOrder
<1>1. ASSUME NEW r \in Replicas, Begin(r) PROVE PgInv'
  BY <1>1 DEF Begin, Goto, InOrder
<1>2. ASSUME NEW r \in Replicas, Connect(r) PROVE PgInv'
  BY <1>0, <1>2 DEF Connect, Goto, InOrder
<1>3. ASSUME NEW r \in Replicas, Lock(r) PROVE PgInv'
  BY <1>3 DEF Lock, Goto, InOrder
<1>4. ASSUME NEW r \in Replicas, Check(r) PROVE PgInv'
  <2>1. CASE \E i \in DOMAIN history : history[i] > Migrations[r]
    <3>1. Fail(r, "newer")
      BY <1>4, <2>1 DEF Check
    <3> QED
      BY <1>0, <3>1
  <2>2. CASE ~\E i \in DOMAIN history : history[i] > Migrations[r]
    <3>1. /\ rep[r] = "checking" /\ session[r] /\ rep' = [rep EXCEPT ![r] = "applying"]
          /\ next' = [next EXCEPT ![r] = Len(history) + 1]
          /\ UNCHANGED <<up, history, lock, session, crashes>>
      BY <1>4, <2>2 DEF Check, Goto
    <3>2. Len(history) + 1 \in Nat \ {0}
      OBVIOUS
    <3>3. PgTypeOK'
      BY <3>1, <3>2
    <3> QED
      BY <3>1, <3>2, <3>3 DEF InOrder
  <2> QED
    BY <2>1, <2>2
<1>5. ASSUME NEW r \in Replicas, Apply(r) PROVE PgInv'
  <2>1. next[r] = Len(history) + 1 /\ lock = r
    BY <1>5 DEF Apply
  <2>2. ~Done(next[r])
    BY <2>1, InOrderDone
  <2>3. CASE history' = Append(history, next[r])
    <3>1. Apply(r) /\ UNCHANGED <<up, lock, rep, session, crashes>>
              /\ next' = [next EXCEPT ![r] = @ + 1]
      BY <1>5, <2>2, <2>3 DEF Apply, Fail
    <3>2. history' \in Seq(Nat) /\ Len(history') = Len(history) + 1
      BY <2>3
    <3>3. InOrder'
      BY <2>1, <2>3 DEF InOrder
    <3> QED
      BY <2>1, <3>1, <3>2, <3>3
  <2>4. CASE Fail(r, "statement")
    BY <1>0, <2>4
  <2> QED
    BY <1>5, <2>2, <2>3, <2>4 DEF Apply
<1>6. ASSUME NEW r \in Replicas, Applied(r) PROVE PgInv'
  BY <1>6 DEF Applied, Goto, InOrder
<1>7. ASSUME NEW r \in Replicas, Unlock(r) PROVE PgInv'
  BY <1>7 DEF Unlock, Goto, InOrder
<1>8. ASSUME NEW r \in Replicas, SessionError(r) PROVE PgInv'
  BY <1>0, <1>8 DEF SessionError
<1>9. ASSUME NEW r \in Replicas, LoseSession(r) PROVE PgInv'
  BY <1>9 DEF LoseSession, CloseSession, InOrder
<1>10. ASSUME NEW r \in Replicas, Crash(r) PROVE PgInv'
  BY <1>10 DEF Crash, CloseSession, Goto, InOrder
<1>11. CASE Outage
  BY <1>11 DEF Outage, InOrder
<1>12. CASE UNCHANGED pgVars
  BY <1>12 DEF pgVars, InOrder
<1> QED
  BY <1>1, <1>2, <1>3, <1>4, <1>5, <1>6, <1>7, <1>8, <1>9, <1>10, <1>11, <1>12 DEF PgNext, Start

LEMMA PgInvariant == PgSafety => []PgInv
  BY PgInitInv, PgInvStep, PTL DEF PgSafety

\* Type correctness of the starts (PgTypeOK), and that only replicas past
\* their connecting and short of an error have a session.
THEOREM PgTypeCorrect == PgSafety => []PgTypeOK
  BY PgInvariant, PTL DEF PgInv

\* However many replicas start at once, each migration is applied once and in
\* order (InOrder).
THEOREM MigrationsInOrder == PgSafety => []InOrder
  BY PgInvariant, PTL DEF PgInv

\* A start that is over, well or not, has left no lock (NoLockLeft).
THEOREM NoLockIsLeft == PgSafety => []NoLockLeft
  BY PgInvariant, PTL DEF PgInv

\* No replica fails because another one migrates (StartsDoNotCollide).
THEOREM StartsAreIndependent == PgSafety => []StartsDoNotCollide
  BY PgInvariant, PTL DEF PgInv

\* The pool connect_and_migrate() returns is on a database that has all of the
\* replica's migrations (ReadyIsMigrated).
THEOREM ReadyHasMigrated == PgSafety => []ReadyIsMigrated
<1>1. PgInv => ReadyIsMigrated
  BY InOrderDone, PostgresAssumption DEF PgInv, PgTypeOK, ReadyIsCurrent, ReadyIsMigrated
<1> QED
  BY <1>1, PgInvariant, PTL

-----------------------------------------------------------------------------
(* The promise of MigrationLog.                                            *)

\* A step of a replica that only changes what is seen of its own start.
LEMMA OneStartTurns ==
  ASSUME PgInv, NEW r \in Replicas, NEW from, NEW to, Outcome(r) \in from, Outcome(r)' = to,
         \A q \in Replicas \ {r} : Outcome(q)' = Outcome(q), history' = history
  PROVE  Log!Turn(r, from, to)
  BY DEF Log!Turn

LEMMA LogStep == PgInv /\ [PgNext]_pgVars => [Log!LogNext]_(Log!logVars)
<1> SUFFICES ASSUME PgInv, [PgNext]_pgVars PROVE Log!LogNext \/ UNCHANGED Log!logVars
  OBVIOUS
<1> USE DEF PgInv, PgTypeOK, Log!LogNext, Log!Ended
\* Errors and crashes of a replica that was at an inner step.
<1>0. ASSUME NEW r \in Replicas, NEW e \in {"connect", "statement", "session"}, rep[r] \in Steps, Fail(r, e)
      PROVE  Log!Abort(r)
  <2>1. Outcome(r) = "running" /\ Outcome(r)' = "failed"
    BY <1>0 DEF Outcome, Fail, Goto, Steps
  <2>2. \A q \in Replicas \ {r} : Outcome(q)' = Outcome(q)
    BY <1>0 DEF Outcome, Fail, Goto
  <2> QED
    BY <1>0, <2>1, <2>2, OneStartTurns DEF Fail, Log!Abort
<1>1. ASSUME NEW r \in Replicas, Begin(r) PROVE Log!Run(r)
  <2>1. Outcome(r) \in Log!Ended /\ Outcome(r)' = "running"
    BY <1>1 DEF Outcome, Begin, Goto, Steps, MigrateErrors, StartsDoNotCollide
  <2>2. \A q \in Replicas \ {r} : Outcome(q)' = Outcome(q)
    BY <1>1 DEF Outcome, Begin, Goto
  <2> QED
    BY <1>1, <2>1, <2>2, OneStartTurns DEF Begin, Log!Run
\* The steps in between go unseen.
<1>2. ASSUME NEW r \in Replicas, NEW to \in Steps, rep[r] \in Steps, Goto(r, to), history' = history
      PROVE  UNCHANGED Log!logVars
  <2>1. \A q \in Replicas : Outcome(q)' = Outcome(q)
    BY <1>2 DEF Outcome, Goto
  <2> QED
    BY <1>2, <2>1 DEF Log!logVars
<1>3. ASSUME NEW r \in Replicas, Connect(r) PROVE Log!Abort(r) \/ UNCHANGED Log!logVars
  BY <1>0, <1>2, <1>3 DEF Connect, Steps
<1>4. ASSUME NEW r \in Replicas, Lock(r) \/ Applied(r) PROVE UNCHANGED Log!logVars
  BY <1>2, <1>4 DEF Lock, Applied, Steps
<1>5. ASSUME NEW r \in Replicas, Check(r) PROVE Log!Refuse(r) \/ UNCHANGED Log!logVars
  <2>1. CASE \E i \in DOMAIN history : history[i] > Migrations[r]
    <3>1. Len(history) > Migrations[r]
      <4>1. PICK i \in 1..Len(history) : history[i] > Migrations[r] /\ history[i] = i
        BY <2>1 DEF InOrder
      <4> QED
        BY <4>1, PostgresAssumption
    <3>2. Fail(r, "newer")
      BY <1>5, <2>1 DEF Check
    <3>3. Outcome(r) = "running" /\ Outcome(r)' = "newer"
      BY <1>5, <3>2 DEF Outcome, Check, Fail, Goto, Steps
    <3>4. \A q \in Replicas \ {r} : Outcome(q)' = Outcome(q)
      BY <3>2 DEF Outcome, Fail, Goto
    <3> QED
      BY <3>1, <3>2, <3>3, <3>4, OneStartTurns DEF Fail, Log!Refuse
  <2>2. CASE ~\E i \in DOMAIN history : history[i] > Migrations[r]
    BY <1>2, <1>5, <2>2 DEF Check, Steps
  <2> QED
    BY <2>1, <2>2
<1>6. ASSUME NEW r \in Replicas, Apply(r) PROVE Log!ApplyNext(r) \/ Log!Abort(r)
  <2>1. next[r] = Len(history) + 1 /\ Outcome(r) = "running"
    BY <1>6 DEF Apply, HolderIsCurrent, Outcome, Steps
  <2>2. ~Done(next[r])
    BY <2>1, InOrderDone
  <2>3. CASE history' = Append(history, next[r]) /\ UNCHANGED rep
    <3>1. Len(history) < Migrations[r]
      BY <1>6, <2>1, PostgresAssumption DEF Apply
    <3>2. \A q \in Replicas : Outcome(q)' = Outcome(q)
      BY <2>3 DEF Outcome
    <3> QED
      BY <2>1, <2>3, <3>1, <3>2 DEF Log!ApplyNext
  <2>4. CASE Fail(r, "statement")
    BY <1>0, <1>6, <2>4 DEF Apply, Steps
  <2> QED
    BY <1>6, <2>2, <2>3, <2>4 DEF Apply
<1>7. ASSUME NEW r \in Replicas, Unlock(r) PROVE Log!Succeed(r)
  <2>1. Len(history) >= Migrations[r]
    BY <1>7 DEF Unlock, HolderIsCurrent
  <2>2. Outcome(r) = "running" /\ Outcome(r)' = "ready"
    BY <1>7 DEF Outcome, Unlock, Goto, Steps
  <2>3. \A q \in Replicas \ {r} : Outcome(q)' = Outcome(q)
    BY <1>7 DEF Outcome, Unlock, Goto
  <2> QED
    BY <1>7, <2>1, <2>2, <2>3, OneStartTurns DEF Unlock, Log!Succeed
<1>8. ASSUME NEW r \in Replicas, SessionError(r) PROVE Log!Abort(r)
  BY <1>0, <1>8 DEF SessionError
<1>9. ASSUME NEW r \in Replicas, LoseSession(r) PROVE UNCHANGED Log!logVars
  BY <1>9 DEF LoseSession, Outcome, Log!logVars
<1>10. ASSUME NEW r \in Replicas, Crash(r) PROVE Log!Stop(r)
  <2>1. Outcome(r) \in {"running", "ready"} \cup Log!Ended /\ Outcome(r)' = "off"
    BY <1>10 DEF Outcome, Crash, Goto, Steps, Stages, MigrateErrors, StartsDoNotCollide
  <2>2. \A q \in Replicas \ {r} : Outcome(q)' = Outcome(q)
    BY <1>10 DEF Outcome, Crash, Goto
  <2> QED
    BY <1>10, <2>1, <2>2, OneStartTurns DEF Crash, Log!Stop
<1>11. CASE Outage
  BY <1>11 DEF Outage, Outcome, Log!logVars
<1>12. CASE UNCHANGED pgVars
  BY <1>12 DEF pgVars, Outcome, Log!logVars
<1> QED
  BY <1>1, <1>3, <1>4, <1>5, <1>6, <1>7, <1>8, <1>9, <1>10, <1>11, <1>12 DEF PgNext, Start

\* Any number of replicas, of any releases, keep the promise of MigrationLog:
\* one history that grows by the next migration, pools only on all of one's own
\* and no start turned away but for a newer history (ImplementsLog).
THEOREM StartsAreALog == PgSafety => ImplementsLog
<1>1. PgInit => Log!LogInit
  BY DEF PgInit, Log!LogInit, Outcome, Steps
<1> QED
  BY <1>1, LogStep, PgInvariant, PTL DEF PgSafety, ImplementsLog, Log!LogSpec
=============================================================================
