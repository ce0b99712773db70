-------------------------------- MODULE Urls --------------------------------
(***************************************************************************)
(* src/src/urls.rs, with PublicUrl and Core of src/src/config.rs: how the  *)
(* public address of the application is configured or read from a request, *)
(* and the links built on it.  A string of a path is a sequence over "/",  *)
(* "\", "?", "#", a blank (for every character no URI may hold) and "a"    *)
(* (for the rest); other strings are values of small sets.  The URI parser *)
(* takes a backslash, which browsers read as a slash.                      *)
(***************************************************************************)
EXTENDS Integers, Sequences, FiniteSets

CONSTANTS
  Hosts,       \* hosts with an optional port
  Prefixes,    \* paths a configuration or a header may name
  Paths        \* paths handlers ask links for

Chars == {"/", "\\", "?", "#", " ", "a"}

\* A host is not one of the ways a string fails to name one.
ASSUME UrlsAssumption ==
  /\ Prefixes \subseteq Seq(Chars) /\ Paths \subseteq Seq(Chars)
  /\ Hosts \cap {"", "absent", "malformed"} = {}

VARIABLES
  source,      \* the registered UrlSource
  configured,  \* what Core::urls() returns, for work outside requests
  request,     \* the headers of the last request
  reply,       \* what extracting Urls from it returned
  link         \* the last link built from it

urlsVars == <<source, configured, request, reply, link>>

Has(s, c) == \E i \in DOMAIN s : s[i] = c

-----------------------------------------------------------------------------
(* Conversions of the http crate. *)

\* The part of a path before its fragment, which PathAndQuery discards.
NoFragment(s) ==
  CHOOSE p \in {SubSeq(s, 1, n) : n \in 0..Len(s)} :
    /\ ~Has(p, "#")
    /\ p # s => s[Len(p) + 1] = "#"

Parses(s) == ~Has(NoFragment(s), " ")

-----------------------------------------------------------------------------
(* PublicUrl. *)

Origins == [scheme : {"http", "https"}, cred : BOOLEAN, host : Hosts]
NoOrigin == [scheme |-> "none"]

\* A string given as public_url, as the URI parser sees it.
RawUrl == [scheme : {"none", "http", "https", "other"}, cred : BOOLEAN,
           host : Hosts \cup {"", "malformed"}, path : Prefixes]

\* Mutant: any scheme will do.
ParsePublicUrlAnyScheme(raw) ==
  IF Has(raw.path, "?") \/ Has(raw.path, "#") THEN "QueryOrFragment"
  ELSE IF raw.host = "malformed" \/ ~Parses(raw.path) THEN "Invalid"
  ELSE IF raw.host = "" THEN "Origin"
  ELSE "ok"

\* Mutant: queries and fragments are left to the URI parser.
ParsePublicUrlUnchecked(raw) ==
  IF raw.host = "malformed" \/ ~Parses(raw.path) THEN "Invalid"
  ELSE IF raw.scheme \notin {"http", "https"} \/ raw.host = "" THEN "Origin"
  ELSE "ok"

\* FromStr for PublicUrl: the checks, in their order.
ParsePublicUrl(raw) ==
  IF Has(raw.path, "?") \/ Has(raw.path, "#") THEN "QueryOrFragment"
  ELSE IF raw.host = "malformed" \/ ~Parses(raw.path) THEN "Invalid"
  ELSE IF raw.scheme \notin {"http", "https"} \/ raw.host = "" THEN "Origin"
  ELSE "ok"

\* A URI has a path: "/" for none, and what does not follow the authority
\* with a slash is no path.
RawUrls == {raw \in RawUrl : raw.path = <<>> \/ raw.path[1] = "/"}

\* From<&PublicUrl> for Urls.
FromPublicUrl(raw) ==
  [script |-> IF raw.path = <<>> THEN <<"/">> ELSE raw.path,
   origin |-> [scheme |-> raw.scheme, cred |-> raw.cred, host |-> raw.host]]

\* Mutant: a prefix may begin with any number of slashes.
InternalPrefixSlashes(s) ==
  /\ s # <<>> /\ s[1] = "/"
  /\ \A c \in {"?", "#", "\\", " "} : ~Has(s, c)
  /\ Parses(s)

\* Urls::internal_only: the prefixes it does not panic on.
InternalPrefix(s) ==
  /\ s # <<>> /\ s[1] = "/"
  /\ Len(s) > 1 => s[2] # "/"
  /\ \A c \in {"?", "#", "\\", " "} : ~Has(s, c)
  /\ Parses(s)

InternalOnly(s) == [script |-> s, origin |-> NoOrigin]

-----------------------------------------------------------------------------
(* Links. *)

\* prefixed_path: both sides lose every slash at the seam and get one.
TrimEnd(s) ==
  SubSeq(s, 1, CHOOSE n \in 0..Len(s) : /\ n > 0 => s[n] # "/"
                                        /\ \A i \in (n + 1)..Len(s) : s[i] = "/")
TrimStart(s) ==
  SubSeq(s, CHOOSE n \in 1..(Len(s) + 1) : /\ n <= Len(s) => s[n] # "/"
                                           /\ \A i \in 1..(n - 1) : s[i] = "/", Len(s))

\* Mutant: one slash of the prefix is dropped, not all.
PrefixedPathOnce(script, path) ==
  (IF script # <<>> /\ script[Len(script)] = "/" THEN SubSeq(script, 1, Len(script) - 1)
   ELSE script) \o <<"/">> \o TrimStart(path)

PrefixedPath(script, path) == TrimEnd(script) \o <<"/">> \o TrimStart(path)

\* internal() panics, and external() fails, where the join does not parse.
Internal(urls, path) ==
  LET joined == PrefixedPath(urls.script, path) IN
  [urls |-> urls, path |-> path, origin |-> NoOrigin, url |-> NoFragment(joined),
   outcome |-> IF Parses(joined) THEN "ok" ELSE "panic"]

External(urls, path) ==
  LET joined == PrefixedPath(urls.script, path) IN
  [urls |-> urls, path |-> path, origin |-> urls.origin, url |-> NoFragment(joined),
   outcome |-> IF urls.origin = NoOrigin THEN "InternalOnly"
               ELSE IF Parses(joined) THEN "ok" ELSE "InvalidUri"]

\* public_host: what follows the last "@" of the authority.
PublicHost(urls) == IF urls.origin = NoOrigin THEN "none" ELSE urls.origin.host

-----------------------------------------------------------------------------
(* Extraction. *)

\* A header is absent, not ASCII, or one of the values.  A host is malformed
\* if it is not ASCII, holds "@", "," or "\", or is no authority.
Headers == [script : [is : {"absent", "opaque"}, value : {<<>>}] \cup [is : {"text"}, value : Prefixes],
            proto : {"absent", "opaque", "other", "http", "https"},
            forwarded : {"absent", "malformed"} \cup Hosts,
            host : {"absent", "malformed"} \cup Hosts]

Rejected(status) == [status |-> status]

\* The request's task panics and no response is made.
Panicked == [status |-> -1]
Accepted(urls) == [status |-> 200, urls |-> urls]

HostOf(h) == IF h.forwarded # "absent" THEN h.forwarded ELSE h.host

\* Mutant: the port the server listens on is preferred to the proxy's host.
DetectHostFirst(h) ==
  IF h.script.is = "opaque" \/ h.proto \in {"opaque", "other"} THEN Rejected(502)
  ELSE IF h.host \notin Hosts THEN Rejected(400)
  ELSE Accepted([script |-> IF h.script.is = "absent" THEN <<"/">> ELSE h.script.value,
                 origin |-> [scheme |-> IF h.proto = "absent" THEN "http" ELSE h.proto,
                             cred |-> FALSE, host |-> h.host]])

\* UrlSource::Automatic: the prefix is looked at first, then the scheme, then
\* the host, of which only the forwarded one if there is one.
Detect(h) ==
  IF h.script.is = "opaque" THEN Rejected(502)
  ELSE IF h.proto \in {"opaque", "other"} THEN Rejected(502)
  ELSE IF HostOf(h) \notin Hosts THEN Rejected(400)
  ELSE Accepted([script |-> IF h.script.is = "absent" THEN <<"/">> ELSE h.script.value,
                 origin |-> [scheme |-> IF h.proto = "absent" THEN "http" ELSE h.proto,
                             cred |-> FALSE, host |-> HostOf(h)]])

\* An internal prefix is asserted again, for each request.
FromRequestParts(src, h) ==
  CASE src.is = "missing" -> Rejected(500)
    [] src.is = "explicit" -> Accepted(FromPublicUrl(src.url))
    [] src.is = "internal" -> IF InternalPrefix(src.prefix) THEN Accepted(InternalOnly(src.prefix)) ELSE Panicked
    [] OTHER -> Detect(h)

-----------------------------------------------------------------------------
(* One application: configured, then serving requests. *)

NoUrls == [script |-> <<>>, origin |-> NoOrigin]
NoLink == [Internal(NoUrls, <<>>) EXCEPT !.outcome = "none"]
NoRequest == [forwarded |-> "none"]

UrlsInit ==
  /\ source = [is |-> "unset"]
  /\ configured = NoUrls
  /\ request = NoRequest
  /\ reply = Rejected(0)
  /\ link = NoLink

\* The configuration is loaded with a public_url: Core::urls and
\* Core::url_source use it, or loading fails.
Configure(raw) ==
  /\ source.is = "unset"
  /\ IF ParsePublicUrl(raw) = "ok"
     THEN /\ source' = [is |-> "explicit", url |-> raw]
          /\ configured' = FromPublicUrl(raw)
     ELSE /\ source' = [is |-> "refused", why |-> ParsePublicUrl(raw)]
          /\ UNCHANGED configured
  /\ UNCHANGED <<request, reply, link>>

\* Without a public_url: automatic detection, a prefix put into the public
\* variant UrlSource::InternalOnly as it is, or no registration at all.
OtherSources ==
  {[is |-> "automatic"], [is |-> "missing"]}
    \cup {[is |-> "internal", checked |-> FALSE, prefix |-> s] : s \in Prefixes}

Register(src) ==
  /\ source.is = "unset"
  /\ source' = src
  /\ UNCHANGED <<configured, request, reply, link>>

\* UrlSource::internal, which panics on a prefix that internal_only refuses.
RegisterInternal(prefix) ==
  /\ source.is = "unset"
  /\ source' = IF InternalPrefix(prefix) THEN [is |-> "internal", checked |-> TRUE, prefix |-> prefix]
               ELSE [is |-> "refused", why |-> "panic"]
  /\ UNCHANGED <<configured, request, reply, link>>

\* One request and one link of each behaviour are looked at: neither changes
\* what the next one finds.
Extract(h) ==
  /\ source.is \notin {"unset", "refused"}
  /\ reply.status = 0
  /\ link = NoLink
  /\ request' = h
  /\ reply' = FromRequestParts(source, h)
  /\ UNCHANGED <<source, configured, link>>

\* The handler gets what was extracted and nothing else of the request.
Handle ==
  /\ request # NoRequest
  /\ reply.status = 200
  /\ request' = NoRequest
  /\ UNCHANGED <<source, configured, reply, link>>

\* A handler builds a link with what it extracted (a redirect_to builds an
\* internal one), a background job with what Core::urls returned.
Link(path) ==
  /\ link = NoLink
  /\ request = NoRequest
  /\ \E urls \in {configured} \cup IF reply.status = 200 THEN {reply.urls} ELSE {} :
       /\ urls # NoUrls
       /\ link' \in {Internal(urls, path), External(urls, path)}
  /\ UNCHANGED <<source, configured, request, reply>>

UrlsNext ==
  \/ \E raw \in RawUrls : Configure(raw)
  \/ \E src \in OtherSources : Register(src)
  \/ \E prefix \in Prefixes : RegisterInternal(prefix)
  \/ \E h \in Headers : Extract(h)
  \/ Handle
  \/ \E path \in Paths : Link(path)

UrlsSpec == UrlsInit /\ [][UrlsNext]_urlsVars

UrlsType == [script : Seq(Chars), origin : Origins \cup {NoOrigin}]

UrlsTypeOK ==
  /\ configured \in UrlsType
  /\ link.url \in Seq(Chars) /\ ~Has(link.url, "#")
  /\ reply.status \in {-1, 0, 400, 500, 502} \/ reply \in [status : {200}, urls : UrlsType]

-----------------------------------------------------------------------------
Fixed == source.is \in {"explicit", "internal"}

Doubled(s) == \E i \in 1..(Len(s) - 1) : s[i] = "/" /\ s[i + 1] = "/"

\* A link keeps every character of prefix and path, in their order, but the
\* slashes where they meet; it has one slash there however many were written,
\* and so adds no empty segment (urls.rs:204-210).  A fragment is cut off by
\* the URI builder.
LinkJoins ==
  (link.outcome = "ok" /\ Fixed /\ ~Has(link.path, "#")) =>
    LET s == link.urls.script
        p == link.path
    IN /\ \E m \in 0..Len(s), n \in 1..(Len(p) + 1) :
            /\ link.url = SubSeq(s, 1, m) \o <<"/">> \o SubSeq(p, n, Len(p))
            /\ \A i \in (m + 1)..Len(s) : s[i] = "/"
            /\ \A i \in 1..(n - 1) : p[i] = "/"
       /\ link.url = Internal([link.urls EXCEPT !.script = s \o <<"/">>], <<"/">> \o p).url
       /\ ~Doubled(s) /\ ~Doubled(p) => ~Doubled(link.url)

\* A prefix that was checked never spoils a request or a link: extraction
\* panics only where an application put a prefix into the public variant past
\* UrlSource::internal (urls.rs:101, 260), building a link panics or fails only
\* for what its path holds, and query or fragment of a link are those of the
\* path (urls.rs:157-171, config.rs:256-268).
FixedPrefixIsSound ==
  /\ reply = Panicked => source.is = "internal" /\ ~source.checked
  /\ (Fixed /\ link.outcome # "none") =>
       /\ link.outcome \in {"panic", "InvalidUri"} => Has(link.path, " ")
       /\ Has(link.url, "?") => Has(link.path, "?")
       /\ link.outcome = "InternalOnly" => source.is = "internal"

\* What a proxy for a public URL tells the application.
ProxyHeaders(urls) ==
  [script |-> [is |-> "text", value |-> urls.script], proto |-> urls.origin.scheme,
   forwarded |-> urls.origin.host, host |-> HostOf(request)]

\* Detection behind a proxy that announces a public URL yields the generator
\* that configuring this URL yields, but for credentials, and an extraction
\* that succeeds always has a complete address (urls.rs:65-67).
DetectionAgrees ==
  (source.is = "automatic" /\ request # NoRequest) =>
    /\ reply.status = 200 => PublicHost(reply.urls) \in Hosts
    /\ \A raw \in RawUrls :
         LET urls == FromPublicUrl([raw EXCEPT !.cred = FALSE]) IN
         (ParsePublicUrl(raw) = "ok" /\ [request EXCEPT !.host = HostOf(request)] = ProxyHeaders(urls))
           => reply = Accepted(urls)

\* Browsers take a link that begins so to name a host.
NamesHost(s) == Len(s) > 1 /\ s[1] \in {"/", "\\"} /\ s[2] \in {"/", "\\"}

InternalLink == Fixed /\ link.outcome = "ok" /\ link.origin = NoOrigin

\* "relative URLs retain the visitor's host and port" (urls.rs:8-9): an
\* internal link does not name a host.
InternalKeepsHost == InternalLink => ~NamesHost(link.url)

\* When it does, it was written so: the configured public_url has a path that
\* names a host (urls.rs:241), or the prefix is nothing but slashes, which the
\* join trims, and the path goes on with a backslash, which it does not trim
\* (urls.rs:204-210).  Never does a prefix that internal_only asserts do it,
\* nor do slashes that meet at the seam, however many.
HostOnlyAsWritten ==
  (InternalLink /\ NamesHost(link.url)) =>
    \/ source.is = "explicit" /\ NamesHost(link.urls.script)
    \/ /\ \A i \in DOMAIN link.urls.script : link.urls.script[i] = "/"
       /\ \E n \in DOMAIN link.path :
            link.path[n] = "\\" /\ \A i \in 1..(n - 1) : link.path[i] = "/"
=============================================================================
