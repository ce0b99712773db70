--------------------------- MODULE ListenerProofs ---------------------------
(***************************************************************************)
(* Any number of processes bind, fail, stop and crash on any ports and     *)
(* paths: a port belongs to the listener that reports it, a socket file to *)
(* the listener behind it until an operator removes it.                    *)
(***************************************************************************)
EXTENDS Listener, TLAPS

Listening(p) == lst[p].stage \in {"bound", "up"}

\* Who listens on a port holds it.
PortsAreHeld ==
  \A p \in Procs, n \in Ports : lst[p].local = Tcp(n) => held[n] = p

\* A listener on a path has its file, unless somebody removed it.
FilesAreOwned ==
  \A p \in Procs, path \in Paths :
    lst[p].local = Unix(path) => file[path].owner = p \/ sweeps > 0

\* The owner of a file listens on it, and the file is there.
OwnersListen ==
  \A path \in Paths :
    file[path].owner # Nobody =>
      file[path].exists /\ lst[file[path].owner].local = Unix(path)

\* A local address is concrete.
LocalIsConcrete ==
  \A p \in Procs : lst[p].local \in {NoAddress} \cup {Tcp(n) : n \in Ports} \cup {Unix(path) : path \in Paths}

\* A process that is down has no address.
DownHasNone == \A p \in Procs : lst[p].stage = "down" => lst[p].address = NoAddress

ListenerInv ==
  ListenerTypeOK /\ PortsAreHeld /\ FilesAreOwned /\ OwnersListen /\ LocalIsConcrete /\ DownHasNone

USE DEF Nobody

\* Addresses of different kinds, ports or paths are different.
LEMMA AddressKinds ==
  /\ \A n, path : Tcp(n) # Unix(path) /\ Tcp(n) # NoAddress /\ Unix(path) # NoAddress
  /\ \A m, n : Tcp(m) = Tcp(n) => m = n
  /\ \A x, y : Unix(x) = Unix(y) => x = y
  BY DEF Tcp, Unix, NoAddress

\* The addresses bind() is called with and those it captures.
LEMMA AddressesHas ==
  /\ \A n \in Ports \cup {0} : Tcp(n) \in Addresses
  /\ \A path \in Paths : Unix(path) \in Addresses
  BY DEF Addresses

LEMMA ListenerInitInv == ListenerInit => ListenerInv
  BY ListenerAssumption
     DEF ListenerInit, ListenerInv, ListenerTypeOK, PortsAreHeld, FilesAreOwned, OwnersListen,
         LocalIsConcrete, DownHasNone, Down, NoFile, NoAddress, Tcp, Unix, Errors

\* Closing a listener's socket and dropping its address.
LEMMA ReleaseInv ==
  ASSUME ListenerInv, NEW p \in Procs, Release(p),
         NEW rest \in [stage : {"down", "failed"}, address : Addresses \cup {NoAddress},
                       local : {NoAddress}, error : Errors],
         rest.stage = "down" => rest.address = NoAddress,
         lst' = [lst EXCEPT ![p] = rest]
  PROVE  ListenerInv'
<1> USE ListenerAssumption DEF ListenerInv
<1>1. ListenerTypeOK'
  <2>1. /\ lst' \in [Procs -> [stage : {"down", "bound", "up", "failed"}, address : Addresses \cup {NoAddress},
                              local : Addresses \cup {NoAddress}, error : Errors]]
        /\ \A q \in Procs : (lst'[q].local = NoAddress) <=> lst'[q].stage \in {"down", "failed"}
    BY DEF ListenerTypeOK
  <2>2. /\ held' \in [Ports -> Procs \cup {Nobody}]
        /\ file' \in [Paths -> [exists : BOOLEAN, owner : Procs \cup {Nobody}]]
        /\ sweeps' \in 0..Sweeps
    BY DEF ListenerTypeOK, Release
  <2>3. \A n \in Ports : held'[n] # Nobody => lst'[held'[n]].local = Tcp(n)
    BY DEF ListenerTypeOK, Release
  <2> QED
    BY <2>1, <2>2, <2>3 DEF ListenerTypeOK
<1>2. PortsAreHeld'
  BY AddressKinds DEF ListenerTypeOK, PortsAreHeld, Release
<1>3. FilesAreOwned'
  BY AddressKinds DEF ListenerTypeOK, FilesAreOwned, Release
<1>4. OwnersListen'
  BY AddressKinds DEF ListenerTypeOK, OwnersListen, Release
<1>5. LocalIsConcrete' /\ DownHasNone'
  BY DEF ListenerTypeOK, LocalIsConcrete, DownHasNone
<1> QED
  BY <1>1, <1>2, <1>3, <1>4, <1>5

LEMMA ListenerInvStep == ListenerInv /\ [ListenerNext]_listenerVars => ListenerInv'
<1> SUFFICES ASSUME ListenerInv, [ListenerNext]_listenerVars PROVE ListenerInv'
  OBVIOUS
<1> USE ListenerAssumption DEF ListenerInv
<1>1. ASSUME NEW p \in Procs, Capture(p) PROVE ListenerInv'
  BY <1>1 DEF Capture, ListenerTypeOK, PortsAreHeld, FilesAreOwned, OwnersListen, LocalIsConcrete, DownHasNone
<1>2. ASSUME NEW p \in Procs, CaptureFails(p) PROVE ListenerInv'
  <2> DEFINE error == IF lst[p].address.is = "tcp" THEN "ReadTcpAddress" ELSE "ReadUnixAddress"
             rest == [lst[p] EXCEPT !.stage = "failed", !.local = NoAddress, !.error = error]
  <2>1. lst' = [lst EXCEPT ![p] = rest] /\ Release(p)
    BY <1>2 DEF CaptureFails, ListenerTypeOK
  <2>2. /\ rest \in [stage : {"down", "failed"}, address : Addresses \cup {NoAddress},
                     local : {NoAddress}, error : Errors]
        /\ rest.stage = "failed"
    BY DEF ListenerTypeOK, Errors
  <2> QED
    BY <2>1, <2>2, ReleaseInv
<1>3. ASSUME NEW p \in Procs, Stop(p) PROVE ListenerInv'
  <2>1. /\ Down \in [stage : {"down", "failed"}, address : Addresses \cup {NoAddress},
                     local : {NoAddress}, error : Errors]
        /\ Down.address = NoAddress
    BY DEF Down, Errors
  <2> QED
    BY <1>3, <2>1, ReleaseInv DEF Stop
<1>4. ASSUME NEW p \in Procs, NEW port \in Ports \cup {0}, BindTcp(p, port) PROVE ListenerInv'
  <2>1. CASE \E n \in Ports : /\ held[n] = Nobody
                              /\ Bind(p, Tcp(port), "bound", Tcp(n), "none")
                              /\ held' = [held EXCEPT ![n] = p]
                              /\ UNCHANGED <<file, sweeps>>
    <3> PICK n \in Ports : /\ held[n] = Nobody
                           /\ Bind(p, Tcp(port), "bound", Tcp(n), "none")
                           /\ held' = [held EXCEPT ![n] = p]
                           /\ UNCHANGED <<file, sweeps>>
      BY <2>1
    <3>1. ListenerTypeOK'
      BY DEF ListenerTypeOK, Bind, Addresses, NoAddress, Tcp, Errors
    <3>2. PortsAreHeld'
      BY DEF ListenerTypeOK, PortsAreHeld, Bind, Tcp
    <3>3. FilesAreOwned'
      BY DEF ListenerTypeOK, FilesAreOwned, Bind, Tcp, Unix
    <3>4. OwnersListen'
      BY DEF ListenerTypeOK, OwnersListen, Bind, NoAddress, Unix
    <3>5. LocalIsConcrete' /\ DownHasNone'
      BY DEF ListenerTypeOK, LocalIsConcrete, DownHasNone, Bind
    <3> QED
      BY <3>1, <3>2, <3>3, <3>4, <3>5
  <2>2. CASE /\ Bind(p, Tcp(port), "failed", NoAddress, "BindTcp")
             /\ UNCHANGED <<held, file, sweeps>>
    <3>1. ListenerTypeOK'
      BY <2>2 DEF ListenerTypeOK, Bind, Addresses, NoAddress, Tcp, Errors
    <3>2. PortsAreHeld' /\ FilesAreOwned' /\ OwnersListen' /\ LocalIsConcrete' /\ DownHasNone'
      BY <2>2 DEF ListenerTypeOK, PortsAreHeld, FilesAreOwned, OwnersListen, LocalIsConcrete, DownHasNone, Bind,
                  NoAddress, Tcp, Unix
    <3> QED
      BY <3>1, <3>2
  <2> QED
    BY <1>4, <2>1, <2>2 DEF BindTcp
<1>5. ASSUME NEW p \in Procs, NEW path \in Paths, BindUnix(p, path) PROVE ListenerInv'
  <2>1. CASE Bind(p, Unix(path), "failed", NoAddress, "BindUnix") /\ UNCHANGED <<held, file, sweeps>>
    <3> DEFINE rest == [stage |-> "failed", address |-> Unix(path), local |-> NoAddress, error |-> "BindUnix"]
    <3>1. /\ lst[p].stage = "down" /\ lst' = [lst EXCEPT ![p] = rest]
          /\ UNCHANGED <<held, file, sweeps>>
      BY <2>1 DEF Bind
    <3>2. rest \in [stage : {"failed"}, address : Addresses, local : {NoAddress}, error : Errors]
      BY AddressesHas DEF Errors
    <3> HIDE DEF rest
    <3>3. ListenerTypeOK'
      BY <3>1, <3>2, AddressKinds DEF ListenerTypeOK
    <3>4. PortsAreHeld' /\ FilesAreOwned' /\ LocalIsConcrete' /\ DownHasNone'
      BY <3>1, <3>2, AddressKinds DEF ListenerTypeOK, PortsAreHeld, FilesAreOwned, LocalIsConcrete, DownHasNone
    <3>5. OwnersListen'
      BY <3>1, AddressKinds DEF ListenerTypeOK, OwnersListen
    <3> QED
      BY <3>3, <3>4, <3>5
  <2>2. CASE /\ ~file[path].exists
             /\ Bind(p, Unix(path), "bound", Unix(path), "none")
             /\ file' = [file EXCEPT ![path] = FileOf(p)]
             /\ UNCHANGED <<held, sweeps>>
    <3> DEFINE rest == [stage |-> "bound", address |-> Unix(path), local |-> Unix(path), error |-> "none"]
    <3>1. /\ lst[p].stage = "down" /\ lst' = [lst EXCEPT ![p] = rest]
          /\ file' = [file EXCEPT ![path] = FileOf(p)]
          /\ UNCHANGED <<held, sweeps>>
      BY <2>2 DEF Bind
    <3>2. rest \in [stage : {"bound"}, address : Addresses, local : {Unix(path)}, error : Errors]
      BY AddressesHas DEF Errors
    <3> HIDE DEF rest
    <3>3. ListenerTypeOK'
      BY <3>1, <3>2, AddressKinds, AddressesHas DEF ListenerTypeOK, FileOf
    <3>4. PortsAreHeld' /\ LocalIsConcrete' /\ DownHasNone'
      BY <3>1, <3>2, AddressKinds DEF ListenerTypeOK, PortsAreHeld, LocalIsConcrete, DownHasNone
    <3>5. FilesAreOwned'
      BY <2>2, <3>1, <3>2, AddressKinds DEF ListenerTypeOK, FilesAreOwned, OwnersListen, FileOf
    <3>6. OwnersListen'
      <4>1. file'[path] = FileOf(p) /\ lst'[p].local = Unix(path)
        BY <3>1, <3>2 DEF ListenerTypeOK
      <4>2. ASSUME NEW other \in Paths \ {path}, file'[other].owner # Nobody
            PROVE  file'[other].exists /\ lst'[file'[other].owner].local = Unix(other)
        <5>1. file'[other] = file[other] /\ file[other].owner # p
          BY <3>1, <4>2, AddressKinds DEF ListenerTypeOK, OwnersListen
        <5> QED
          BY <3>1, <4>2, <5>1 DEF ListenerTypeOK, OwnersListen
      <4> QED
        BY <4>1, <4>2 DEF OwnersListen, FileOf
    <3> QED
      BY <3>3, <3>4, <3>5, <3>6
  <2> QED
    BY <1>5, <2>1, <2>2 DEF BindUnix
<1>6. ASSUME NEW path \in Paths, Sweep(path) PROVE ListenerInv'
  BY <1>6 DEF Sweep, ListenerTypeOK, PortsAreHeld, FilesAreOwned, OwnersListen, LocalIsConcrete, DownHasNone, NoFile
<1>7. CASE UNCHANGED listenerVars
  BY <1>7 DEF listenerVars, ListenerTypeOK, PortsAreHeld, FilesAreOwned, OwnersListen, LocalIsConcrete, DownHasNone
<1> QED
  BY <1>1, <1>2, <1>3, <1>4, <1>5, <1>6, <1>7 DEF ListenerNext

LEMMA ListenerInvariant == ListenerSpec => []ListenerInv
  BY ListenerInitInv, ListenerInvStep, PTL DEF ListenerSpec

\* Type correctness of the listeners (ListenerTypeOK): a listener has a local
\* address exactly while it listens, and a held port is its holder's.
THEOREM ListenerTypeCorrect == ListenerSpec => []ListenerTypeOK
  BY ListenerInvariant, PTL DEF ListenerInv

\* The local address of a running listener leads to it and to nobody else, but
\* for a socket file that was removed (LocalAddressReaches).
THEOREM LocalAddressIsReached == ListenerSpec => []LocalAddressReaches
<1>1. ASSUME ListenerInv PROVE LocalAddressReaches
  <2> SUFFICES ASSUME NEW p \in Procs, lst[p].stage = "up"
               PROVE  \/ Accepts(lst[p].local) = {p}
                      \/ lst[p].local.is = "unix" /\ sweeps > 0 /\ p \notin Accepts(lst[p].local)
    BY DEF LocalAddressReaches
  <2>1. lst[p].local # NoAddress
    BY <1>1 DEF ListenerInv, ListenerTypeOK
  <2>2. CASE \E n \in Ports : lst[p].local = Tcp(n)
    <3> PICK n \in Ports : lst[p].local = Tcp(n)
      BY <2>2
    <3>1. held[n] = p
      BY <1>1 DEF ListenerInv, PortsAreHeld
    <3>2. Port(Tcp(n)) = {n} /\ Pathname(Tcp(n)) = {}
      BY DEF Port, Pathname, Tcp
    <3> QED
      BY <3>1, <3>2 DEF Accepts
  <2>3. CASE \E path \in Paths : lst[p].local = Unix(path)
    <3> PICK path \in Paths : lst[p].local = Unix(path)
      BY <2>3
    <3>1. file[path].owner = p \/ sweeps > 0
      BY <1>1 DEF ListenerInv, FilesAreOwned
    <3>2. Port(Unix(path)) = {} /\ Pathname(Unix(path)) = {path} /\ Unix(path).is = "unix"
      BY DEF Port, Pathname, Unix
    <3>3. Accepts(Unix(path)) = {q \in Procs : lst[q].stage \in {"bound", "up"} /\ file[path].owner = q}
      BY <3>2 DEF Accepts
    <3> QED
      BY <3>1, <3>2, <3>3
  <2> QED
    BY <1>1, <2>1, <2>2, <2>3 DEF ListenerInv, LocalIsConcrete
<1> QED
  BY <1>1, ListenerInvariant, PTL

\* No start of a process takes an address from one that runs (NoTakeover).
THEOREM NothingIsTakenOver == ListenerSpec => NoTakeover
<1> DEFINE Kept == \A p \in Procs, address \in Addresses :
                     (lst[p].stage = "up" /\ p \in Accepts(address)) =>
                        p \in Accepts(address)' \/ lst'[p] = Down \/ sweeps' > sweeps
<1>1. ASSUME ListenerInv, [ListenerNext]_listenerVars PROVE Kept
  <2> SUFFICES ASSUME NEW p \in Procs, NEW address \in Addresses,
                      lst[p].stage = "up", p \in Accepts(address), lst'[p] # Down, ~(sweeps' > sweeps)
               PROVE  p \in Accepts(address)'
    OBVIOUS
  <2> USE <1>1, ListenerAssumption DEF ListenerInv, ListenerTypeOK
  <2>1. lst'[p].stage = "up"
    BY DEF ListenerNext, Capture, CaptureFails, Stop, BindTcp, BindUnix, Bind, Sweep, listenerVars
  <2> DEFINE Keeps == /\ \A n \in Ports : held[n] = p => held'[n] = p
                      /\ \A path \in Paths : file[path].owner = p => file'[path].owner = p
  <2>2. Keeps
    <3>1. ASSUME NEW q \in Procs, Capture(q) PROVE Keeps
      BY <3>1 DEF Capture
    <3>2. ASSUME NEW q \in Procs, CaptureFails(q) \/ Stop(q) PROVE Keeps
      <4>1. q # p
        BY <3>2, <2>1 DEF CaptureFails, Stop, Down
      <4> QED
        BY <3>2, <4>1 DEF CaptureFails, Stop, Release
    <3>3. ASSUME NEW q \in Procs, NEW port \in Ports \cup {0}, BindTcp(q, port) PROVE Keeps
      BY <3>3 DEF BindTcp
    <3>4. ASSUME NEW q \in Procs, NEW path \in Paths, BindUnix(q, path) PROVE Keeps
      BY <3>4 DEF BindUnix, OwnersListen
    <3>5. ASSUME NEW path \in Paths, Sweep(path) PROVE Keeps
      BY <3>5 DEF Sweep
    <3>6. CASE UNCHANGED listenerVars
      BY <3>6 DEF listenerVars
    <3> QED
      BY <3>1, <3>2, <3>3, <3>4, <3>5, <3>6 DEF ListenerNext
  <2>4. Pathname(address) \subseteq Paths
    BY DEF Addresses, Pathname, Tcp, Unix
  <2> QED
    BY <2>1, <2>2, <2>4 DEF Accepts
<1>2. ListenerInv /\ [ListenerNext]_listenerVars => [Kept]_listenerVars
  BY <1>1
<1> QED
  BY <1>2, ListenerInvariant, PTL DEF ListenerSpec, NoTakeover

\* Only an operator removes a socket file, and it keeps everybody from its
\* path, the process that left it too (OnlyFilesStay).
THEOREM FilesStay == ListenerSpec => OnlyFilesStay
<1> DEFINE Stays ==
      /\ \A path \in Paths : file[path].exists /\ ~file'[path].exists => sweeps' > sweeps
      /\ \A path \in Paths, p \in Procs :
           (file[path].exists /\ lst[p].stage = "down" /\ lst'[p].address = Unix(path))
             => lst'[p].error = "BindUnix"
<1>1. ASSUME ListenerInv, ListenerNext PROVE Stays
  <2> USE <1>1, AddressKinds DEF ListenerInv, ListenerTypeOK, DownHasNone
  <2>1. ASSUME NEW p \in Procs, Capture(p) PROVE Stays
    BY <2>1 DEF Capture
  <2>2. ASSUME NEW p \in Procs, CaptureFails(p) PROVE Stays
    BY <2>2 DEF CaptureFails, Release
  <2>3. ASSUME NEW p \in Procs, Stop(p) PROVE Stays
    BY <2>3 DEF Stop, Release, Down
  <2>4. ASSUME NEW p \in Procs, NEW port \in Ports \cup {0}, BindTcp(p, port) PROVE Stays
    <3>1. lst'[p].address = Tcp(port)
      BY <2>4 DEF BindTcp, Bind
    <3> QED
      BY <2>4, <3>1 DEF BindTcp, Bind
  <2>5. ASSUME NEW p \in Procs, NEW path \in Paths, BindUnix(p, path) PROVE Stays
    <3>1. CASE Bind(p, Unix(path), "failed", NoAddress, "BindUnix") /\ UNCHANGED file
      BY <3>1 DEF Bind
    <3>2. CASE /\ ~file[path].exists
               /\ Bind(p, Unix(path), "bound", Unix(path), "none")
               /\ file' = [file EXCEPT ![path] = FileOf(p)]
      <4>1. lst'[p].address = Unix(path) /\ file' = [file EXCEPT ![path] = FileOf(p)]
        BY <3>2 DEF Bind
      <4>2. \A q \in Procs \ {p} : lst'[q] = lst[q]
        BY <3>2 DEF Bind
      <4>3. \A other \in Paths : file[other].exists => file'[other].exists
        BY <4>1 DEF FileOf
      <4> QED
        BY <3>2, <4>1, <4>2, <4>3
    <3> QED
      BY <2>5, <3>1, <3>2 DEF BindUnix
  <2>6. ASSUME NEW path \in Paths, Sweep(path) PROVE Stays
    BY <2>6 DEF Sweep
  <2> QED
    BY <2>1, <2>2, <2>3, <2>4, <2>5, <2>6 DEF ListenerNext
<1>2. ListenerInv /\ [ListenerNext]_listenerVars => [Stays]_listenerVars
  BY <1>1
<1> QED
  BY <1>2, ListenerInvariant, PTL DEF ListenerSpec, OnlyFilesStay
=============================================================================
