------------------------------ MODULE Listener ------------------------------
(***************************************************************************)
(* src/src/listener.rs: the processes of one host bind TCP ports and Unix  *)
(* socket files, stop, crash and start again.  bind() never removes a      *)
(* socket file and neither does dropping a listener.                       *)
(***************************************************************************)
EXTENDS Integers, FiniteSets

CONSTANTS
  Procs,      \* processes
  Ports,      \* TCP ports of the host
  Paths,      \* absolute paths for sockets
  Sweeps      \* how often an operator removes a socket file

ASSUME ListenerAssumption == 0 \notin Ports /\ Sweeps \in Nat /\ "nobody" \notin Procs

VARIABLES
  lst,        \* what bind() has made of each process's configuration
  held,       \* the process that holds each port
  file,       \* the socket file at each path
  sweeps      \* the removals so far

listenerVars == <<lst, held, file, sweeps>>

Nobody == "nobody"
NoFile == [exists |-> FALSE, owner |-> Nobody]
FileOf(p) == [exists |-> TRUE, owner |-> p]

\* An address, configured or effective; port 0 asks for any.
Tcp(port) == [is |-> "tcp", port |-> port]
Unix(path) == [is |-> "unix", path |-> path]
Addresses == {Tcp(n) : n \in Ports \cup {0}} \cup {Unix(path) : path \in Paths}
NoAddress == [is |-> "none"]

Errors == {"none", "BindTcp", "BindUnix", "ReadTcpAddress", "ReadUnixAddress"}

Down == [stage |-> "down", address |-> NoAddress, local |-> NoAddress, error |-> "none"]

ListenerInit ==
  /\ lst = [p \in Procs |-> Down]
  /\ held = [n \in Ports |-> Nobody]
  /\ file = [path \in Paths |-> NoFile]
  /\ sweeps = 0

\* bind() turns to the transport of the address.
Bind(p, address, stage, local, error) ==
  /\ lst[p].stage = "down"
  /\ lst' = [lst EXCEPT ![p] = [stage |-> stage, address |-> address, local |-> local, error |-> error]]

\* bind_tcp, up to the bound socket: port 0 is any free port, and a port that
\* is held cannot be had.  Any other I/O error fails it as well.
BindTcp(p, port) ==
  /\ \/ \E n \in Ports :
          /\ held[n] = Nobody /\ port \in {0, n}
          /\ Bind(p, Tcp(port), "bound", Tcp(n), "none")
          /\ held' = [held EXCEPT ![n] = p]
     \/ /\ Bind(p, Tcp(port), "failed", NoAddress, "BindTcp")
        /\ UNCHANGED held
  /\ UNCHANGED <<file, sweeps>>

\* Mutant: a socket file in the way is removed.
BindUnixReplacing(p, path) ==
  /\ Bind(p, Unix(path), "bound", Unix(path), "none")
  /\ file' = [file EXCEPT ![path] = FileOf(p)]
  /\ UNCHANGED <<held, sweeps>>

\* bind_unix: a file at the path is in the way, whoever left it.  Any other I/O
\* error, a missing directory or permission, fails it as well.
BindUnix(p, path) ==
  /\ \/ /\ ~file[path].exists
        /\ Bind(p, Unix(path), "bound", Unix(path), "none")
        /\ file' = [file EXCEPT ![path] = FileOf(p)]
     \/ /\ Bind(p, Unix(path), "failed", NoAddress, "BindUnix")
        /\ UNCHANGED file
  /\ UNCHANGED <<held, sweeps>>

\* Mutant: closing the socket removes its file.
ReleaseUnlinking(p) ==
  /\ held' = [n \in Ports |-> IF held[n] = p THEN Nobody ELSE held[n]]
  /\ file' = [path \in Paths |-> IF file[path].owner = p THEN NoFile ELSE file[path]]
  /\ UNCHANGED sweeps

\* The socket of p is closed: its port is free, its file stays behind.
Release(p) ==
  /\ held' = [n \in Ports |-> IF held[n] = p THEN Nobody ELSE held[n]]
  /\ file' = [path \in Paths |-> IF file[path].owner = p THEN [file[path] EXCEPT !.owner = Nobody]
                                 ELSE file[path]]
  /\ UNCHANGED sweeps

\* Mutant: the configured address is kept as the local one.
CaptureConfigured(p) ==
  /\ lst[p].stage = "bound"
  /\ lst' = [lst EXCEPT ![p].stage = "up", ![p].local = lst[p].address]
  /\ UNCHANGED <<held, file, sweeps>>

\* The effective address is captured ...
Capture(p) ==
  /\ lst[p].stage = "bound"
  /\ lst' = [lst EXCEPT ![p].stage = "up"]
  /\ UNCHANGED <<held, file, sweeps>>

\* Mutant: the error is returned and the socket kept.
CaptureFailsLeaking(p) ==
  /\ lst[p].stage = "bound"
  /\ lst' = [lst EXCEPT ![p].stage = "failed", ![p].local = NoAddress,
                        ![p].error = IF lst[p].address.is = "tcp" THEN "ReadTcpAddress"
                                     ELSE "ReadUnixAddress"]
  /\ UNCHANGED <<held, file, sweeps>>

\* ... or cannot be read, and the listener is dropped.
CaptureFails(p) ==
  /\ lst[p].stage = "bound"
  /\ lst' = [lst EXCEPT ![p].stage = "failed", ![p].local = NoAddress,
                        ![p].error = IF lst[p].address.is = "tcp" THEN "ReadTcpAddress"
                                     ELSE "ReadUnixAddress"]
  /\ Release(p)

\* The process ends, by itself or by a crash.
Stop(p) ==
  /\ lst[p].stage # "down"
  /\ lst' = [lst EXCEPT ![p] = Down]
  /\ Release(p)

\* An operator, or the supervisor before it starts a process, removes a file.
Sweep(path) ==
  /\ file[path].exists
  /\ sweeps < Sweeps
  /\ sweeps' = sweeps + 1
  /\ file' = [file EXCEPT ![path] = NoFile]
  /\ UNCHANGED <<lst, held>>

\* Address::port and Address::as_pathname.
Port(address) == IF address.is = "tcp" THEN {address.port} ELSE {}
Pathname(address) == IF address.is = "unix" THEN {address.path} ELSE {}

\* Whom a connection to an address is accepted by: accept() of the listener
\* behind it, on the transport it was bound to.
Accepts(address) ==
  {p \in Procs : /\ lst[p].stage \in {"bound", "up"}
                 /\ \/ \E n \in Port(address) \cap Ports : held[n] = p
                    \/ \E path \in Pathname(address) : file[path].owner = p}

ListenerNext ==
  \/ \E p \in Procs : Capture(p) \/ CaptureFails(p) \/ Stop(p)
  \/ \E p \in Procs, n \in Ports \cup {0} : BindTcp(p, n)
  \/ \E p \in Procs, path \in Paths : BindUnix(p, path)
  \/ \E path \in Paths : Sweep(path)

ListenerSpec == ListenerInit /\ [][ListenerNext]_listenerVars

ListenerTypeOK ==
  /\ lst \in [Procs -> [stage : {"down", "bound", "up", "failed"}, address : Addresses \cup {NoAddress},
                        local : Addresses \cup {NoAddress}, error : Errors]]
  /\ held \in [Ports -> Procs \cup {Nobody}]
  /\ file \in [Paths -> [exists : BOOLEAN, owner : Procs \cup {Nobody}]]
  /\ sweeps \in 0..Sweeps
  /\ \A p \in Procs : (lst[p].local = NoAddress) <=> lst[p].stage \in {"down", "failed"}
  /\ \A n \in Ports : held[n] # Nobody => lst[held[n]].local = Tcp(n)

-----------------------------------------------------------------------------
\* A connection to the local address of a listener reaches this listener and
\* no other, whatever came and went on the host before: the port reported for
\* port 0 is the one assigned (listener.rs:46-49).  An operator who removes
\* the file of a running listener can break it, and nothing else can.
LocalAddressReaches ==
  \A p \in Procs :
    lst[p].stage = "up" =>
      \/ Accepts(lst[p].local) = {p}
      \/ lst[p].local.is = "unix" /\ sweeps > 0 /\ p \notin Accepts(lst[p].local)

\* Starting a process takes no address away from another one, running or not:
\* where a file or a port is in the way the newcomer fails (listener.rs:79-107).
NoTakeover ==
  [][\A p \in Procs, address \in Addresses :
       (lst[p].stage = "up" /\ p \in Accepts(address)) =>
          p \in Accepts(address)' \/ lst'[p] = Down \/ sweeps' > sweeps
    ]_listenerVars

\* A socket file stays when its listener stops, crashes or cannot be named,
\* and is in the way of whoever is started next, the same process included,
\* until somebody removes it (listener.rs:94-107).
OnlyFilesStay ==
  [][/\ \A path \in Paths : file[path].exists /\ ~file'[path].exists => sweeps' > sweeps
     /\ \A path \in Paths, p \in Procs :
          (file[path].exists /\ lst[p].stage = "down" /\ lst'[p].address = Unix(path))
            => lst'[p].error = "BindUnix"
    ]_listenerVars
=============================================================================
