------------------------------ MODULE MCConfig ------------------------------
(***************************************************************************)
(* Instances of Config for TLC.                                            *)
(***************************************************************************)
EXTENDS Config, TLC

Good == [listen |-> "/run/http.sock", filter |-> Absent, url |-> "https",
         database |-> [colon |-> TRUE, scheme |-> "POSTGRES", malformed |-> FALSE],
         token |-> [string |-> FALSE, keys |-> {"file"}]]

\* Documents that load, with each kind of every value, and documents that fail
\* in one value each.
MCDocs ==
  {Good,
   [Good EXCEPT !.listen = "127.0.0.1:0", !.filter = "debug", !.url = Absent,
                !.token = [string |-> TRUE, keys |-> {}]],
   [Good EXCEPT !.token.keys = {"env"}],
   [Good EXCEPT !.listen = "http.sock"],
   [Good EXCEPT !.url = "malformed"],
   [Good EXCEPT !.database.scheme = "http"],
   [Good EXCEPT !.token.keys = {"file", "env"}]}

Symmetry == Permutations(Threads)
=============================================================================
