\* Three processes on two ports and one path, a file removed twice.
SPECIFICATION ListenerSpec
CONSTANTS
  Procs = {p1, p2, p3}
  Ports = {1, 2}
  Paths = {"/run/http.sock"}
  Sweeps = 2
SYMMETRY Symmetry
INVARIANTS
  ListenerTypeOK
  LocalAddressReaches
PROPERTIES
  NoTakeover
  OnlyFilesStay
