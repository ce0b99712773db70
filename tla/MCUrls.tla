------------------------------- MODULE MCUrls -------------------------------
(***************************************************************************)
(* Instances of Urls for TLC.                                              *)
(***************************************************************************)
EXTENDS Urls

\* Every string of at most n of the characters cs.
Strings(cs, n) == UNION {[1..k -> cs] : k \in 0..n}

\* The prefixes: every character alone and after a slash, and all that slashes
\* and backslashes may do at the beginning, inside and at the end.
MCPrefixes ==
  Strings({"/", "\\", "a"}, 2) \cup Strings({"/", "a"}, 3)
    \cup {<<c>> : c \in Chars} \cup {<<"/", c>> : c \in Chars}

\* The paths: all of up to two characters, and up to three without a blank.
MCPaths == Strings(Chars, 2) \cup Strings(Chars \ {" "}, 3)
=============================================================================
