------------------------------- MODULE MCNss -------------------------------
(***************************************************************************)
(* Model-checking instance of NssRemoteUser: the s_config.h names, one     *)
(* other account in the file, and a name that is only known remotely.      *)
(***************************************************************************)
EXTENDS NssRemoteUser

\* getpwnam for a local template, a local user and a remote-only user;
\* getpwuid for the remote uid and a local one; an enumeration.
MCRequests ==
  [fn : {"getpwnam"}, name : {"admin", "bob", "carol"}, uid : {0}]
  \cup [fn : {"getpwuid"}, name : {"-"}, uid : {10000, 1000}]
  \cup {[fn |-> "getpwent", name |-> "-", uid |-> 0]}

=============================================================================
