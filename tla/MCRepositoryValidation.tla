----------------------- MODULE MCRepositoryValidation -----------------------
(***************************************************************************)
(* Instances of RepositoryValidation for TLC: "link" is a symbolic link to *)
(* "home", and another repository has "other".                             *)
(***************************************************************************)
EXTENDS RepositoryValidation

MCCanonical == [p \in Path |-> IF p = "link" THEN "home" ELSE p]

Create == [kind |-> "create", path |-> "link", enabled |-> Keep]
Move(p, flag) == [kind |-> "patch", path |-> p, enabled |-> flag]
Flag(flag) == [kind |-> "patch", path |-> NoPath, enabled |-> flag]
Remove == [kind |-> "delete", path |-> NoPath, enabled |-> Keep]

MCBody == {Create, Move("new", Keep), Move("other", "on"), Move("home", "off"), Flag("off"), Flag("on"), Remove}
=============================================================================
