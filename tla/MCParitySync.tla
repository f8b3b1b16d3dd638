----------------------------- MODULE MCParitySync -----------------------------
(***************************************************************************)
(* ParitySync with two families of three paths: a name that may be a file   *)
(* or a directory, and one name below it.                                  *)
(***************************************************************************)
EXTENDS ParitySync, TLC

SmallPaths == {<< >>, <<"users">>, <<"users", "list">>}

Family(root, users, list) ==
    (<< >> :> root) @@ (<<"users">> :> users) @@ (<<"users", "list">> :> list)

Checkout(first, second, inventory) ==
    [there |-> TRUE, family |-> <<first, second>>, golden |-> inventory]

NoFamily == Family("absent", "absent", "absent")

\* No checkout at all, one that lost a family, and working trees that differ in a file's
\* content, in what kind a name is, and in the inventory.
SmallCheckouts ==
    {[there |-> FALSE, family |-> <<NoFamily, NoFamily>>, golden |-> "absent"],
     Checkout(Family("dir", "dir", "v1"), NoFamily, "v1"),
     Checkout(Family("dir", "dir", "v1"), Family("dir", "v1", "absent"), "v2"),
     Checkout(Family("dir", "dir", "v2"), Family("dir", "dir", "absent"), "v2"),
     Checkout(Family("dir", "absent", "absent"), Family("dir", "dir", "v1"), "absent")}
================================================================================
