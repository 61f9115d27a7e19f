------------------------------ MODULE MCConfig ------------------------------
(***************************************************************************)
(* Small instances of Config.                                              *)
(***************************************************************************)
EXTENDS Config

Files(S) == [p \in Place |-> IF p \in S THEN "edited" ELSE "absent"]

OneFile == {Files({"xdg"})}

\* No file at first, and a file in the second place searched.
NoneOrHome == {Files({}), Files({"home"})}

\* What strstr finds besides an address in its own endpoint: nothing ...
Nothing == {}

\* ... or the beginning of another address.
Beginning == {<<"192.168.1.2", "192.168.1.20">>}

=============================================================================
