------------------------------- MODULE MCOutput -------------------------------
(***************************************************************************)
(* Cameras at the edges of the two rules for the offset, as a discovery    *)
(* may print them.                                                         *)
(***************************************************************************)
EXTENDS CommandOutput

\* 2454 is what 192.168.22.254 would get with room for two digits only.  The
\* port of 192.168.1.1, 1001, has no bit.
Neighbours == {<<22, 54>>, <<22, 254>>, <<24, 54>>, <<24, 100>>, <<1, 1>>}

Lines == {Dotted(a) : a \in Neighbours} \cup {<<>>}
PortNumber == Dotted(<<24, 54>>) \o <<Dot, 8>>

\* Two lines at most, one of which may be empty; three; an error; a line of
\* more than four numbers.
NeighbourOutputs ==
    {<<>>} \cup {<<l>> : l \in Lines} \cup {<<l, m>> : l, m \in Lines}
        \cup {<<Dotted(<<24, 54>>), Dotted(<<22, 54>>), Dotted(<<24, 100>>)>>,
              <<Dotted(<<22, 54>>), <<ErrorText>>>>, <<PortNumber>>}

==============================================================================
