---------------------------- MODULE ViscaSession ----------------------------
(***************************************************************************)
(* What a controller expects of a VISCA device, as the comment at the end  *)
(* of sony_visca.c draws it:                                               *)
(*                                                                         *)
(*     Command ->  <- Ack  <- Completition                                 *)
(*     Inquiry ->  <- Completition (+ inquiry result data)                 *)
(*                                                                         *)
(* for every request in turn, until the device fails.                      *)
(***************************************************************************)
EXTENDS Sequences

CONSTANT Client

VARIABLES
    owed,       \* requests of each client that await an answer, in order
    acked,      \* the clients whose oldest command has been acknowledged
    alive

sessionVars == <<owed, acked, alive>>

RequestKind == {"command", "inquiry"}

SessionInit ==
    /\ owed = [c \in Client |-> <<>>]
    /\ acked = {}
    /\ alive = TRUE

Request(c, kind) ==
    /\ owed' = [owed EXCEPT ![c] = Append(@, kind)]
    /\ UNCHANGED <<acked, alive>>

Ack(c) ==
    /\ alive
    /\ owed[c] # <<>> /\ Head(owed[c]) = "command"
    /\ c \notin acked
    /\ acked' = acked \cup {c}
    /\ UNCHANGED <<owed, alive>>

Completion(c) ==
    /\ alive
    /\ owed[c] # <<>>
    /\ Head(owed[c]) = "command" => c \in acked
    /\ owed' = [owed EXCEPT ![c] = Tail(@)]
    /\ acked' = acked \ {c}
    /\ UNCHANGED alive

Fail ==
    /\ alive' = FALSE
    /\ UNCHANGED <<owed, acked>>

SessionNext ==
    \/ \E c \in Client, kind \in RequestKind : Request(c, kind)
    \/ \E c \in Client : Ack(c) \/ Completion(c)
    \/ Fail

\* A device that goes on working answers.
SessionSpec ==
    /\ SessionInit /\ [][SessionNext]_sessionVars
    /\ \A c \in Client : []<>(owed[c] = <<>> \/ ~alive)

=============================================================================
