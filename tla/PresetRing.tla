----------------------------- MODULE PresetRing -----------------------------
(***************************************************************************)
(* How the proxy answers "where are you?".  ONVIF positions are never      *)
(* translated: an inquiry stores the camera's position as the next preset  *)
(* of a ring and answers with its number, and an absolute move takes such  *)
(* a number back and recalls the preset (bridge_inquiries.c,               *)
(* bridge_commands.c).                                                     *)
(*                                                                         *)
(* One camera may have several instances, each with a ring of its own: one *)
(* for a port of the config file, whose range the file sets, one for the   *)
(* port discovery gives it.  Replies travel by UDP: they are lost,         *)
(* repeated and overtake each other.  A SOAP call that fails ends the      *)
(* process, and a restart begins the rings anew while the camera keeps its *)
(* presets.                                                                *)
(***************************************************************************)
EXTENDS Integers, Sequences

CONSTANTS
    Instance,               \* soap_instances of the camera
    Client,                 \* controllers
    Position,
    preset_range_min,       \* of each instance
    preset_range_max,
    MaxSaves,               \* bound: inquiries answered
    MaxRestarts             \* bound: restarts

TokenLimit == 65536         \* a number travels in two bytes

ASSUME RangeAssumption ==
    /\ preset_range_min \in [Instance -> Nat]
    /\ preset_range_max \in [Instance -> Nat]
    /\ \A i \in Instance :
            /\ preset_range_min[i] <= preset_range_max[i]
            /\ preset_range_max[i] < TokenLimit

ASSUME BoundAssumption ==
    /\ MaxSaves \in Nat
    /\ MaxRestarts \in Nat

VARIABLES
    current_preset,     \* of each instance
    at,                 \* where the camera is
    preset,             \* what the camera stores, by number
    saved,              \* the inquiries answered, in order; the reply to each
                        \* may arrive late, repeatedly or never
    reply,              \* whose reply each controller got last; 0: none
    restarts            \* how often the proxy was started again

vars == <<current_preset, at, preset, saved, reply, restarts>>

Token == 0..(TokenLimit - 1)

\* An inquiry answered: by which instance, since which start of the proxy, the
\* preset stored, where the camera was, and the number sent to which client.
Save == [instance : Instance, start : Nat, token : Token, at : Position,
         client : Client, number : Nat]

TypeOK ==
    /\ current_preset \in [Instance -> Token]
    /\ \A i \in Instance : current_preset[i] <= preset_range_max[i]
    /\ at \in Position
    /\ DOMAIN preset \subseteq Token
    /\ preset \in [DOMAIN preset -> Position]
    /\ saved \in Seq(Save)
    /\ reply \in [Client -> 0..Len(saved)]
    /\ restarts \in Nat

Init ==
    /\ current_preset = [i \in Instance |-> 0]
    /\ at \in Position
    /\ preset = <<>>
    /\ saved = <<>>
    /\ reply = [c \in Client |-> 0]
    /\ restarts = 0

\* ++current_preset, and back to the minimum beyond the maximum.
SuccessorToMaximum(i) ==            \* mutant: >= for >
    IF current_preset[i] + 1 >= preset_range_max[i]
    THEN preset_range_min[i] ELSE current_preset[i] + 1
SuccessorUnbounded(i) ==            \* mutant: no test of the maximum
    current_preset[i] + 1
Successor(i) ==
    IF current_preset[i] + 1 > preset_range_max[i]
    THEN preset_range_min[i] ELSE current_preset[i] + 1

\* The two low bytes of a number; an integer is parsed from them again.
Encode(t) == t % TokenLimit
Decode(n) == n

\* What the camera stores once it has stored where it is as number t.
SetPreset(t) ==
    [n \in DOMAIN preset \cup {t} |-> IF n = t THEN at ELSE preset[n]]

------------------------------------------------------------------------------
\* The camera is moved: by another command, or by somebody else.
Move(p) ==
    /\ at' = p
    /\ UNCHANGED <<current_preset, preset, saved, reply, restarts>>

\* An inquiry of client c at instance i.
bridge_inq_pan_tilt_position(i, c) ==
    LET t == Successor(i)
    IN  /\ Len(saved) < MaxSaves
        /\ current_preset' = [current_preset EXCEPT ![i] = t]
        /\ preset' = SetPreset(t)
        /\ saved' = Append(saved,
                [instance |-> i, start |-> restarts, token |-> t, at |-> at,
                 client |-> c, number |-> Encode(t)])
        /\ UNCHANGED <<at, reply, restarts>>

\* The reply to inquiry k arrives.
Deliver(k) ==
    /\ reply' = [reply EXCEPT ![saved[k].client] = k]
    /\ UNCHANGED <<current_preset, at, preset, saved, restarts>>

\* An absolute move with the number client c got last.
bridge_cmd_pan_tilt_absolute_preset(c) ==
    /\ reply[c] # 0
    /\ LET n == Decode(saved[reply[c]].number)
       IN  /\ n \in DOMAIN preset
           /\ at' = preset[n]
    /\ UNCHANGED <<current_preset, preset, saved, reply, restarts>>

\* soap_die, and the program started again by hand.  The call that failed may
\* have been a SetPreset that the camera did carry out.
Restart ==
    /\ restarts < MaxRestarts
    /\ restarts' = restarts + 1
    /\ current_preset' = [i \in Instance |-> 0]
    /\ \/ UNCHANGED preset
       \/ \E i \in Instance : preset' = SetPreset(Successor(i))
    /\ UNCHANGED <<at, saved, reply>>

Next ==
    \/ \E p \in Position : Move(p)
    \/ \E i \in Instance, c \in Client : bridge_inq_pan_tilt_position(i, c)
    \/ \E k \in 1..Len(saved) : Deliver(k)
    \/ \E c \in Client : bridge_cmd_pan_tilt_absolute_preset(c)
    \/ Restart

Spec == Init /\ [][Next]_vars

------------------------------------------------------------------------------
\* The saves a ring remembers.
Window(i) == preset_range_max[i] - preset_range_min[i] + 1

\* Save k, and all since, came through one instance of the running process.
Unbroken(k) ==
    \A j \in k..Len(saved) :
        saved[j].instance = saved[k].instance /\ saved[j].start = restarts

Remembered(k) == Unbroken(k) /\ Len(saved) - k < Window(saved[k].instance)

\* Sending back the number of save k moves the camera to where it was then.
Recalls(k) ==
    LET n == Decode(saved[k].number)
    IN  n \in DOMAIN preset /\ preset[n] = saved[k].at

\* A controller that sends back the number it was given moves the camera to
\* where it was at the inquiry, whatever was lost, repeated or reordered on the
\* way, as long as fewer than preset_range_max - preset_range_min + 1 inquiries
\* of all controllers were answered since (its own included, the ring being
\* shared), none by another instance of the camera, and the proxy was not
\* restarted.
RecallReturns ==
    \A c \in Client : reply[c] # 0 /\ Remembered(reply[c]) => Recalls(reply[c])

\* The ring only overwrites presets of the range its instance is given: a ring
\* starts at 0, so this needs a minimum of at most 1.
PresetInRange ==
    \A k \in 1..Len(saved) :
        LET i == saved[k].instance
        IN  saved[k].token \in preset_range_min[i]..preset_range_max[i]

==============================================================================
