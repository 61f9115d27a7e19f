------------------------------- MODULE Config -------------------------------
(***************************************************************************)
(* config.c: which config file is read, and how: line by line, and acted   *)
(* on line by line.  A line of [ports] claims a port and probes its camera *)
(* at once; a line of any other section looks for an instance whose        *)
(* endpoint contains the section's name, in the tree of instances          *)
(* (address_manager.c), which grows and turns as ports are added.          *)
(*                                                                         *)
(* If there is no file, a skeleton is written and the program ends; until  *)
(* somebody edits it, so does every later start.                           *)
(***************************************************************************)
EXTENDS Integers, Sequences, FiniteSets

CONSTANTS
    Address,            \* of the cameras
    Section,            \* names of sections, other than ports: addresses and others
    Contained,          \* which endpoints a name occurs in, <<name, address>>
    Port,
    Setting,            \* the options of a section
    Value,
    Default,            \* what an option is before the file sets it
    FirstContents,      \* the config files there may be at first
    MaxLines,           \* bound: lines of the file
    MaxStarts           \* bound: starts of the program

ASSUME ConfigAssumption ==
    /\ Address \subseteq Section
    /\ Contained \subseteq Section \X Address
    /\ MaxLines \in Nat
    /\ MaxStarts \in Nat \ {0}
    /\ FirstContents \subseteq [{"xdg", "home", "cwd"} -> {"absent", "edited"}]

VARIABLES
    contents,           \* of the places searched
    starts,             \* how often the program was started
    source,             \* the place the file is read from
    file,               \* history: the lines read since the start
    phase,              \* "lookup", "reading", "started" or "died"
    credentials,        \* which of username and password are set
    used_ports,
    address_map,        \* the tree from descriptors to instances
    instances           \* by the line that made them

fileVars == <<contents, starts, source>>
instanceVars == <<used_ports, address_map, instances>>
vars == <<fileVars, file, phase, credentials, instanceVars>>

Place == {"xdg", "home", "cwd"}
Contents == {"absent", "empty", "skeleton", "edited"}

Tree == INSTANCE AvlTree
            WITH root <- address_map, Key <- 0..MaxLines, Data <- 1..MaxLines,
                 MaxHeight <- MaxLines

Line == [kind : {"username", "password", "unmodified"}]
            \cup [kind : {"port"}, port : Port, address : Address]
            \cup [kind : {"setting"}, section : Section, name : Setting, value : Value]

Init ==
    /\ contents \in FirstContents
    /\ starts = 1
    /\ source = "xdg"
    /\ file = <<>>
    /\ phase = "lookup"
    /\ credentials = {}
    /\ used_ports = {}
    /\ address_map = Tree!NULL
    /\ instances = <<>>

\* The next line is read.  The skeleton's first one says it is unmodified.
Reading(line) ==
    /\ phase = "reading"
    /\ Len(file) < MaxLines
    /\ contents[source] # "empty"
    /\ contents[source] = "skeleton" => file = <<>> /\ line.kind = "unmodified"
    /\ file' = Append(file, line)
    /\ UNCHANGED fileVars

\* Lines outside every section come before the first section.
NoSection ==
    \A k \in DOMAIN file : file[k].kind \in {"username", "password"}

------------------------------------------------------------------------------
\* strstr finds ip in the service endpoint of the camera at address a, which is
\* "http://<a>/onvif/device_service" and so contains a itself.
Occurs(ip, a) == ip = a \/ <<ip, a>> \in Contained

\* The first instance found below x, by its line: left, right, x itself; 0 if
\* there is none.
FindOnTheWay(tree, ip) ==           \* mutant: descends on one side only
    LET search[x \in Tree!Tree] ==
            IF x = Tree!NULL THEN 0
            ELSE IF Occurs(ip, instances[x.data].address) THEN x.data
            ELSE IF x.left # Tree!NULL THEN search[x.left]
            ELSE search[x.right]
    IN  search[tree]
FindAny(tree, ip) ==                \* mutant: any endpoint will do
    IF tree = Tree!NULL THEN 0 ELSE tree.data
find_soap_instance_matching_ip(tree, ip) ==
    LET search[x \in Tree!Tree] ==
            IF x = Tree!NULL THEN 0
            ELSE IF search[x.left] # 0 THEN search[x.left]
            ELSE IF search[x.right] # 0 THEN search[x.right]
            ELSE IF Occurs(ip, instances[x.data].address) THEN x.data ELSE 0
    IN  search[tree]

------------------------------------------------------------------------------
\* config_get_config_filename: the first place with a file ...
SearchedFirst(p) ==
    CASE p = "xdg" -> {} [] p = "home" -> {"xdg"} [] p = "cwd" -> {"xdg", "home"}

Found(p) ==
    /\ phase = "lookup"
    /\ contents[p] # "absent"
    /\ \A q \in SearchedFirst(p) : contents[q] = "absent"
    /\ phase' = "reading"
    /\ source' = p
    /\ UNCHANGED <<contents, starts, file, credentials, instanceVars>>

\* ... or a skeleton in the first one, and die; a failing call may leave the
\* file out, or empty.
MayCreateWithoutHome ==             \* mutant: the first place is not looked at
    contents["home"] = "absent" /\ contents["cwd"] = "absent"
MayCreate == \A p \in Place : contents[p] = "absent"

CreateSkeleton ==
    /\ phase = "lookup"
    /\ MayCreate
    /\ \E c \in {"absent", "empty", "skeleton"} :
            contents' = [contents EXCEPT !["xdg"] = c]
    /\ phase' = "died"
    /\ UNCHANGED <<starts, source, file, credentials, instanceVars>>

\* ini_parse cannot open the file.
CannotOpen ==
    /\ phase = "reading"
    /\ file = <<>>
    /\ phase' = "died"
    /\ UNCHANGED <<fileVars, file, credentials, instanceVars>>

\* Somebody edits the skeleton, and starts the program again.
Edit ==
    /\ phase = "died"
    /\ contents["xdg"] \in {"empty", "skeleton"}
    /\ contents' = [contents EXCEPT !["xdg"] = "edited"]
    /\ UNCHANGED <<starts, source, file, phase, credentials, instanceVars>>

StartAgain ==
    /\ phase = "died"
    /\ starts < MaxStarts
    /\ starts' = starts + 1
    /\ phase' = "lookup"
    /\ source' = "xdg"
    /\ file' = <<>>
    /\ credentials' = {}
    /\ used_ports' = {}
    /\ address_map' = Tree!NULL
    /\ instances' = <<>>
    /\ UNCHANGED contents

\* ini_cb for username and password.
Credential(name) ==
    /\ NoSection
    /\ Reading([kind |-> name])
    /\ credentials' = credentials \cup {name}
    /\ UNCHANGED <<phase, instanceVars>>

\* ini_cb for unmodified, the line the skeleton asks to remove: die.
Unmodified ==
    /\ NoSection
    /\ Reading([kind |-> "unmodified"])
    /\ phase' = "died"
    /\ UNCHANGED <<credentials, instanceVars>>

\* address_mngr_add_address_by_port for a port some line has claimed.
PortAgain(port, a) ==
    /\ port \in used_ports
    /\ Reading([kind |-> "port", port |-> port, address |-> a])
    /\ UNCHANGED <<phase, credentials, instanceVars>>

\* The same for a new one; the descriptor is the next one free.
PortReady(port, a) ==
    /\ port \notin used_ports
    /\ Reading([kind |-> "port", port |-> port, address |-> a])
    /\ used_ports' = used_ports \cup {port}
    /\ address_map' = Tree!insert(address_map, Cardinality(used_ports), Len(file'))
    /\ instances' = [k \in DOMAIN instances \cup {Len(file')} |->
                        IF k \in DOMAIN instances THEN instances[k]
                        ELSE [address |-> a, settings |-> [s \in Setting |-> Default]]]
    /\ UNCHANGED <<phase, credentials>>

\* The camera gives no services; port and descriptor stay taken.
PortSilent(port, a) ==
    /\ port \notin used_ports
    /\ Reading([kind |-> "port", port |-> port, address |-> a])
    /\ used_ports' = used_ports \cup {port}
    /\ UNCHANGED <<phase, credentials, address_map, instances>>

\* The camera gives services and then fails: die.
PortDies(port, a) ==
    /\ port \notin used_ports
    /\ Reading([kind |-> "port", port |-> port, address |-> a])
    /\ phase' = "died"
    /\ UNCHANGED <<credentials, instanceVars>>

\* ini_cb for a line of another section; a warning if no instance matches.
Apply(section, name, value) ==
    /\ Reading([kind |-> "setting", section |-> section, name |-> name,
                value |-> value])
    /\ LET found == find_soap_instance_matching_ip(address_map, section)
       IN  instances' = IF found = 0 THEN instances
                        ELSE [instances EXCEPT ![found].settings[name] = value]
    /\ UNCHANGED <<phase, credentials, used_ports, address_map>>

\* The end of the file; what follows needs both credentials.
EndOfFile ==
    /\ phase = "reading"
    /\ contents[source] = "skeleton" => file # <<>>
    /\ phase' = IF credentials = {"username", "password"} THEN "started" ELSE "died"
    /\ UNCHANGED <<fileVars, file, credentials, instanceVars>>

Next ==
    \/ \E p \in Place : Found(p)
    \/ CreateSkeleton \/ CannotOpen \/ Edit \/ StartAgain
    \/ \E name \in {"username", "password"} : Credential(name)
    \/ Unmodified
    \/ \E port \in Port, a \in Address :
            \/ PortAgain(port, a) \/ PortReady(port, a)
            \/ PortSilent(port, a) \/ PortDies(port, a)
    \/ \E section \in Section, name \in Setting, value \in Value :
            Apply(section, name, value)
    \/ EndOfFile

Spec == Init /\ [][Next]_vars

------------------------------------------------------------------------------
TypeOK ==
    /\ \A k \in DOMAIN file : file[k] \in Line
    /\ phase \in {"lookup", "reading", "started", "died"}
    /\ contents \in [Place -> Contents]
    /\ starts \in 1..MaxStarts
    /\ source \in Place
    /\ credentials \subseteq {"username", "password"}
    /\ used_ports \subseteq Port
    /\ {e.data : e \in Tree!Entries[address_map]} = DOMAIN instances
    /\ \A k \in DOMAIN instances :
            /\ instances[k].address \in Address
            /\ instances[k].settings \in [Setting -> Value \cup {Default}]

\* A file somebody has edited is never overwritten, and nothing but one is ever
\* served from, however often the program is started.
EditedFileKept ==
    [][/\ \A p \in Place : contents[p] = "edited" => contents'[p] = "edited"
       /\ phase' = "started" => contents[source] = "edited"]_vars

\* An instance has a setting only if a line of its own camera's section says so.
SettingsStayApart ==
    \A k \in DOMAIN instances, s \in Setting :
        instances[k].settings[s] # Default =>
            \E j \in DOMAIN file :
                file[j] = [kind |-> "setting", section |-> instances[k].address,
                           name |-> s, value |-> instances[k].settings[s]]

\* The last line that sets an option of a camera is in effect, if an earlier
\* line made the camera known: on one of its instances, wherever insertions and
\* rotations have put them in the tree.
LastWordCounts ==
    \A k \in DOMAIN file :
        /\ file[k].kind = "setting"
        /\ \A j \in (k + 1)..Len(file) :
                file[j].kind = "setting" =>
                    <<file[j].section, file[j].name>> # <<file[k].section, file[k].name>>
        /\ \E i \in DOMAIN instances : i < k /\ instances[i].address = file[k].section
        => \E i \in DOMAIN instances :
                /\ instances[i].address = file[k].section
                /\ instances[i].settings[file[k].name] = file[k].value

=============================================================================
