--------------------------- MODULE CommandOutput ---------------------------
(***************************************************************************)
(* From the characters a discovery child prints to the ports of the        *)
(* cameras (epoll_handle_pipe, string_concat and command_output_ready of   *)
(* worker.c, create_unique_port_from_ip of address_manager.c).  The pipe   *)
(* cuts the text anywhere; it is put together again in a buffer that       *)
(* grows, split at its newlines, and each line turned into two numbers,    *)
(* which PortAssignment takes from there.                                  *)
(*                                                                         *)
(* One child at a time prints; that several may be in flight is Worker's.  *)
(***************************************************************************)
EXTENDS PortAssignment, SequencesExt

CONSTANTS
    Outputs,            \* what a child may print, as sequences of lines
    InitialLength,      \* VOPROXYD_STRING_BUFFERS_INITIAL_LENGTH
    ExtendLength,       \* VOPROXYD_STRING_BUFFERS_EXTEND_LENGTH
    ReadLength,         \* VOPROXYD_PIPE_READ_BUFFER_LENGTH
    OutputLimit,        \* 4096 in command_output_ready
    MaxCommands         \* bound: discoveries

ASSUME LengthAssumption ==
    /\ InitialLength \in Nat \ {0} /\ ExtendLength \in Nat \ {0}
    /\ ReadLength \in Nat \ {0} /\ OutputLimit \in Nat

\* Characters: digits, the dot, the newline, and "ERROR" as one.
Dot == 10
Newline == 11
ErrorText == 12

\* A decimal number from 0 to 255, and the address of a camera in 192.168.
Digits(n) ==
    (IF n >= 100 THEN <<n \div 100>> ELSE <<>>)
        \o (IF n >= 10 THEN <<(n \div 10) % 10>> ELSE <<>>) \o <<n % 10>>
Dotted(a) ==
    <<1, 9, 2, Dot, 1, 6, 8, Dot>> \o Digits(a[1]) \o <<Dot>> \o Digits(a[2])

\* What echo prints for each line.
Printed(lines) == FoldLeft(LAMBDA text, line : text \o line \o <<Newline>>, <<>>, lines)

ASSUME OutputsAssumption == \A lines \in Outputs : Printed(lines) \in Seq(Nat)

VARIABLES
    commands,           \* how many children were run
    output,             \* history: the text the child in hand prints
    script,             \* what it has still to print
    pipe,               \* what is in the pipe
    command_output,     \* the string read so far
    command_output_len, \* the length of its buffer
    rest,               \* the part of output_copy strtok has not seen
    stage,              \* "idle", "reading", "lines" or "dead"
    can_do_discovery,
    memory              \* "overrun" once a byte outside an array was written

commandVars == <<output, script, pipe, command_output, command_output_len>>
numberingVars == <<announced, used_ports, socket, bitset>>
outputVars == <<commands, commandVars, rest, stage, can_do_discovery, memory,
                numberingVars>>

OutputInit ==
    /\ Init
    /\ commands = 0
    /\ output = <<>> /\ script = <<>> /\ pipe = <<>>
    /\ command_output = <<>> /\ command_output_len = InitialLength
    /\ rest = <<>>
    /\ stage = "idle"
    /\ can_do_discovery = TRUE
    /\ memory = "intact"

Intact == memory = "intact" /\ bitset = "intact"

\* worker_do_external_discovery and run_command.
Discover ==
    /\ Intact /\ stage = "idle"
    /\ can_do_discovery
    /\ commands < MaxCommands
    /\ commands' = commands + 1
    /\ output' \in {Printed(lines) : lines \in Outputs}
    /\ script' = output'
    /\ pipe' = <<>>
    /\ command_output' = <<>>
    /\ command_output_len' = InitialLength
    /\ stage' = "reading"
    /\ UNCHANGED <<rest, can_do_discovery, memory, numberingVars>>

\* The child prints some more.
ChildPrints ==
    /\ \E n \in 1..Len(script) :
        /\ pipe' = pipe \o SubSeq(script, 1, n)
        /\ script' = SubSeq(script, n + 1, Len(script))
    /\ UNCHANGED <<commands, output, command_output, command_output_len, rest,
                   stage, can_do_discovery, memory, numberingVars>>

\* string_ensure_fits_substring: the least number of extensions.
FitsWithout(length, buffer_length, needle_length) ==    \* mutant: no room for the 0
    buffer_length + needle_length <= length
Fits(length, buffer_length, needle_length) ==
    buffer_length + needle_length + 1 <= length

string_ensure_fits_substring(hay, needle) ==
    CHOOSE length \in {command_output_len + k * ExtendLength : k \in 0..Len(needle) + 1} :
        /\ Fits(length, Len(hay), Len(needle))
        /\ length > command_output_len
            => ~Fits(length - ExtendLength, Len(hay), Len(needle))

string_concat(buffer) ==
    /\ command_output_len' = string_ensure_fits_substring(command_output, buffer)
    /\ command_output' = command_output \o buffer

\* epoll_handle_pipe with something to read.
epoll_handle_pipe ==
    /\ Intact /\ stage = "reading" /\ pipe # <<>>
    /\ LET bytes_read == IF Len(pipe) < ReadLength THEN Len(pipe) ELSE ReadLength
       IN  /\ string_concat(SubSeq(pipe, 1, bytes_read))
           /\ pipe' = SubSeq(pipe, bytes_read + 1, Len(pipe))
           \* a full buffer has no place for the terminating zero
           /\ memory' \in IF bytes_read = ReadLength THEN {"intact", "overrun"} ELSE {"intact"}
    /\ UNCHANGED <<commands, output, script, rest, stage, can_do_discovery, numberingVars>>

\* command_output_ready of the exit code, up to the first strtok.
Failed(exit_code) == exit_code # 0 \/ ErrorText \in Range(command_output)

command_output_ready(exit_code) ==
    /\ Intact /\ stage = "reading" /\ script = <<>> /\ pipe = <<>>
    /\ \/ /\ Failed(exit_code)
          /\ can_do_discovery' = FALSE
          /\ stage' = "idle" /\ UNCHANGED rest
       \/ /\ ~Failed(exit_code)
          /\ Len(command_output) > OutputLimit
          /\ stage' = "dead" /\ UNCHANGED <<rest, can_do_discovery>>
       \/ /\ ~Failed(exit_code)
          /\ Len(command_output) <= OutputLimit
          /\ rest' = command_output
          /\ stage' = "lines" /\ UNCHANGED can_do_discovery
    /\ UNCHANGED <<commands, commandVars, memory, numberingVars>>

\* strtok(rest, "\n"): from the first other character up to a newline or the
\* end; and what is left then.
First(text) == SelectInSeq(text, LAMBDA c : c # Newline)
Stripped(text) == SubSeq(text, First(text), Len(text))
NewlineIn(text) == SelectInSeq(text \o <<Newline>>, LAMBDA c : c = Newline)
Token(text) == SubSeq(Stripped(text), 1, NewlineIn(Stripped(text)) - 1)
AfterToken(text) ==
    LET s == Stripped(text) IN SubSeq(s, NewlineIn(s) + 1, Len(s))

\* The loop of create_unique_port_from_ip: the four numbers, and how far idx
\* got where a digit was put.
Parsed(address) == FoldLeft(
    LAMBDA so, c :
        IF c = Dot THEN [so EXCEPT !.idx = @ + 1]
        ELSE IF so.idx > 3 THEN [so EXCEPT !.outside = TRUE]
        ELSE [so EXCEPT !.bytes[so.idx + 1] = 10 * @ + c],
    [bytes |-> <<0, 0, 0, 0>>, idx |-> 0, outside |-> FALSE], address)

\* The bytes the port depends on.
CameraReversed(line) == <<line.bytes[4], line.bytes[3]>>    \* mutant: host order
Camera(line) == <<line.bytes[3], line.bytes[4]>>

\* Address holds every camera that discovery names: in an output without an
\* error, from wherever a line begins, strtok comes to one of them next, or to
\* a line of more than four numbers.
ASSUME AddressesAssumption ==
    \A lines \in Outputs : LET text == Printed(lines) IN
        ErrorText \notin Range(text) =>
            \A i \in 1..Len(text) :
                LET following == SubSeq(text, i, Len(text))
                    line == Parsed(Token(following))
                IN  /\ i = 1 \/ text[i - 1] = Newline
                    /\ First(following) # 0
                    => line.outside \/ \E a \in Address :
                            a[1] = line.bytes[3] /\ a[2] = line.bytes[4]

\* The next line, if there is one, is an address.
AddLine ==
    /\ Intact /\ stage = "lines" /\ First(rest) # 0
    /\ LET line == Parsed(Token(rest))
       IN  \/ /\ ~line.outside
              /\ address_mngr_add_address(Camera(line)) \/ AddressOutsideBitset(Camera(line))
              /\ UNCHANGED memory
           \/ /\ line.outside
              /\ memory' = "overrun"
              /\ UNCHANGED numberingVars
    /\ rest' = AfterToken(rest)
    /\ UNCHANGED <<commands, commandVars, stage, can_do_discovery>>

LinesDoneAtEmpty ==                     \* mutant: an empty line ends the loop
    /\ Intact /\ stage = "lines" /\ First(rest) # 1
    /\ stage' = "idle"
    /\ UNCHANGED <<commands, commandVars, rest, can_do_discovery, memory, numberingVars>>
LinesDone ==
    /\ Intact /\ stage = "lines" /\ First(rest) = 0
    /\ stage' = "idle"
    /\ UNCHANGED <<commands, commandVars, rest, can_do_discovery, memory, numberingVars>>

OutputNext ==
    \/ Discover \/ ChildPrints \/ epoll_handle_pipe
    \/ \E exit_code \in {0, 1} : command_output_ready(exit_code)
    \/ AddLine \/ LinesDone

OutputSpec == OutputInit /\ [][OutputNext]_outputVars

------------------------------------------------------------------------------
OutputTypeOK ==
    /\ TypeOK
    /\ command_output_len \in Nat
    /\ stage \in {"idle", "reading", "lines", "dead"}
    /\ memory \in {"intact", "overrun"}

\* Wherever the pipe cuts the text, the string and its terminating zero fit
\* into the buffer, and nothing of the text is lost, repeated or moved.
OutputWhole ==
    /\ Len(command_output) < command_output_len
    /\ command_output \o pipe \o script = output

\* The cameras the child named on lines of their own.
Named(text) == {a \in Address : \E i \in 1..(Len(text) - Len(Dotted(a))) :
    /\ i = 1 \/ text[i - 1] = Newline
    /\ SubSeq(text, i, i + Len(Dotted(a))) = Dotted(a) \o <<Newline>>}

\* When command_output_ready has seen the last line, every camera the child
\* named on a line of its own was given to the address manager: the line is
\* found whatever comes before it, and its digits are read back right.
EveryLineAdded ==
    [][stage = "lines" /\ stage' = "idle" => Named(output) \subseteq announced]_outputVars

\* From the text to the ports: the cameras announced and the ports they were
\* assigned are those PortAssignment gives to the numbers in the addresses.
ImplementsPortAssignment == Spec

==============================================================================
