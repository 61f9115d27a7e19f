--------------------------- MODULE StartupProofs ---------------------------
(***************************************************************************)
(* What the start-up promises of descriptors, for any number of them.      *)
(***************************************************************************)
EXTENDS Startup, WellFoundedInduction, TLAPS

Table == [Fd -> [file : File, cloexec : BOOLEAN]]

\* From n on every descriptor is free; up to k every one is taken.
FreeFrom(t, n) == \A f \in Fd : f >= n => t[f] = Closed
TakenTo(t, k) == \A f \in Fd : f < k => t[f] # Closed

------------------------------------------------------------------------------
DupLabel == {"dup stdin", "dup stdout", "dup stderr"}
InitLabel == {"epoll", "signal", "inotify", "timer", "config_read", "run_command"}
ProxyLabel == {"greeting", "main_loop"} \cup InitLabel

\* How far each process is, and who may have been forked by then.
Course ==
    /\ pc = [p \in Process |-> pc[p]]
    /\ pc["main"] \in {"arguments", "exited", "died"} \cup
            (IF start.daemonize THEN {"openlog", "daemonize", "waitpid"} ELSE ProxyLabel)
    /\ pc["middle"] \in {"none", "setsid", "fork", "_exit", "exited", "died"}
    /\ pc["daemon"] \in {"none", "chdir", "open", "died"} \cup DupLabel \cup ProxyLabel
    /\ pc["child"] \in {"none", "redirect", "running", "died"}
    /\ pc["middle"] # "none" => start.daemonize /\ pc["main"] \in {"waitpid", "exited", "died"}
    /\ pc["daemon"] # "none" => pc["middle"] \in {"_exit", "exited"}
    /\ pc["child"] # "none" => pc[Proxy] = "main_loop"

\* A descriptor that survives an exec is the log file's or one the program
\* was started with, at its own number.
Survivors(t) == \A f \in Fd : ~t[f].cloexec =>
    t[f].file \in {"closed", "log"} \cup {Inherited[f].file}

\* How many descriptors are taken at most, at each place where one more may be:
\* the log file and syslog's socket are never both made.
Spare == IF UsesSyslog THEN 0 ELSE 1
Room(l, t) ==
    /\ l = "arguments" => t = Inherited
    /\ l = "openlog" => FreeFrom(t, 3 + Spare)
    /\ l \in {"daemonize", "waitpid", "setsid", "fork", "chdir", "open"} =>
            FreeFrom(t, 4 + Spare)
    /\ l \in DupLabel \cup {"greeting"} => FreeFrom(t, 5 + Spare)
    /\ l = "epoll" => FreeFrom(t, 6)
    /\ l = "signal" => FreeFrom(t, 7)
    /\ l = "inotify" => FreeFrom(t, 8)
    /\ l = "timer" => FreeFrom(t, 9)
    /\ l = "config_read" => FreeFrom(t, 10)
    /\ l = "run_command" => FreeFrom(t, 11)

\* The four descriptors of worker_init fill the standard numbers.
Filled(l, t) ==
    /\ l = "signal" => TakenTo(t, 1)
    /\ l = "inotify" => TakenTo(t, 2)
    /\ l \in {"timer", "config_read", "run_command"} => TakenTo(t, 3)

\* syslog's descriptor is a taken one; from the greeting on it is the socket.
Connected(l, t, at) ==
    /\ at # NoFd => at \in Fd /\ t[at] # Closed
    /\ ~start.syslogd => at = NoFd
    /\ UsesSyslog /\ l \in InitLabel /\ at # NoFd => t[at].file = "syslog"

\* What the daemon did to its standard descriptors so far.
Redirecting(l, t) ==
    l \in DupLabel => null_fd \in Fd /\ t[null_fd].file = "null"
Nulled(l, t) ==
    /\ l \in DupLabel => null_fd \notin Standard
    /\ l \in {"dup stdout", "dup stderr"} \cup ProxyLabel => t[0].file = "null"
    /\ l \in {"dup stderr"} \cup ProxyLabel => t[1].file = "null"
    /\ l \in ProxyLabel => t[2].file = "null"

\* What messages are written to, if not to syslog.
Logging(l, t) ==
    ~UsesSyslog /\ log_fd # NoFd /\ l \notin {"none", "arguments", "exited"} =>
        /\ t[log_fd].file = LogTarget
        /\ start.log # "stdout" => log_fd \notin Standard

\* The processes that make descriptors.
Own == {"main", "middle", "daemon"}

\* A process p other than the child at l, with the table t and syslog's
\* descriptor at.
Local(p, l, t, at) ==
    /\ t \in Table
    /\ Survivors(t)
    /\ \A f \in Fd : t[f].file # "write"
    /\ Room(l, t) /\ Filled(l, t)
    /\ Connected(l, t, at)
    /\ l \in InitLabel => CanLog
    /\ p = "daemon" => Redirecting(l, t)
    /\ start.open = Standard =>
        /\ TakenTo(t, 3) /\ at \notin Standard
        /\ Logging(l, t)
        /\ p = "daemon" => Nulled(l, t)

\* The child before and after its exec.
ChildLocal(l, t, at) ==
    /\ t \in Table
    /\ at # NoFd => at \in Fd /\ t[at] # Closed
    /\ ~start.syslogd => at = NoFd
    /\ l = "redirect" =>
        /\ Survivors(t)
        /\ \E w \in Fd \ Standard :
                t[w].file = "write" /\ \A f \in Fd : t[f].file = "write" => f = w
    /\ l = "running" => ChildOutputCollected

Shared ==
    /\ start \in Start
    /\ fds \in [Process -> Table]
    /\ session \in [Process -> Process \cup {"shell"}]
    /\ cwd \in [Process -> {"start", "/"}]
    /\ LogFile \in [Process -> Fd \cup {NoFd}]
    /\ log_fd \in Fd \cup {NoFd} /\ null_fd \in Fd \cup {NoFd}
    /\ pc["main"] = "arguments" => log_fd = 1
    /\ pc["middle"] = "fork" => session["middle"] = "middle"
    /\ pc["daemon"] # "none" => session["daemon"] = "middle"
    /\ pc["daemon"] \notin {"none", "chdir", "died"} => cwd["daemon"] = "/"
    /\ LogReachesTarget

IInv ==
    /\ Shared /\ Course
    /\ \A p \in Own : Local(p, pc[p], fds[p], LogFile[p])
    /\ ChildLocal(pc["child"], fds["child"], LogFile["child"])

------------------------------------------------------------------------------
\* The table the program is started with.
LEMMA InheritedTable ==
    ASSUME start \in Start
    PROVE  /\ Inherited \in Table
           /\ FreeFrom(Inherited, 3)
           /\ \A f \in Fd : Inherited[f].file \in {"closed", "stdin", "stdout", "stderr"}
           /\ \A f \in Fd \ {1, 2} : Inherited[f].file \in {"closed", "stdin"}
           /\ start.open = Standard => Inherited[1].file = "stdout" /\ TakenTo(Inherited, 3)
  <1> DEFINE names == <<"stdin", "stdout", "stderr">>
  <1>1. \A f \in Fd : Inherited[f] = IF f \in start.open
                                   THEN [file |-> names[f + 1], cloexec |-> FALSE] ELSE Closed
    BY Zenon DEF Inherited
  <1> HIDE DEF names
  <1>2. 0 + 1 = 1 /\ 1 + 1 = 2 /\ 2 + 1 = 3
    OBVIOUS
  <1>3. names[1] = "stdin" /\ names[2] = "stdout" /\ names[3] = "stderr"
    BY DEF names
  <1>4. names[0 + 1] = "stdin" /\ names[1 + 1] = "stdout" /\ names[2 + 1] = "stderr"
    BY <1>2, <1>3, Zenon
  <1>5. start.open \subseteq Standard
    BY DEF Start
  <1>6. ASSUME NEW f \in Fd
        PROVE  \/ f \notin start.open /\ Inherited[f] = Closed
               \/ f = 0 /\ Inherited[f] = [file |-> "stdin", cloexec |-> FALSE]
               \/ f = 1 /\ Inherited[f] = [file |-> "stdout", cloexec |-> FALSE]
               \/ f = 2 /\ Inherited[f] = [file |-> "stderr", cloexec |-> FALSE]
    <2>1. CASE f \notin start.open
      BY <1>1, <2>1
    <2>2. CASE f \in start.open
      <3>1. f = 0 \/ f = 1 \/ f = 2
        BY <1>5, <2>2 DEF Standard
      <3>2. Inherited[f] = [file |-> names[f + 1], cloexec |-> FALSE]
        BY <1>1, <2>2
      <3> QED
        BY <1>4, <3>1, <3>2, Zenon
    <2> QED
      BY <2>1, <2>2
  <1>7. Inherited \in Table
    <2>1. \A f \in Fd : Inherited[f] \in [file : File, cloexec : BOOLEAN]
      <3>1. {"closed", "stdin", "stdout", "stderr"} \subseteq File
        BY DEF File
      <3>2. \A x \in {"closed", "stdin", "stdout", "stderr"} :
                [file |-> x, cloexec |-> FALSE] \in [file : File, cloexec : BOOLEAN]
        BY <3>1
      <3>3. \A f \in Fd : \E x \in {"closed", "stdin", "stdout", "stderr"} :
                Inherited[f] = [file |-> x, cloexec |-> FALSE]
        BY <1>6, Zenon DEF Closed
      <3> QED
        BY <3>2, <3>3, Zenon
    <2>2. Inherited = [f \in Fd |-> Inherited[f]]
      BY Zenon DEF Inherited
    <2> QED
      BY <2>1, <2>2 DEF Table
  <1>8. FreeFrom(Inherited, 3)
    BY <1>6, LastFdAssumption DEF FreeFrom, Fd
  <1>9. /\ \A f \in Fd : Inherited[f].file \in {"closed", "stdin", "stdout", "stderr"}
        /\ \A f \in Fd \ {1, 2} : Inherited[f].file \in {"closed", "stdin"}
    BY <1>6 DEF Closed
  <1>10. ASSUME start.open = Standard
         PROVE  Inherited[1].file = "stdout" /\ TakenTo(Inherited, 3)
    <2>1. 1 \in Fd /\ 1 \in Standard /\ \A f \in Fd : f < 3 => f \in Standard
      BY LastFdAssumption DEF Fd, Standard
    <2>2. Inherited[1].file = "stdout"
      BY <1>6, <1>10, <2>1
    <2>3. TakenTo(Inherited, 3)
      BY <1>6, <1>10, <2>1 DEF TakenTo, Closed
    <2> QED
      BY <2>2, <2>3
  <1> QED
    BY <1>7, <1>8, <1>9, <1>10

\* The lowest free number there is, if n is free.
LEMMA LowestFree ==
    ASSUME NEW t, NEW n \in Fd, t[n] = Closed
    PROVE  /\ Lowest(t) \in Fd /\ t[Lowest(t)] = Closed /\ Lowest(t) <= n
           /\ \A g \in Fd : g < Lowest(t) => t[g] # Closed
  <1> DEFINE less == {ss \in Nat \X Nat : ss[1] < ss[2]}
             S == {f \in Fd : t[f] = Closed}
  <1>1. less = OpToRel(<, Nat)
    BY Zenon DEF OpToRel
  <1>2. IsWellFoundedOn(less, Nat)
    BY <1>1, NatLessThanWellFounded, Zenon
  <1>3. S \subseteq Nat /\ n \in S
    BY LastFdAssumption DEF Fd
  <1>4. PICK x \in S : \A y \in S : ~(<<y, x>> \in less)
    BY <1>2, <1>3, WFMin, Zenon
  <1>5. ASSUME NEW y \in S, y < x PROVE FALSE
    <2>1. <<y, x>> \in Nat \X Nat /\ <<y, x>>[1] < <<y, x>>[2]
      BY <1>3, <1>5
    <2>2. <<y, x>> \in less
      BY <2>1, Zenon
    <2> QED
      BY <2>2, <1>4
  <1>6. x \in Fd /\ t[x] = Closed /\ \A g \in Fd : t[g] = Closed => x <= g
    BY <1>3, <1>5
  <1>7. /\ Lowest(t) \in Fd /\ t[Lowest(t)] = Closed
        /\ \A g \in Fd : t[g] = Closed => Lowest(t) <= g
    BY <1>6, Zenon DEF Lowest
  <1> QED
    BY <1>7, LastFdAssumption DEF Fd

\* A table with one more descriptor.
Opens(t, u, k, file, cloexec) ==
    /\ u \in Table /\ k \in Fd /\ t[k] = Closed
    /\ u[k] = [file |-> file, cloexec |-> cloexec]
    /\ \A f \in Fd : f # k => u[f] = t[f]
    /\ \A f \in Fd : f < k => t[f] # Closed

\* Where there is room for it.
LEMMA OneMore ==
    ASSUME NEW t \in Table, NEW n \in Fd, FreeFrom(t, n),
           NEW file \in File \ {"closed"}, NEW cloexec \in BOOLEAN
    PROVE  /\ Opens(t, opened(t, file, cloexec), Lowest(t), file, cloexec)
           /\ FreeFrom(opened(t, file, cloexec), n + 1)
  <1>1. n \in Int /\ t[n] = Closed
    BY LastFdAssumption DEF Fd, FreeFrom
  <1>2. PICK k \in Fd : /\ k = Lowest(t) /\ t[k] = Closed /\ k <= n
                        /\ \A g \in Fd : g < k => t[g] # Closed
    BY <1>1, LowestFree
  <1>3. PICK u : u = [t EXCEPT ![k] = [file |-> file, cloexec |-> cloexec]]
    OBVIOUS
  <1>4. u = opened(t, file, cloexec)
    BY <1>2, <1>3 DEF opened
  <1>5. [file |-> file, cloexec |-> cloexec] \in [file : File, cloexec : BOOLEAN]
    OBVIOUS
  <1>6. /\ u \in Table /\ u[k] = [file |-> file, cloexec |-> cloexec]
        /\ \A f \in Fd : f # k => u[f] = t[f]
    BY <1>2, <1>3, <1>5 DEF Table
  <1>7. FreeFrom(u, n + 1)
    <2> SUFFICES ASSUME NEW f \in Fd, f >= n + 1 PROVE u[f] = Closed
      BY DEF FreeFrom
    <2>1. f \in Int /\ k \in Int
      BY LastFdAssumption DEF Fd
    <2>2. f # k /\ f >= n
      BY <1>1, <1>2, <2>1
    <2> QED
      BY <1>6, <2>2 DEF FreeFrom
  <1> QED
    BY <1>2, <1>4, <1>6, <1>7 DEF Opens

\* What is free from n on is free from any higher number on.
LEMMA FreeHigher ==
    ASSUME NEW t, NEW m \in Int, NEW n \in Int, FreeFrom(t, m), m <= n
    PROVE  FreeFrom(t, n)
  BY LastFdAssumption DEF FreeFrom, Fd

\* What a descriptor more leaves as it was.
LEMMA OpensKeeps ==
    ASSUME NEW t \in Table, NEW u, NEW k, NEW file, NEW cloexec,
           Opens(t, u, k, file, cloexec), file \notin {"closed", "write"}
    PROVE  /\ \A f \in Fd : t[f] # Closed => u[f] = t[f]
           /\ \A f \in Fd : t[f] # Closed => u[f] # Closed
           /\ Survivors(t) /\ (cloexec = TRUE \/ file = "log") => Survivors(u)
           /\ (\A f \in Fd : t[f].file # "write") => \A f \in Fd : u[f].file # "write"
           /\ \A m \in Nat : TakenTo(t, m) => TakenTo(u, m + 1)
           /\ \A m \in Nat : TakenTo(t, m) => TakenTo(u, m) /\ k >= m
  <1>1. k \in Fd /\ t[k] = Closed /\ u[k] = [file |-> file, cloexec |-> cloexec]
    BY DEF Opens
  <1>2. \A f \in Fd : f # k => u[f] = t[f]
    BY DEF Opens
  <1>3. u[k] # Closed /\ u[k].file = file /\ u[k].cloexec = cloexec
    BY <1>1 DEF Closed
  <1>4. \A f \in Fd : t[f] # Closed => u[f] = t[f]
    BY <1>1, <1>2
  <1>5. \A f \in Fd : t[f] # Closed => u[f] # Closed
    BY <1>4
  <1>6. ASSUME Survivors(t), cloexec = TRUE \/ file = "log" PROVE Survivors(u)
    <2> SUFFICES ASSUME NEW f \in Fd, ~u[f].cloexec
                 PROVE  u[f].file \in {"closed", "log"} \cup {Inherited[f].file}
      BY DEF Survivors
    <2>1. CASE f = k
      BY <1>3, <1>6, <2>1
    <2>2. CASE f # k
      BY <1>2, <1>6, <2>2 DEF Survivors
    <2> QED
      BY <2>1, <2>2
  <1>7. ASSUME \A f \in Fd : t[f].file # "write"
        PROVE  \A f \in Fd : u[f].file # "write"
    BY <1>2, <1>3, <1>7
  <1>8. ASSUME NEW m \in Nat, TakenTo(t, m)
        PROVE  TakenTo(u, m + 1) /\ TakenTo(u, m) /\ k >= m
    <2>1. k \in Int /\ \A f \in Fd : f \in Int
      BY <1>1, LastFdAssumption DEF Fd
    <2>2. k >= m
      BY <1>1, <1>8, <2>1 DEF TakenTo
    <2>3. TakenTo(u, m)
      BY <1>5, <1>8 DEF TakenTo
    <2>4. ASSUME NEW f \in Fd, f < m + 1, u[f] = Closed PROVE FALSE
      <3>1. f # k /\ t[f] = Closed
        BY <1>3, <1>5, <2>4
      <3>2. ~(f < k)
        BY <3>1 DEF Opens
      <3> QED
        BY <2>1, <2>2, <2>4, <3>1, <3>2
    <2> QED
      BY <2>2, <2>3, <2>4 DEF TakenTo
  <1> QED
    BY <1>4, <1>5, <1>6, <1>7, <1>8

------------------------------------------------------------------------------
\* What a message does to the table t of its process and to syslog's
\* descriptor at: nothing, or syslog connects anew, in place of what it held.
Cleared(t, at) == IF at = NoFd THEN t ELSE [t EXCEPT ![at] = Closed]
Logs(t, at, u, at2) ==
    \/ /\ u = t /\ at2 = at
       /\ UsesSyslog /\ at # NoFd => t[at].file = "syslog"
    \/ /\ UsesSyslog /\ start.syslogd
       /\ at # NoFd => t[at].file # "syslog"
       /\ u = opened(Cleared(t, at), "syslog", TRUE)
       /\ at2 = Lowest(Cleared(t, at))

\* The macro log changes the table of the process that logs and syslog's
\* descriptor in it, and adds at most one message.
LEMMA LogEffect ==
    ASSUME Shared, NEW p \in Own, Connected(pc[p], fds[p], LogFile[p]), log(p)
    PROVE  /\ \E u, at2 :
                /\ Logs(fds[p], LogFile[p], u, at2)
                /\ fds' = [fds EXCEPT ![p] = u]
                /\ LogFile' = [LogFile EXCEPT ![p] = at2]
           /\ \A m \in logged' : m \in logged
                \/ m = <<p, IF UsesSyslog THEN "syslog" ELSE fds[p][log_fd].file>>
  <1> DEFINE t == fds[p]
             at == LogFile[p]
  <1>1. fds = [fds EXCEPT ![p] = t] /\ LogFile = [LogFile EXCEPT ![p] = at]
    BY DEF Shared, Own, Process
  <1>2. CASE ~UsesSyslog
    BY <1>1, <1>2 DEF log, Logs
  <1>3. CASE UsesSyslog /\ at # NoFd /\ t[at].file = "syslog"
    BY <1>1, <1>3 DEF log, Logs, syslog
  <1>4. CASE UsesSyslog /\ ~(at # NoFd /\ t[at].file = "syslog") /\ start.syslogd
    <2>1. /\ fds' = [fds EXCEPT ![p] = opened(Cleared(t, at), "syslog", TRUE)]
          /\ LogFile' = [LogFile EXCEPT ![p] = Lowest(Cleared(t, at))]
          /\ logged' = logged \cup {<<p, "syslog">>}
      BY <1>4, Zenon DEF log, syslog, Cleared
    <2> QED
      BY <2>1, <1>4 DEF Logs
  <1>5. CASE UsesSyslog /\ ~(at # NoFd /\ t[at].file = "syslog") /\ ~start.syslogd
    <2>1. at = NoFd
      BY <1>5 DEF Connected
    <2>2. fds' = [fds EXCEPT ![p] = t] /\ LogFile' = [LogFile EXCEPT ![p] = NoFd]
          /\ UNCHANGED logged
      BY <1>5, <2>1, Zenon DEF log, syslog
    <2> QED
      BY <2>1, <2>2 DEF Logs
  <1> QED
    BY <1>2, <1>3, <1>4, <1>5

\* A message keeps a table in order.
LEMMA LogKeeps ==
    ASSUME NEW t \in Table, NEW at \in Fd \cup {NoFd}, NEW l, NEW n \in 0..11,
           NEW u, NEW at2, Logs(t, at, u, at2),
           Survivors(t), \A f \in Fd : t[f].file # "write",
           Connected(l, t, at), FreeFrom(t, n)
    PROVE  /\ u \in Table /\ Survivors(u) /\ \A f \in Fd : u[f].file # "write"
           /\ ~UsesSyslog => u = t
           /\ FreeFrom(u, n + 1)
           /\ at2 # NoFd => at2 \in Fd /\ u[at2] # Closed
           /\ ~start.syslogd => at2 = NoFd
           /\ UsesSyslog /\ at2 # NoFd => u[at2].file = "syslog"
           /\ TakenTo(t, 3) /\ at \notin Standard =>
                /\ TakenTo(u, 3) /\ at2 \notin Standard
                /\ \A f \in Standard : u[f] = t[f]
           /\ l \in InitLabel => \A m \in Nat : TakenTo(t, m) => TakenTo(u, m)
  <1>1. /\ n \in Int /\ n + 1 \in Int /\ n \in Fd /\ Standard \subseteq Fd
        /\ \A f \in Fd : f \in Int
    BY LastFdAssumption DEF Fd, Standard
  <1>2. FreeFrom(t, n + 1)
    BY <1>1, FreeHigher
  <1>3. at # NoFd => at \in Fd /\ t[at] # Closed
    BY DEF Connected
  <1>4. CASE /\ u = t /\ at2 = at
             /\ UsesSyslog /\ at # NoFd => t[at].file = "syslog"
    BY <1>2, <1>4 DEF Connected
  <1>5. CASE /\ UsesSyslog /\ start.syslogd
             /\ at # NoFd => t[at].file # "syslog"
             /\ u = opened(Cleared(t, at), "syslog", TRUE)
             /\ at2 = Lowest(Cleared(t, at))
    <2>1. PICK c : c = Cleared(t, at)
      OBVIOUS
    <2>2. Closed \in [file : File, cloexec : BOOLEAN]
      BY DEF Closed, File
    <2>3. /\ c \in Table
          /\ \A f \in Fd : f # at => c[f] = t[f]
          /\ \A f \in Fd : c[f] = t[f] \/ c[f] = Closed
          /\ at = NoFd => c = t
          /\ at # NoFd => c[at] = Closed
      BY <2>1, <2>2, <1>3 DEF Cleared, Table
    <2>4. Survivors(c)
      BY <2>3 DEF Survivors, Closed
    <2>5. \A f \in Fd : c[f].file # "write"
      BY <2>3 DEF Closed
    <2>6. FreeFrom(c, n)
      BY <2>3 DEF FreeFrom
    <2>7. Opens(c, u, at2, "syslog", TRUE) /\ FreeFrom(u, n + 1)
      BY <1>1, <1>5, <2>1, <2>3, <2>6, OneMore DEF File
    <2>8. /\ Survivors(u) /\ \A f \in Fd : u[f].file # "write"
          /\ \A f \in Fd : c[f] # Closed => u[f] = c[f]
          /\ \A m \in Nat : TakenTo(c, m) => TakenTo(u, m) /\ at2 >= m
      <3>1. /\ \A f \in Fd : c[f] # Closed => u[f] = c[f]
            /\ Survivors(c) => Survivors(u)
            /\ (\A f \in Fd : c[f].file # "write") => \A f \in Fd : u[f].file # "write"
            /\ \A m \in Nat : TakenTo(c, m) => TakenTo(u, m) /\ at2 >= m
        <4>1. c \in Table /\ "syslog" \notin {"closed", "write"}
          BY <2>3
        <4>2. /\ \A f \in Fd : c[f] # Closed => u[f] = c[f]
              /\ Survivors(c) /\ (TRUE = TRUE \/ "syslog" = "log") => Survivors(u)
              /\ (\A f \in Fd : c[f].file # "write") => \A f \in Fd : u[f].file # "write"
              /\ \A m \in Nat : TakenTo(c, m) => TakenTo(u, m) /\ at2 >= m
          BY <4>1, <2>7, OpensKeeps, Zenon
        <4> QED
          BY <4>2, Zenon
      <3> QED
        BY <2>4, <2>5, <3>1
    <2>9. u \in Table /\ at2 \in Fd /\ u[at2].file = "syslog"
      BY <2>7 DEF Opens
    <2>10. u[at2] # Closed
      BY <2>9 DEF Closed
    <2>11. ASSUME TakenTo(t, 3), at \notin Standard
           PROVE  /\ TakenTo(u, 3) /\ at2 \notin Standard
                  /\ \A f \in Standard : u[f] = t[f]
      <3>1. \A f \in Fd : f < 3 => f # at
        BY <2>11, LastFdAssumption DEF Standard, Fd
      <3>2. TakenTo(c, 3) /\ \A f \in Standard : c[f] = t[f] /\ c[f] # Closed
        BY <1>1, <2>3, <2>11, <3>1 DEF TakenTo, Standard
      <3>3. TakenTo(u, 3) /\ at2 >= 3
        BY <2>8, <3>2
      <3> QED
        BY <1>1, <2>8, <3>2, <3>3 DEF Standard
    <2>12. ASSUME l \in InitLabel, NEW m \in Nat, TakenTo(t, m)
           PROVE  TakenTo(u, m)
      <3>1. at = NoFd
        BY <1>5, <2>12 DEF Connected
      <3> QED
        BY <2>3, <2>8, <2>12, <3>1
    <2> QED
      BY <1>5, <2>7, <2>8, <2>9, <2>10, <2>11, <2>12
  <1> QED
    BY <1>4, <1>5 DEF Logs

------------------------------------------------------------------------------
\* A process is in order later if it is as one that is in order now.
LEMMA LocalLater ==
    ASSUME UNCHANGED start,
           NEW p, NEW l, NEW t, NEW at, Local(p, l, t, at),
           UNCHANGED log_fd \/ l \in {"none", "arguments", "exited"},
           UNCHANGED null_fd \/ p # "daemon",
           pc'[p] = l, fds'[p] = t, LogFile'[p] = at
    PROVE  Local(p, pc[p], fds[p], LogFile[p])'
  <1>1. Inherited' = Inherited /\ UsesSyslog' = UsesSyslog /\ Spare' = Spare
        /\ LogTarget' = LogTarget
    BY DEF Inherited, UsesSyslog, Spare, LogTarget
  <1>2. Survivors(fds[p])' /\ Room(pc[p], fds[p])' /\ Filled(pc[p], fds[p])'
        /\ Connected(pc[p], fds[p], LogFile[p])'
    BY <1>1 DEF Local, Survivors, Room, Filled, Connected, FreeFrom, TakenTo
  <1>3. p = "daemon" => Redirecting(pc[p], fds[p])'
    BY DEF Local, Redirecting
  <1>4. pc'[p] \in InitLabel => CanLog'
    BY DEF Local, CanLog, InitLabel
  <1>5. start.open = Standard =>
            /\ TakenTo(fds[p], 3)' /\ LogFile'[p] \notin Standard
            /\ Logging(pc[p], fds[p])'
            /\ p = "daemon" => Nulled(pc[p], fds[p])'
    BY <1>1 DEF Local, Logging, Nulled, TakenTo
  <1> QED
    BY <1>1, <1>2, <1>3, <1>4, <1>5 DEF Local

\* The same for a step that changes log_fd or null_fd, outside worker_init.
LEMMA LocalThen ==
    ASSUME UNCHANGED start, NEW p, NEW l, NEW t, NEW at,
           pc'[p] = l, fds'[p] = t, LogFile'[p] = at,
           t \in Table, Survivors(t), \A f \in Fd : t[f].file # "write",
           Room(l, t), Filled(l, t), Connected(l, t, at), l \notin InitLabel,
           p = "daemon" => Redirecting(l, t)',
           start.open = Standard =>
               /\ TakenTo(t, 3) /\ at \notin Standard
               /\ Logging(l, t)'
               /\ p = "daemon" => Nulled(l, t)'
    PROVE  Local(p, pc[p], fds[p], LogFile[p])'
  <1>1. Inherited' = Inherited /\ UsesSyslog' = UsesSyslog /\ Spare' = Spare
    BY DEF Inherited, UsesSyslog, Spare
  <1>2. Survivors(fds[p])' /\ Room(pc[p], fds[p])' /\ Filled(pc[p], fds[p])'
        /\ Connected(pc[p], fds[p], LogFile[p])'
    BY <1>1 DEF Survivors, Room, Filled, Connected, FreeFrom, TakenTo
  <1>3. p = "daemon" => Redirecting(pc[p], fds[p])'
    BY DEF Redirecting
  <1>4. start.open = Standard =>
            /\ TakenTo(fds[p], 3)' /\ LogFile'[p] \notin Standard
            /\ Logging(pc[p], fds[p])'
            /\ p = "daemon" => Nulled(pc[p], fds[p])'
    BY DEF Logging, Nulled, TakenTo
  <1> QED
    BY <1>2, <1>3, <1>4 DEF Local

\* So are the processes a step leaves alone.
LEMMA OthersLater ==
    ASSUME IInv, UNCHANGED start, NEW P,
           UNCHANGED log_fd \/ \A q \in Own \ P : pc[q] \in {"none", "arguments", "exited"},
           UNCHANGED null_fd \/ "daemon" \in P,
           \A q \in Process \ P : pc'[q] = pc[q] /\ fds'[q] = fds[q] /\ LogFile'[q] = LogFile[q],
           \A p \in Own \cap P : Local(p, pc[p], fds[p], LogFile[p])',
           "child" \in P => ChildLocal(pc["child"], fds["child"], LogFile["child"])'
    PROVE  /\ \A p \in Own : Local(p, pc[p], fds[p], LogFile[p])'
           /\ ChildLocal(pc["child"], fds["child"], LogFile["child"])'
  <1>1. ASSUME NEW p \in Own, p \notin P
        PROVE  Local(p, pc[p], fds[p], LogFile[p])'
    <2>1. p \in Process \ P /\ Local(p, pc[p], fds[p], LogFile[p])
      BY <1>1 DEF IInv, Own, Process
    <2>2. pc'[p] = pc[p] /\ fds'[p] = fds[p] /\ LogFile'[p] = LogFile[p]
      BY <2>1
    <2>3. PICK l, t, at : l = pc[p] /\ t = fds[p] /\ at = LogFile[p]
      OBVIOUS
    <2>4. /\ UNCHANGED log_fd \/ l \in {"none", "arguments", "exited"}
          /\ UNCHANGED null_fd \/ p # "daemon"
      BY <1>1, <2>3
    <2> QED
      BY <2>1, <2>2, <2>3, <2>4, LocalLater, Zenon
  <1>2. ASSUME "child" \notin P
        PROVE  ChildLocal(pc["child"], fds["child"], LogFile["child"])'
    <2>1. ChildLocal(pc["child"], fds["child"], LogFile["child"])
      BY DEF IInv
    <2>2. /\ pc'["child"] = pc["child"] /\ fds'["child"] = fds["child"]
          /\ LogFile'["child"] = LogFile["child"]
      BY <1>2 DEF Process
    <2>3. ChildOutputCollected => ChildOutputCollected'
      BY <2>2 DEF ChildOutputCollected
    <2>4. Inherited' = Inherited
      BY DEF Inherited
    <2>5. Survivors(fds["child"]) => Survivors(fds["child"])'
      BY <2>2, <2>4 DEF Survivors
    <2> QED
      BY <2>1, <2>2, <2>3, <2>5 DEF ChildLocal
  <1> QED
    BY <1>1, <1>2

\* A process that only goes on to a place where it makes no descriptor.
LEMMA GoesOn ==
    ASSUME NEW p, NEW l, NEW t, NEW at, Local(p, l, t, at),
           l \notin {"none", "arguments", "exited"},
           NEW m, \/ m \in {"exited", "died", "_exit"}
                  \/ m = "waitpid" /\ l = "daemonize"
                  \/ m = "fork" /\ l = "setsid"
                  \/ m = "open" /\ l = "chdir"
    PROVE  Local(p, m, t, at)
  BY DEF Local, Room, Filled, Connected, Redirecting, Logging, Nulled, DupLabel,
         InitLabel, ProxyLabel

\* A table u with a descriptor of the file more than t, which has none from n on.
Grown(t, at, n, file, u) ==
    /\ u \in Table /\ Survivors(u)
    /\ \A f \in Fd : u[f].file # "write"
    /\ FreeFrom(u, n + 1)
    /\ \A f \in Fd : t[f].file # "closed" => u[f] = t[f]
    /\ at # NoFd => at \in Fd /\ u[at] = t[at] /\ u[at] # Closed
    /\ \A m \in Nat : TakenTo(t, m) =>
            TakenTo(u, m) /\ TakenTo(u, m + 1) /\ Lowest(t) >= m
    /\ Lowest(t) \in Fd /\ u[Lowest(t)].file = file /\ u[Lowest(t)] # Closed

\* A descriptor more in a process that has room for it.
LEMMA OpensLocal ==
    ASSUME NEW p, NEW l, NEW t, NEW at, Local(p, l, t, at),
           NEW n \in 0..12, FreeFrom(t, n),
           NEW file \in File \ {"closed", "write"}, NEW cloexec \in BOOLEAN,
           cloexec = TRUE \/ file = "log",
           NEW u, u = opened(t, file, cloexec)
    PROVE  Grown(t, at, n, file, u)
  <1>1. t \in Table /\ Survivors(t) /\ (\A f \in Fd : t[f].file # "write")
        /\ (at # NoFd => at \in Fd /\ t[at] # Closed)
    BY DEF Local, Connected
  <1>2. n \in Fd
    BY LastFdAssumption DEF Fd
  <1>3. Opens(t, u, Lowest(t), file, cloexec) /\ FreeFrom(u, n + 1)
    BY <1>1, <1>2, OneMore
  <1>4. file \notin {"closed", "write"}
    OBVIOUS
  <1>5. /\ \A f \in Fd : t[f] # Closed => u[f] = t[f]
        /\ \A f \in Fd : t[f] # Closed => u[f] # Closed
        /\ Survivors(t) /\ (cloexec = TRUE \/ file = "log") => Survivors(u)
        /\ (\A f \in Fd : t[f].file # "write") => \A f \in Fd : u[f].file # "write"
        /\ \A m \in Nat : TakenTo(t, m) => TakenTo(u, m + 1)
        /\ \A m \in Nat : TakenTo(t, m) => TakenTo(u, m) /\ Lowest(t) >= m
    BY <1>1, <1>3, <1>4, OpensKeeps, Zenon
  <1>6. \A f \in Fd : t[f].file # "closed" => u[f] = t[f]
    BY <1>5 DEF Closed
  <1>7. u \in Table /\ Lowest(t) \in Fd /\ u[Lowest(t)].file = file
    BY <1>3 DEF Opens
  <1>8. u[Lowest(t)] # Closed
    BY <1>4, <1>7 DEF Closed
  <1> QED
    BY <1>1, <1>3, <1>5, <1>6, <1>7, <1>8 DEF Grown

\* The same for the close-on-exec ones.
LEMMA MarkedLocal ==
    ASSUME NEW p, NEW l, NEW t, NEW at, Local(p, l, t, at),
           NEW n \in 0..12, FreeFrom(t, n),
           NEW file \in File \ {"closed", "write"},
           NEW u, u = opened(t, file, TRUE)
    PROVE  Grown(t, at, n, file, u)
  <1>1. PICK c \in BOOLEAN : c = TRUE
    OBVIOUS
  <1>2. u = opened(t, file, c) /\ (c = TRUE \/ file = "log")
    BY <1>1
  <1> QED
    BY <1>2, OpensLocal

------------------------------------------------------------------------------
\* Where messages come from.
LogLabel == {"daemonize", "waitpid", "setsid", "fork", "chdir", "open", "greeting"}
                \cup DupLabel \cup InitLabel

\* There is always room for syslog's socket.
LEMMA RoomToLog ==
    ASSUME NEW p, NEW l \in LogLabel, NEW t, NEW at, Local(p, l, t, at)
    PROVE  \E n \in 0..11 :
                /\ FreeFrom(t, n)
                /\ l = "greeting" => n = 5 + Spare
                /\ l = "config_read" => n = 10
  <1>1. Spare \in {0, 1}
    BY DEF Spare
  <1>2. Room(l, t)
    BY DEF Local
  <1>3. CASE l \in {"daemonize", "waitpid", "setsid", "fork", "chdir", "open"}
    <2>1. FreeFrom(t, 4 + Spare) /\ 4 + Spare \in 0..11
      BY <1>1, <1>2, <1>3 DEF Room
    <2> QED
      BY <1>3, <2>1
  <1>4. CASE l \in DupLabel \cup {"greeting"}
    <2>1. FreeFrom(t, 5 + Spare) /\ 5 + Spare \in 0..11
      BY <1>1, <1>2, <1>4 DEF Room
    <2>2. l # "config_read"
      BY <1>4 DEF DupLabel
    <2> QED
      BY <2>1, <2>2
  <1>5. CASE l \in InitLabel
    BY <1>2, <1>5 DEF Room, InitLabel
  <1> QED
    BY <1>3, <1>4, <1>5 DEF LogLabel

\* A process in order is in order after a message, wherever it goes on.
LEMMA MessageLocal ==
    ASSUME NEW p, NEW l \in LogLabel, NEW t, NEW at, Local(p, l, t, at), CanLog,
           NEW u, NEW at2, Logs(t, at, u, at2),
           NEW m, \/ m = "died"
                  \/ m = "epoll" /\ l = "greeting"
                  \/ m = "run_command" /\ l = "config_read"
    PROVE  Local(p, m, u, at2)
  <1>1. PICK n \in 0..11 : /\ FreeFrom(t, n)
                           /\ l = "greeting" => n = 5 + Spare
                           /\ l = "config_read" => n = 10
    BY RoomToLog
  <1>2. /\ t \in Table /\ Survivors(t) /\ (\A f \in Fd : t[f].file # "write")
        /\ Connected(l, t, at) /\ at \in Fd \cup {NoFd}
    BY DEF Local, Connected
  <1>3. /\ u \in Table /\ Survivors(u) /\ (\A f \in Fd : u[f].file # "write")
        /\ ~UsesSyslog => u = t
        /\ FreeFrom(u, n + 1)
        /\ at2 # NoFd => at2 \in Fd /\ u[at2] # Closed
        /\ ~start.syslogd => at2 = NoFd
        /\ UsesSyslog /\ at2 # NoFd => u[at2].file = "syslog"
        /\ TakenTo(t, 3) /\ at \notin Standard =>
             /\ TakenTo(u, 3) /\ at2 \notin Standard
             /\ \A f \in Standard : u[f] = t[f]
        /\ l \in InitLabel => \A k \in Nat : TakenTo(t, k) => TakenTo(u, k)
    BY <1>1, <1>2, LogKeeps
  <1>4. Room(m, u)
    <2>1. ASSUME m = "epoll" PROVE FreeFrom(u, 6)
      <3>1. l = "greeting" /\ n = 5 + Spare
        BY <1>1, <2>1
      <3>2. CASE UsesSyslog
        BY <1>3, <3>1, <3>2 DEF Spare
      <3>3. CASE ~UsesSyslog
        BY <1>1, <1>3, <3>1, <3>3 DEF Spare
      <3> QED
        BY <3>2, <3>3
    <2>2. ASSUME m = "run_command" PROVE FreeFrom(u, 11)
      BY <1>1, <1>3, <2>2
    <2> QED
      BY <2>1, <2>2 DEF Room, DupLabel
  <1>5. Filled(m, u)
    <2>1. ASSUME m = "run_command" PROVE TakenTo(u, 3)
      <3>1. l = "config_read" /\ l \in InitLabel /\ 3 \in Nat
        BY <2>1 DEF InitLabel
      <3>2. TakenTo(t, 3)
        BY <3>1 DEF Local, Filled
      <3> QED
        BY <1>3, <3>1, <3>2
    <2> QED
      BY <2>1 DEF Filled
  <1>6. Connected(m, u, at2)
    BY <1>3 DEF Connected
  <1>7. p = "daemon" => Redirecting(m, u)
    BY DEF Redirecting, DupLabel
  <1>8. ASSUME start.open = Standard
        PROVE  /\ TakenTo(u, 3) /\ at2 \notin Standard
               /\ Logging(m, u)
               /\ p = "daemon" => Nulled(m, u)
    <2>1. TakenTo(t, 3) /\ at \notin Standard /\ Logging(l, t) /\ (p = "daemon" => Nulled(l, t))
      BY <1>8 DEF Local
    <2>2. Logging(m, u)
      BY <1>3, <2>1 DEF Logging, LogLabel, DupLabel, InitLabel
    <2>3. \A f \in Standard : u[f] = t[f]
      BY <1>3, <2>1
    <2>4. p = "daemon" => Nulled(m, u)
      <3>1. 0 \in Standard /\ 1 \in Standard /\ 2 \in Standard
        BY DEF Standard
      <3>2. m \in ProxyLabel => l \in ProxyLabel
        BY DEF ProxyLabel, InitLabel
      <3>3. m \in DupLabel \cup {"dup stdout", "dup stderr"} => FALSE
        BY DEF DupLabel
      <3> QED
        BY <2>1, <2>3, <3>1, <3>2, <3>3 DEF Nulled
    <2> QED
      BY <1>3, <2>1, <2>2, <2>4
  <1> QED
    BY <1>3, <1>4, <1>5, <1>6, <1>7, <1>8 DEF Local

\* A message goes where it should.
LEMMA MessageReaches ==
    ASSUME IInv, NEW p \in Own, pc[p] \in LogLabel, CanLog, log(p), UNCHANGED start
    PROVE  LogReachesTarget'
  <1>1. Local(p, pc[p], fds[p], LogFile[p])
    BY DEF IInv
  <1>2. Shared /\ Connected(pc[p], fds[p], LogFile[p])
    BY <1>1, Zenon DEF IInv, Local
  <1>3. \A m \in logged' : m \in logged
            \/ m = <<p, IF UsesSyslog THEN "syslog" ELSE fds[p][log_fd].file>>
    BY <1>2, LogEffect
  <1>4. LogTarget' = LogTarget
    BY DEF LogTarget
  <1>5. ASSUME start.open = Standard \/ (start.daemonize /\ start.log = "stdout")
        PROVE  (IF UsesSyslog THEN "syslog" ELSE fds[p][log_fd].file) = LogTarget
    <2>1. CASE UsesSyslog
      BY <2>1 DEF UsesSyslog, LogTarget
    <2>2. CASE ~UsesSyslog
      <3>1. start.open = Standard
        BY <1>5, <2>2 DEF UsesSyslog
      <3>2. Logging(pc[p], fds[p])
        BY <1>1, <3>1 DEF Local
      <3>3. pc[p] \notin {"none", "arguments", "exited"}
        BY DEF LogLabel, DupLabel, InitLabel
      <3> QED
        BY <2>2, <3>2, <3>3 DEF Logging, CanLog
    <2> QED
      BY <2>1, <2>2
  <1>6. LogReachesTarget
    BY DEF IInv, Shared
  <1>7. SUFFICES ASSUME start.open = Standard \/ (start.daemonize /\ start.log = "stdout"),
                        NEW m \in logged', m[1] # "child"
                 PROVE  m[2] = LogTarget
    BY <1>4 DEF LogReachesTarget
  <1>8. CASE m \in logged
    BY <1>6, <1>7, <1>8 DEF LogReachesTarget
  <1>9. CASE m = <<p, IF UsesSyslog THEN "syslog" ELSE fds[p][log_fd].file>>
    BY <1>5, <1>7, <1>9
  <1> QED
    BY <1>3, <1>8, <1>9

\* A step that says something and goes on to m.
LEMMA MessageStep ==
    ASSUME IInv, NEW p \in Own, pc[p] \in LogLabel, CanLog, log(p),
           UNCHANGED <<start, session, cwd, log_fd, null_fd>>,
           NEW m, pc' = [pc EXCEPT ![p] = m],
           \/ m = "died"
           \/ m = "epoll" /\ pc[p] = "greeting"
           \/ m = "run_command" /\ pc[p] = "config_read",
           Course'
    PROVE  IInv'
  <1>1. Local(p, pc[p], fds[p], LogFile[p]) /\ Shared /\ Course
    BY DEF IInv
  <1>2. Connected(pc[p], fds[p], LogFile[p])
    BY <1>1, Zenon DEF Local
  <1>3. PICK u, at2 : /\ Logs(fds[p], LogFile[p], u, at2)
                      /\ fds' = [fds EXCEPT ![p] = u]
                      /\ LogFile' = [LogFile EXCEPT ![p] = at2]
    BY <1>1, <1>2, LogEffect
  <1>4. PICK l, t, at : l = pc[p] /\ t = fds[p] /\ at = LogFile[p]
    OBVIOUS
  <1>5. Local(p, m, u, at2)
    BY <1>1, <1>3, <1>4, MessageLocal
  <1>6. p \in Process /\ pc = [q \in Process |-> pc[q]] /\ fds \in [Process -> Table]
        /\ LogFile \in [Process -> Fd \cup {NoFd}]
    BY <1>1 DEF Own, Process, Course, Shared
  <1>7. /\ pc'[p] = m /\ fds'[p] = u /\ LogFile'[p] = at2
        /\ \A q \in Process \ {p} : pc'[q] = pc[q] /\ fds'[q] = fds[q] /\ LogFile'[q] = LogFile[q]
    BY <1>3, <1>6
  <1>8. Local(p, pc[p], fds[p], LogFile[p])'
    BY <1>5, <1>7, LocalLater
  <1>9. /\ \A q \in Own : Local(q, pc[q], fds[q], LogFile[q])'
        /\ ChildLocal(pc["child"], fds["child"], LogFile["child"])'
    <2>1. \A q \in Own \cap {p} : Local(q, pc[q], fds[q], LogFile[q])'
      BY <1>8
    <2>2. "child" \notin {p}
      BY DEF Own
    <2> QED
      BY <1>7, <2>1, <2>2, OthersLater
  <1>10. Shared'
    <2>1. u \in Table /\ at2 \in Fd \cup {NoFd}
      BY <1>5 DEF Local, Connected
    <2>2. fds' \in [Process -> Table] /\ LogFile' \in [Process -> Fd \cup {NoFd}]
      BY <1>3, <1>6, <2>1
    <2>3. /\ pc'["main"] = "arguments" => pc["main"] = "arguments"
          /\ pc'["middle"] = "fork" => pc["middle"] = "fork"
          /\ pc'["daemon"] # "none" => pc["daemon"] # "none"
          /\ pc'["daemon"] \notin {"none", "chdir", "died"} => pc["daemon"] \notin {"none", "chdir", "died"}
      BY <1>6 DEF Process, LogLabel, DupLabel, InitLabel
    <2>4. LogReachesTarget'
      BY MessageReaches
    <2> QED
      BY <1>1, <2>2, <2>3, <2>4 DEF Shared
  <1> QED
    BY <1>9, <1>10 DEF IInv

------------------------------------------------------------------------------
\* The order of worker_init, and where a call may fail, spelt out.
LEMMA InitPlaces ==
    /\ \A i \in 1..4 :
            \/ InitOrder[i] = "epoll" /\ InitOrder[i + 1] = "signal"
            \/ InitOrder[i] = "signal" /\ InitOrder[i + 1] = "inotify"
            \/ InitOrder[i] = "inotify" /\ InitOrder[i + 1] = "timer"
            \/ InitOrder[i] = "timer" /\ InitOrder[i + 1] = "config_read"
    /\ Fallible = {"daemonize", "waitpid", "setsid", "fork", "chdir", "open"} \cup InitLabel
  <1>1. /\ InitOrder[1] = "epoll" /\ InitOrder[2] = "signal" /\ InitOrder[3] = "inotify"
        /\ InitOrder[4] = "timer" /\ InitOrder[5] = "config_read"
    BY DEF InitOrder
  <1>2. \A i \in 1..4 : i = 1 \/ i = 2 \/ i = 3 \/ i = 4
    OBVIOUS
  <1>3. 1 + 1 = 2 /\ 2 + 1 = 3 /\ 3 + 1 = 4 /\ 4 + 1 = 5
    OBVIOUS
  <1>4. {InitOrder[i] : i \in 1..4} = {"epoll", "signal", "inotify", "timer"}
    BY <1>1, <1>2
  <1> QED
    BY <1>1, <1>2, <1>3, <1>4 DEF Fallible, InitLabel

\* The places of the three dup3 calls, spelt out.
LEMMA DupPlaces ==
    ASSUME NEW f \in Standard
    PROVE  \/ f = 0 /\ DupPlace[f] = "dup stdin" /\ AfterDup[f] = "dup stdout"
           \/ f = 1 /\ DupPlace[f] = "dup stdout" /\ AfterDup[f] = "dup stderr"
           \/ f = 2 /\ DupPlace[f] = "dup stderr" /\ AfterDup[f] = "greeting"
  <1>1. f = 0 \/ f = 1 \/ f = 2
    BY DEF Standard
  <1>2. 0 \in Standard /\ 1 \in Standard /\ 2 \in Standard
    BY DEF Standard
  <1>3. \A g \in Standard :
            /\ DupPlace[g] = <<"dup stdin", "dup stdout", "dup stderr">>[g + 1]
            /\ AfterDup[g] = <<"dup stdout", "dup stderr", "greeting">>[g + 1]
    BY Zenon DEF DupPlace, AfterDup
  <1>4. 0 + 1 = 1 /\ 1 + 1 = 2 /\ 2 + 1 = 3
    OBVIOUS
  <1>5. /\ DupPlace[0] = <<"dup stdin", "dup stdout", "dup stderr">>[1]
        /\ DupPlace[1] = <<"dup stdin", "dup stdout", "dup stderr">>[2]
        /\ DupPlace[2] = <<"dup stdin", "dup stdout", "dup stderr">>[3]
        /\ AfterDup[0] = <<"dup stdout", "dup stderr", "greeting">>[1]
        /\ AfterDup[1] = <<"dup stdout", "dup stderr", "greeting">>[2]
        /\ AfterDup[2] = <<"dup stdout", "dup stderr", "greeting">>[3]
    BY <1>2, <1>3, <1>4, Zenon
  <1>6. /\ DupPlace[0] = "dup stdin" /\ DupPlace[1] = "dup stdout" /\ DupPlace[2] = "dup stderr"
        /\ AfterDup[0] = "dup stdout" /\ AfterDup[1] = "dup stderr" /\ AfterDup[2] = "greeting"
    BY <1>5
  <1> QED
    BY <1>1, <1>6

\* The step that p makes to m is one of its course.
MayMove(p, m) ==
    /\ p = "main" =>
        /\ m \in {"exited", "died"} \cup
             (IF start.daemonize THEN {"openlog", "daemonize"} ELSE ProxyLabel)
        /\ pc["main"] \notin {"exited", "died", "main_loop"}
        /\ pc["main"] = "waitpid" => m \in {"exited", "died"}
    /\ p = "middle" =>
        /\ m \in {"fork", "exited", "died"}
        /\ pc["middle"] \in {"setsid", "fork", "_exit"}
        /\ pc["middle"] = "_exit" => m = "exited"
    /\ p = "daemon" =>
        /\ m \in {"open", "died"} \cup DupLabel \cup ProxyLabel
        /\ pc["daemon"] \notin {"none", "died", "main_loop"}

\* Every process stays on its course.
LEMMA CourseMove ==
    ASSUME Course, UNCHANGED start, NEW p \in Own, NEW m,
           pc' = [pc EXCEPT ![p] = m], MayMove(p, m)
    PROVE  Course'
  <1>1. p \in Process /\ pc = [q \in Process |-> pc[q]] /\ Proxy' = Proxy
    BY DEF Own, Process, Course, Proxy
  <1>2. pc' = [q \in Process |-> pc'[q]] /\ pc'[p] = m /\ \A q \in Process \ {p} : pc'[q] = pc[q]
    BY <1>1 DEF MayMove
  <1>3. pc["middle"] # "none" => start.daemonize /\ pc["main"] \in {"waitpid", "exited", "died"}
    BY DEF Course
  <1>4. pc["daemon"] # "none" => pc["middle"] \in {"_exit", "exited"}
    BY DEF Course
  <1>5. pc["child"] # "none" => pc[Proxy] = "main_loop"
    BY DEF Course
  <1>6. /\ pc'["main"] \in {"arguments", "exited", "died"} \cup
            (IF start.daemonize THEN {"openlog", "daemonize", "waitpid"} ELSE ProxyLabel)
        /\ pc'["middle"] \in {"none", "setsid", "fork", "_exit", "exited", "died"}
        /\ pc'["daemon"] \in {"none", "chdir", "open", "died"} \cup DupLabel \cup ProxyLabel
        /\ pc'["child"] \in {"none", "redirect", "running", "died"}
    BY <1>2 DEF Course, Process, Own, MayMove
  <1>7. pc'["middle"] # "none" => start.daemonize /\ pc'["main"] \in {"waitpid", "exited", "died"}
    BY <1>2, <1>3 DEF Process, Own, MayMove
  <1>8. pc'["daemon"] # "none" => pc'["middle"] \in {"_exit", "exited"}
    BY <1>2, <1>4 DEF Process, Own, MayMove
  <1>9. pc'["child"] # "none" => pc'[Proxy] = "main_loop"
    BY <1>2, <1>5 DEF Process, Own, Proxy, MayMove
  <1> QED
    BY <1>1, <1>2, <1>6, <1>7, <1>8, <1>9 DEF Course

\* When a process goes on with its table as it is.
LEMMA QuietStep ==
    ASSUME IInv, NEW p \in Own, UNCHANGED <<start, fds, log_fd, LogFile, null_fd>>,
           NEW m, pc' = [pc EXCEPT ![p] = m],
           Local(p, m, fds[p], LogFile[p])
    PROVE  /\ \A q \in Own : Local(q, pc[q], fds[q], LogFile[q])'
           /\ ChildLocal(pc["child"], fds["child"], LogFile["child"])'
  <1>1. PICK t, at : t = fds[p] /\ at = LogFile[p]
    OBVIOUS
  <1>2. p \in Process /\ pc = [q \in Process |-> pc[q]] /\ "child" \notin {p}
    BY DEF IInv, Own, Process, Course
  <1>3. Local(p, m, t, at)
    BY <1>1
  <1>4. /\ pc'[p] = m /\ fds'[p] = t /\ LogFile'[p] = at
        /\ \A q \in Process \ {p} : pc'[q] = pc[q] /\ fds'[q] = fds[q] /\ LogFile'[q] = LogFile[q]
    BY <1>1, <1>2
  <1>5. Local(p, pc[p], fds[p], LogFile[p])'
    BY <1>3, <1>4, LocalLater
  <1>6. \A q \in Own \cap {p} : Local(q, pc[q], fds[q], LogFile[q])'
    BY <1>5
  <1> QED
    BY <1>2, <1>4, <1>6, OthersLater

------------------------------------------------------------------------------
\* The steps one by one.
LEMMA UsageStep == IInv /\ Usage => IInv'
  <1> SUFFICES ASSUME IInv, Usage PROVE IInv'
    OBVIOUS
  <1>1. /\ pc["main"] = "arguments" /\ pc' = [pc EXCEPT !["main"] = "exited"]
        /\ UNCHANGED <<start, fds, session, cwd, log_fd, LogFile, null_fd, logged>>
    BY DEF Usage, Goto
  <1>2. Shared /\ Course /\ Local("main", pc["main"], fds["main"], LogFile["main"])
    BY DEF IInv, Own
  <1>3. Local("main", "exited", fds["main"], LogFile["main"])
    BY <1>1, <1>2 DEF Local, Room, Filled, Connected, Redirecting, Logging, Nulled,
                      DupLabel, InitLabel, ProxyLabel
  <1>4. Course'
    <2>1. MayMove("main", "exited") /\ "main" \in Own
      BY <1>1 DEF MayMove, Own
    <2> QED
      BY <1>1, <1>2, <2>1, CourseMove
  <1>5. Shared'
    BY <1>1, <1>2 DEF Shared, LogReachesTarget, LogTarget, Course, Process
  <1>6. /\ \A q \in Own : Local(q, pc[q], fds[q], LogFile[q])'
        /\ ChildLocal(pc["child"], fds["child"], LogFile["child"])'
    BY <1>1, <1>3, QuietStep DEF Own
  <1> QED
    BY <1>4, <1>5, <1>6 DEF IInv

\* Steps that only move p on, and perhaps into another session or directory.
OnlyMoves(p, m) ==
    /\ MayMove(p, m)
    /\ pc[p] \notin {"none", "arguments", "exited"}
    /\ \/ m \in {"exited", "died"}
       \/ m = "fork" /\ pc[p] = "setsid" /\ p = "middle"
       \/ m = "open" /\ pc[p] = "chdir" /\ p = "daemon"
    /\ p = "daemon" /\ pc["daemon"] = "chdir" => m \in {"open", "died"}

\* Such a step keeps the invariant.
LEMMA MoveStep ==
    ASSUME IInv, NEW p \in Own, NEW m, pc' = [pc EXCEPT ![p] = m],
           UNCHANGED <<start, fds, log_fd, LogFile, null_fd, logged>>,
           OnlyMoves(p, m),
           \/ session' = session /\ m # "fork"
           \/ session' = [session EXCEPT !["middle"] = "middle"] /\ m = "fork",
           \/ cwd' = cwd /\ m # "open"
           \/ cwd' = [cwd EXCEPT !["daemon"] = "/"] /\ m = "open"
    PROVE  IInv'
  <1>1. Shared /\ Course /\ Local(p, pc[p], fds[p], LogFile[p])
    BY DEF IInv
  <1>2. Local(p, m, fds[p], LogFile[p])
    BY <1>1, GoesOn DEF OnlyMoves
  <1>3. Course'
    BY <1>1, CourseMove DEF OnlyMoves
  <1>4. pc'[p] = m /\ \A q \in Process \ {p} : pc'[q] = pc[q]
    BY <1>1 DEF Course, Own, Process
  <1>5. Shared'
    <2>1. session' \in [Process -> Process \cup {"shell"}] /\ cwd' \in [Process -> {"start", "/"}]
      BY <1>1 DEF Shared, Process
    <2>2. pc'["main"] = "arguments" => log_fd' = 1
      BY <1>1, <1>4 DEF Shared, Own, Process, OnlyMoves
    <2>3. pc'["middle"] = "fork" => session'["middle"] = "middle"
      BY <1>1, <1>4 DEF Shared, Own, Process, OnlyMoves
    <2>4. pc'["daemon"] # "none" => session'["daemon"] = "middle"
      BY <1>1, <1>4 DEF Shared, Own, Process, OnlyMoves
    <2>5. pc'["daemon"] \notin {"none", "chdir", "died"} => cwd'["daemon"] = "/"
      BY <1>1, <1>4 DEF Shared, Own, Process, OnlyMoves, MayMove
    <2>6. LogReachesTarget'
      BY <1>1 DEF Shared, LogReachesTarget, LogTarget
    <2> QED
      BY <1>1, <2>1, <2>2, <2>3, <2>4, <2>5, <2>6 DEF Shared
  <1>6. /\ \A q \in Own : Local(q, pc[q], fds[q], LogFile[q])'
        /\ ChildLocal(pc["child"], fds["child"], LogFile["child"])'
    BY <1>2, QuietStep
  <1> QED
    BY <1>3, <1>5, <1>6 DEF IInv

\* The launcher's end, setsid, the middle process's end, and chdir.
LEMMA PlainSteps ==
    IInv /\ (LauncherExits \/ Setsid \/ MiddleExits \/ ChangeRoot) => IInv'
  <1>1. ASSUME IInv, LauncherExits PROVE IInv'
    <2>1. OnlyMoves("main", "exited")
      BY <1>1 DEF LauncherExits, OnlyMoves, MayMove
    <2>2. /\ pc' = [pc EXCEPT !["main"] = "exited"] /\ "main" \in Own
          /\ UNCHANGED <<start, fds, session, cwd, log_fd, LogFile, null_fd, logged>>
      BY <1>1 DEF LauncherExits, Goto, Own
    <2> QED
      BY <1>1, <2>1, <2>2, MoveStep
  <1>2. ASSUME IInv, Setsid PROVE IInv'
    <2>1. OnlyMoves("middle", "fork")
      BY <1>2 DEF Setsid, OnlyMoves, MayMove
    <2>2. /\ pc' = [pc EXCEPT !["middle"] = "fork"] /\ "middle" \in Own
          /\ session' = [session EXCEPT !["middle"] = "middle"]
          /\ UNCHANGED <<start, fds, cwd, log_fd, LogFile, null_fd, logged>>
      BY <1>2 DEF Setsid, Goto, Own
    <2> QED
      BY <1>2, <2>1, <2>2, MoveStep
  <1>3. ASSUME IInv, MiddleExits PROVE IInv'
    <2>1. OnlyMoves("middle", "exited")
      BY <1>3 DEF MiddleExits, OnlyMoves, MayMove
    <2>2. /\ pc' = [pc EXCEPT !["middle"] = "exited"] /\ "middle" \in Own
          /\ UNCHANGED <<start, fds, session, cwd, log_fd, LogFile, null_fd, logged>>
      BY <1>3 DEF MiddleExits, Goto, Own
    <2> QED
      BY <1>3, <2>1, <2>2, MoveStep
  <1>4. ASSUME IInv, ChangeRoot PROVE IInv'
    <2>1. OnlyMoves("daemon", "open")
      BY <1>4 DEF ChangeRoot, OnlyMoves, MayMove
    <2>2. /\ pc' = [pc EXCEPT !["daemon"] = "open"] /\ "daemon" \in Own
          /\ cwd' = [cwd EXCEPT !["daemon"] = "/"]
          /\ UNCHANGED <<start, fds, session, log_fd, LogFile, null_fd, logged>>
      BY <1>4 DEF ChangeRoot, Goto, Own
    <2> QED
      BY <1>4, <2>1, <2>2, MoveStep
  <1> QED
    BY <1>1, <1>2, <1>3, <1>4

\* Where each process can be when something fails.
LEMMA WhereItFails ==
    ASSUME Course, NEW p \in Process, pc[p] \in LogLabel
    PROVE  /\ p \in Own
           /\ MayMove(p, "died")
           /\ OnlyMoves(p, "died")
  BY DEF Course, Process, Own, LogLabel, DupLabel, InitLabel, MayMove, OnlyMoves

\* A message to a log file that is not there.
LEMMA CrashStep == \A p \in Process : IInv /\ Crash(p) => IInv'
  <1> SUFFICES ASSUME NEW p \in Process, IInv, Crash(p) PROVE IInv'
    OBVIOUS
  <1>1. pc[p] \in LogLabel
    BY InitPlaces, DupPlaces DEF Crash, LogLabel, DupLabel
  <1>2. /\ pc' = [pc EXCEPT ![p] = "died"]
        /\ UNCHANGED <<start, fds, session, cwd, log_fd, LogFile, null_fd, logged>>
    BY DEF Crash, Goto
  <1>3. Course
    BY DEF IInv
  <1> QED
    BY <1>1, <1>2, <1>3, WhereItFails, MoveStep

\* A last message.
LEMMA DieStep ==
    ASSUME NEW p \in Process, IInv, pc[p] \in LogLabel, die(p)
    PROVE  IInv'
  <1>1. /\ CanLog /\ log(p) /\ pc' = [pc EXCEPT ![p] = "died"]
        /\ UNCHANGED <<start, session, cwd, log_fd, null_fd>>
    BY DEF die, Goto
  <1>2. Course
    BY DEF IInv
  <1>3. Course'
    BY <1>1, <1>2, WhereItFails, CourseMove
  <1> QED
    BY <1>1, <1>2, <1>3, WhereItFails, MessageStep

\* A call that fails, and a dup3 onto itself.
LEMMA FailSteps ==
    /\ \A p \in Process : IInv /\ Fail(p) => IInv'
    /\ \A f \in Standard : IInv /\ CannotRedirect(f) => IInv'
  <1>1. ASSUME NEW p \in Process, IInv, Fail(p) PROVE IInv'
    BY <1>1, InitPlaces, DieStep DEF Fail, LogLabel
  <1>2. ASSUME NEW f \in Standard, IInv, CannotRedirect(f) PROVE IInv'
    <2>1. pc["daemon"] \in LogLabel /\ die("daemon")
      BY <1>2, DupPlaces DEF CannotRedirect, LogLabel, DupLabel
    <2> QED
      BY <1>2, <2>1, DieStep DEF Process
  <1> QED
    BY <1>1, <1>2

\* A child that cannot redirect its output or run the shell.
LEMMA CannotExecuteStep == IInv /\ CannotExecute => IInv'
  <1> SUFFICES ASSUME IInv, CannotExecute PROVE IInv'
    OBVIOUS
  <1>1. Shared /\ Course /\ ChildLocal(pc["child"], fds["child"], LogFile["child"])
    BY DEF IInv
  <1>2. /\ pc["child"] = "redirect" /\ pc' = [pc EXCEPT !["child"] = "died"]
        /\ UNCHANGED <<start, fds, session, cwd, log_fd, LogFile, null_fd>>
    BY Zenon DEF CannotExecute, Goto
  <1>3. \A m \in logged' : m \in logged \/ m[1] = "child"
    <2>1. PICK S : logged' = logged \cup {<<"child", m>> : m \in S}
      BY Zenon DEF CannotExecute
    <2> QED
      BY <2>1
  <1>4. /\ pc = [q \in Process |-> pc[q]] /\ "child" \in Process /\ "child" \notin Own
    BY <1>1 DEF Course, Process, Own
  <1>5. /\ pc'["child"] = "died" /\ pc' = [q \in Process |-> pc'[q]]
        /\ \A q \in Process \ {"child"} :
                pc'[q] = pc[q] /\ fds'[q] = fds[q] /\ LogFile'[q] = LogFile[q]
    BY <1>2, <1>4
  <1>6. ChildLocal(pc["child"], fds["child"], LogFile["child"])'
    BY <1>1, <1>2, <1>5 DEF ChildLocal
  <1>7. \A q \in Own : Local(q, pc[q], fds[q], LogFile[q])'
    <2>1. \A q \in Own \cap {"child"} : Local(q, pc[q], fds[q], LogFile[q])'
      BY <1>4
    <2> QED
      BY <1>2, <1>5, <1>6, <2>1, OthersLater
  <1>8. Course'
    <2>1. Proxy' = Proxy /\ Proxy \in {"main", "daemon"}
      BY <1>2 DEF Proxy
    <2>2. pc[Proxy] = "main_loop"
      BY <1>1, <1>2 DEF Course
    <2> QED
      BY <1>1, <1>2, <1>5, <2>1, <2>2 DEF Course, Process
  <1>9. Shared'
    <2>1. LogReachesTarget'
      BY <1>1, <1>2, <1>3 DEF Shared, LogReachesTarget, LogTarget
    <2> QED
      BY <1>1, <1>2, <1>5, <2>1 DEF Shared, Process
  <1> QED
    BY <1>6, <1>7, <1>8, <1>9 DEF IInv

\* The process that becomes the proxy.
LEMMA ProxyPlace ==
    ASSUME Course
    PROVE  /\ Proxy \in Own
           /\ Proxy = "main" => ~start.daemonize
           /\ Proxy = "daemon" => start.daemonize
           /\ Proxy \in {"main", "daemon"}
  BY DEF Proxy, Own

\* The first message.
LEMMA GreetingStep == IInv /\ print_greeting => IInv'
  <1> SUFFICES ASSUME IInv, print_greeting PROVE IInv'
    OBVIOUS
  <1>1. /\ pc[Proxy] = "greeting" /\ CanLog /\ log(Proxy)
        /\ pc' = [pc EXCEPT ![Proxy] = "epoll"]
        /\ UNCHANGED <<start, session, cwd, log_fd, null_fd>>
    BY DEF print_greeting, Goto
  <1>2. Course
    BY DEF IInv
  <1>3. Course'
    <2>1. MayMove(Proxy, "epoll")
      BY <1>1, <1>2, ProxyPlace DEF MayMove, ProxyLabel, InitLabel, Own
    <2> QED
      BY <1>1, <1>2, <2>1, ProxyPlace, CourseMove
  <1> QED
    BY <1>1, <1>2, <1>3, ProxyPlace, MessageStep DEF LogLabel

\* The message about the config file.
LEMMA ConfigStep == IInv /\ config_read => IInv'
  <1> SUFFICES ASSUME IInv, config_read PROVE IInv'
    OBVIOUS
  <1>1. /\ pc[Proxy] = "config_read" /\ log(Proxy)
        /\ pc' = [pc EXCEPT ![Proxy] = "run_command"]
        /\ UNCHANGED <<start, session, cwd, log_fd, null_fd>>
    BY DEF config_read, Goto
  <1>2. Course
    BY DEF IInv
  <1>3. Course'
    <2>1. MayMove(Proxy, "run_command")
      BY <1>1, <1>2, ProxyPlace DEF MayMove, ProxyLabel, InitLabel, Own
    <2> QED
      BY <1>1, <1>2, <2>1, ProxyPlace, CourseMove
  <1>4. CanLog
    <2>1. Local(Proxy, pc[Proxy], fds[Proxy], LogFile[Proxy])
      BY <1>2, ProxyPlace DEF IInv
    <2> QED
      BY <1>1, <2>1 DEF Local, InitLabel
  <1> QED
    BY <1>1, <1>2, <1>3, <1>4, ProxyPlace, MessageStep DEF LogLabel, InitLabel

\* Steps of p that change its table and syslog's descriptor.
LEMMA TableStep ==
    ASSUME IInv, NEW p \in Own, UNCHANGED <<start, session, cwd, log_fd, null_fd, logged>>,
           NEW m, NEW u, NEW at2,
           pc' = [pc EXCEPT ![p] = m],
           fds' = [fds EXCEPT ![p] = u],
           LogFile' = [LogFile EXCEPT ![p] = at2],
           Local(p, m, u, at2), MayMove(p, m),
           m \notin {"arguments", "fork"},
           p = "daemon" => pc["daemon"] # "chdir"
    PROVE  IInv'
  <1>1. Shared /\ Course
    BY DEF IInv
  <1>2. Course'
    BY <1>1, CourseMove
  <1>3. p \in Process /\ pc = [q \in Process |-> pc[q]] /\ fds \in [Process -> Table]
        /\ LogFile \in [Process -> Fd \cup {NoFd}]
    BY <1>1 DEF Own, Process, Course, Shared
  <1>4. /\ pc'[p] = m /\ fds'[p] = u /\ LogFile'[p] = at2
        /\ \A q \in Process \ {p} : pc'[q] = pc[q] /\ fds'[q] = fds[q] /\ LogFile'[q] = LogFile[q]
    BY <1>3
  <1>5. Local(p, pc[p], fds[p], LogFile[p])'
    BY <1>4, LocalLater
  <1>6. /\ \A q \in Own : Local(q, pc[q], fds[q], LogFile[q])'
        /\ ChildLocal(pc["child"], fds["child"], LogFile["child"])'
    <2>1. \A q \in Own \cap {p} : Local(q, pc[q], fds[q], LogFile[q])'
      BY <1>5
    <2>2. "child" \notin {p}
      BY DEF Own
    <2> QED
      BY <1>4, <2>1, <2>2, OthersLater
  <1>7. Shared'
    <2>1. u \in Table /\ at2 \in Fd \cup {NoFd}
      BY DEF Local, Connected
    <2>2. fds' \in [Process -> Table] /\ LogFile' \in [Process -> Fd \cup {NoFd}]
      BY <1>3, <2>1
    <2>3. /\ pc'["main"] = "arguments" => pc["main"] = "arguments"
          /\ pc'["middle"] = "fork" => pc["middle"] = "fork"
          /\ pc'["daemon"] # "none" => pc["daemon"] # "none"
          /\ pc'["daemon"] \notin {"none", "chdir", "died"} => pc["daemon"] \notin {"none", "chdir", "died"}
      BY <1>4 DEF Process, MayMove
    <2>4. LogReachesTarget'
      BY <1>1 DEF Shared, LogReachesTarget, LogTarget
    <2> QED
      BY <1>1, <2>2, <2>3, <2>4 DEF Shared
  <1> QED
    BY <1>2, <1>6, <1>7 DEF IInv

\* A descriptor of the event loop, or the pipe's.
LEMMA OpenedLocal ==
    ASSUME NEW p, NEW l \in InitLabel, NEW t, NEW at, Local(p, l, t, at),
           log_fd \in Fd \cup {NoFd},
           NEW n \in 0..12, FreeFrom(t, n),
           NEW file \in File \ {"closed", "write"},
           NEW u, u = opened(t, file, TRUE),
           NEW m \in InitLabel \cup {"main_loop"}, Room(m, u), Filled(m, u)
    PROVE  Local(p, m, u, at)
  <1>1. /\ u \in Table /\ Survivors(u) /\ (\A f \in Fd : u[f].file # "write")
        /\ (\A f \in Fd : t[f].file # "closed" => u[f] = t[f])
        /\ (at # NoFd => at \in Fd /\ u[at] = t[at] /\ u[at] # Closed)
        /\ (\A k \in Nat : TakenTo(t, k) => TakenTo(u, k))
    <2>1. Grown(t, at, n, file, u)
      BY MarkedLocal
    <2> QED
      BY <2>1 DEF Grown
  <1>2. Connected(m, u, at) /\ CanLog
    BY <1>1 DEF Local, Connected, InitLabel
  <1>3. Redirecting(m, u)
    BY DEF Redirecting, DupLabel, InitLabel
  <1>4. ASSUME start.open = Standard
        PROVE  /\ TakenTo(u, 3) /\ at \notin Standard
               /\ Logging(m, u)
               /\ p = "daemon" => Nulled(m, u)
    <2>1. TakenTo(t, 3) /\ at \notin Standard /\ Logging(l, t) /\ (p = "daemon" => Nulled(l, t))
      BY <1>4 DEF Local
    <2>2. TakenTo(u, 3)
      BY <1>1, <2>1
    <2>3. LogTarget # "closed"
      BY DEF LogTarget
    <2>4. Logging(m, u)
      BY <1>1, <2>1, <2>3 DEF Logging, InitLabel
    <2>5. 0 \in Fd /\ 1 \in Fd /\ 2 \in Fd
      BY LastFdAssumption DEF Fd
    <2>6. l \in ProxyLabel /\ m \notin DupLabel \cup {"dup stdout", "dup stderr"}
      BY DEF ProxyLabel, DupLabel, InitLabel
    <2>7. Nulled(l, t) => Nulled(m, u)
      BY <1>1, <2>5, <2>6 DEF Nulled
    <2> QED
      BY <2>1, <2>2, <2>4, <2>7
  <1> QED
    BY <1>1, <1>2, <1>3, <1>4 DEF Local

\* One of the four descriptors of worker_init.
LEMMA WorkerInitStep == IInv /\ worker_init => IInv'
  <1> SUFFICES ASSUME IInv, worker_init PROVE IInv'
    OBVIOUS
  <1>1. Shared /\ Course /\ Proxy \in Own
    BY ProxyPlace DEF IInv
  <1>2. PICK i \in 1..4 :
            /\ pc[Proxy] = InitOrder[i]
            /\ fds' = [fds EXCEPT ![Proxy] = opened(@, InitOrder[i], TRUE)]
            /\ pc' = [pc EXCEPT ![Proxy] = InitOrder[i + 1]]
            /\ UNCHANGED <<start, session, cwd, log_fd, LogFile, null_fd, logged>>
    BY Zenon DEF worker_init, Goto
  <1>3. PICK l, m : /\ l = InitOrder[i] /\ m = InitOrder[i + 1]
                    /\ \/ l = "epoll" /\ m = "signal"
                       \/ l = "signal" /\ m = "inotify"
                       \/ l = "inotify" /\ m = "timer"
                       \/ l = "timer" /\ m = "config_read"
    BY InitPlaces
  <1>4. PICK p, t, at, u : /\ p = Proxy /\ t = fds[p] /\ at = LogFile[p]
                           /\ u = opened(t, l, TRUE)
    OBVIOUS
  <1>5. Local(p, l, t, at)
    BY <1>1, <1>2, <1>3, <1>4 DEF IInv
  <1>6. PICK n \in 6..9 : /\ FreeFrom(t, n)
                          /\ l = "epoll" => n = 6
                          /\ l = "signal" => n = 7
                          /\ l = "inotify" => n = 8
                          /\ l = "timer" => n = 9
    BY <1>3, <1>5 DEF Local, Room
  <1>7. l \in File \ {"closed", "write"} /\ n \in 0..12
        /\ l \in InitLabel /\ m \in InitLabel \cup {"main_loop"}
    BY <1>3 DEF File, InitLabel
  <1>8. /\ FreeFrom(u, n + 1)
        /\ \A k \in Nat : TakenTo(t, k) => TakenTo(u, k) /\ TakenTo(u, k + 1)
    <2>1. Grown(t, at, n, l, u)
      BY <1>4, <1>5, <1>6, <1>7, MarkedLocal
    <2> QED
      BY <2>1 DEF Grown
  <1>9. Room(m, u)
    <2>1. /\ m = "signal" => FreeFrom(u, 7)
          /\ m = "inotify" => FreeFrom(u, 8)
          /\ m = "timer" => FreeFrom(u, 9)
          /\ m = "config_read" => FreeFrom(u, 10)
      <3>1. /\ l = "epoll" => n + 1 = 7
            /\ l = "signal" => n + 1 = 8
            /\ l = "inotify" => n + 1 = 9
            /\ l = "timer" => n + 1 = 10
        BY <1>6
      <3>2. CASE l = "epoll" /\ m = "signal"
        BY <1>8, <3>1, <3>2
      <3>3. CASE l = "signal" /\ m = "inotify"
        BY <1>8, <3>1, <3>3
      <3>4. CASE l = "inotify" /\ m = "timer"
        BY <1>8, <3>1, <3>4
      <3>5. CASE l = "timer" /\ m = "config_read"
        BY <1>8, <3>1, <3>5
      <3> QED
        BY <1>3, <3>2, <3>3, <3>4, <3>5
    <2> QED
      BY <1>3, <2>1 DEF Room, DupLabel
  <1>10. Filled(m, u)
    <2>1. TakenTo(t, 0)
      BY LastFdAssumption DEF TakenTo, Fd
    <2>2. TakenTo(u, 0 + 1)
      BY <1>8, <2>1
    <2>3. Filled(l, t)
      BY <1>5 DEF Local
    <2>4. m = "signal" => TakenTo(u, 1)
      BY <2>2
    <2>5. m = "inotify" => TakenTo(u, 2)
      <3>1. m = "inotify" => TakenTo(t, 1)
        BY <1>3, <2>3 DEF Filled
      <3>2. TakenTo(t, 1) => TakenTo(u, 1 + 1)
        BY <1>8
      <3> QED
        BY <3>1, <3>2
    <2>6. m = "timer" => TakenTo(u, 3)
      <3>1. m = "timer" => TakenTo(t, 2)
        BY <1>3, <2>3 DEF Filled
      <3>2. TakenTo(t, 2) => TakenTo(u, 2 + 1)
        BY <1>8
      <3> QED
        BY <3>1, <3>2
    <2>7. m = "config_read" => TakenTo(u, 3)
      <3>1. m = "config_read" => TakenTo(t, 3)
        BY <1>3, <2>3 DEF Filled
      <3> QED
        BY <1>8, <3>1
    <2> QED
      BY <1>3, <2>4, <2>5, <2>6, <2>7 DEF Filled
  <1>11. Local(p, m, u, at)
    BY <1>1, <1>4, <1>5, <1>6, <1>7, <1>9, <1>10, OpenedLocal DEF Shared
  <1>12. MayMove(p, m)
    BY <1>1, <1>2, <1>3, <1>4, ProxyPlace DEF MayMove, ProxyLabel, InitLabel
  <1>13. /\ pc' = [pc EXCEPT ![p] = m] /\ fds' = [fds EXCEPT ![p] = u]
         /\ LogFile' = [LogFile EXCEPT ![p] = at]
    BY <1>1, <1>2, <1>3, <1>4 DEF Shared
  <1>14. m \notin {"arguments", "fork"} /\ (p = "daemon" => pc["daemon"] # "chdir")
    BY <1>2, <1>3, <1>4
  <1> QED
    BY <1>1, <1>2, <1>4, <1>11, <1>12, <1>13, <1>14, TableStep

\* openlog connects at once, if there is something to connect to.
LEMMA OpenlogStep == IInv /\ openlog => IInv'
  <1> SUFFICES ASSUME IInv, openlog PROVE IInv'
    OBVIOUS
  <1>1. Shared /\ Course /\ "main" \in Own /\ pc["main"] = "openlog"
    BY DEF IInv, openlog, Own
  <1>2. PICK t, at : t = fds["main"] /\ at = LogFile["main"]
    OBVIOUS
  <1>3. Local("main", "openlog", t, at)
    BY <1>1, <1>2 DEF IInv
  <1>4. PICK n \in 3..4 : n = 3 + Spare /\ FreeFrom(t, n)
    BY <1>3 DEF Local, Room, Spare
  <1>5. pc' = [pc EXCEPT !["main"] = "daemonize"]
        /\ UNCHANGED <<start, session, cwd, log_fd, null_fd, logged>>
    BY DEF openlog, Goto
  <1>6. MayMove("main", "daemonize")
    BY <1>1 DEF MayMove, Course, ProxyLabel, InitLabel
  <1>7. CASE start.syslogd
    <2>1. PICK u, at2 : u = opened(t, "syslog", TRUE) /\ at2 = Lowest(t)
      OBVIOUS
    <2>2. fds' = [fds EXCEPT !["main"] = u] /\ LogFile' = [LogFile EXCEPT !["main"] = at2]
      BY <1>2, <1>7, <2>1, Zenon DEF openlog
    <2>3. "syslog" \in File \ {"closed", "write"} /\ n \in 0..12
      BY DEF File
    <2>4. /\ u \in Table /\ Survivors(u) /\ (\A f \in Fd : u[f].file # "write")
          /\ FreeFrom(u, n + 1)
          /\ (\A f \in Fd : t[f].file # "closed" => u[f] = t[f])
          /\ (\A k \in Nat : TakenTo(t, k) => TakenTo(u, k) /\ at2 >= k)
          /\ at2 \in Fd /\ u[at2].file = "syslog" /\ u[at2] # Closed
      <3>1. Grown(t, at, n, "syslog", u)
        BY <1>3, <1>4, <2>1, <2>3, MarkedLocal
      <3> QED
        BY <2>1, <3>1 DEF Grown
    <2>5. FreeFrom(u, 4 + Spare)
      <3>1. n + 1 = 4 + Spare
        BY <1>4 DEF Spare
      <3> QED
        BY <2>4, <3>1
    <2>6. Room("daemonize", u) /\ Filled("daemonize", u) /\ Connected("daemonize", u, at2)
      BY <1>7, <2>4, <2>5 DEF Room, Filled, Connected, DupLabel, InitLabel
    <2>7. ASSUME start.open = Standard
          PROVE  TakenTo(u, 3) /\ at2 \notin Standard /\ Logging("daemonize", u)
      <3>1. TakenTo(t, 3) /\ Logging("openlog", t)
        BY <1>3, <2>7 DEF Local
      <3>2. TakenTo(u, 3) /\ at2 >= 3
        BY <2>4, <3>1
      <3>3. at2 \notin Standard
        BY <3>2 DEF Standard
      <3>4. LogTarget # "closed"
        BY DEF LogTarget
      <3>5. Logging("daemonize", u)
        BY <1>1, <2>4, <3>1, <3>4 DEF Logging, Shared
      <3> QED
        BY <3>2, <3>3, <3>5
    <2>8. Local("main", "daemonize", u, at2)
      BY <2>4, <2>6, <2>7 DEF Local, InitLabel
    <2> QED
      BY <1>1, <1>5, <1>6, <2>2, <2>8, TableStep
  <1>8. CASE ~start.syslogd
    <2>1. fds' = [fds EXCEPT !["main"] = t] /\ LogFile' = [LogFile EXCEPT !["main"] = at]
      BY <1>1, <1>2, <1>8 DEF openlog, Shared
    <2>2. FreeFrom(t, 4 + Spare)
      <3>1. n \in Int /\ 4 + Spare \in Int /\ n <= 4 + Spare
        BY <1>4 DEF Spare
      <3> QED
        BY <1>4, <3>1, FreeHigher
    <2>3. Local("main", "daemonize", t, at)
      BY <1>3, <2>2 DEF Local, Room, Filled, Connected, Logging, DupLabel, InitLabel
    <2> QED
      BY <1>1, <1>5, <1>6, <2>1, <2>3, TableStep
  <1> QED
    BY <1>7, <1>8

\* parse_arguments opens the log file, if there is one.
LEMMA ArgumentsStep == IInv /\ parse_arguments => IInv'
  <1> SUFFICES ASSUME IInv, parse_arguments PROVE IInv'
    OBVIOUS
  <1>1. Shared /\ Course /\ "main" \in Own /\ pc["main"] = "arguments" /\ start \in Start
    BY DEF IInv, parse_arguments, Own, Shared
  <1>2. PICK t, at, m : /\ t = fds["main"] /\ at = LogFile["main"]
                        /\ m = IF start.daemonize THEN "openlog" ELSE "greeting"
    OBVIOUS
  <1>3. /\ pc' = [pc EXCEPT !["main"] = m]
        /\ UNCHANGED <<start, session, cwd, LogFile, null_fd, logged>>
    BY <1>2 DEF parse_arguments, Goto
  <1>4. Local("main", "arguments", t, at)
    BY <1>1, <1>2 DEF IInv
  <1>5. t = Inherited /\ FreeFrom(t, 3) /\ log_fd = 1
    BY <1>1, <1>4, InheritedTable DEF Local, Room, Shared
  <1>6. m \in {"openlog", "greeting"}
    BY <1>2
  <1>7. SUFFICES /\ Local("main", pc["main"], fds["main"], LogFile["main"])'
                 /\ log_fd' \in Fd \cup {NoFd}
                 /\ \E u \in Table : fds' = [fds EXCEPT !["main"] = u]
    <2>1. PICK u \in Table : fds' = [fds EXCEPT !["main"] = u]
      BY <1>7
    <2>2. pc = [q \in Process |-> pc[q]] /\ fds \in [Process -> Table] /\ "main" \in Process
      BY <1>1 DEF Course, Shared, Process
    <2>3. /\ pc'["main"] = m /\ fds' \in [Process -> Table]
          /\ \A q \in Process \ {"main"} :
                pc'[q] = pc[q] /\ fds'[q] = fds[q] /\ LogFile'[q] = LogFile[q]
      BY <1>3, <2>1, <2>2
    <2>4. \A q \in Own \ {"main"} : pc[q] \in {"none", "arguments", "exited"}
      BY <1>1 DEF Course, Own
    <2>5. /\ \A q \in Own : Local(q, pc[q], fds[q], LogFile[q])'
          /\ ChildLocal(pc["child"], fds["child"], LogFile["child"])'
      <3>1. \A q \in Own \cap {"main"} : Local(q, pc[q], fds[q], LogFile[q])'
        BY <1>7
      <3> QED
        BY <1>3, <2>3, <2>4, <3>1, OthersLater
    <2>6. Course'
      <3>1. MayMove("main", m)
        BY <1>1, <1>2 DEF MayMove, ProxyLabel
      <3> QED
        BY <1>1, <1>3, <3>1, CourseMove
    <2>7. Shared'
      <3>1. LogReachesTarget'
        BY <1>1, <1>3 DEF Shared, LogReachesTarget, LogTarget
      <3>2. /\ pc'["main"] # "arguments"
            /\ pc'["middle"] = "fork" => session'["middle"] = "middle"
            /\ pc'["daemon"] # "none" => session'["daemon"] = "middle"
            /\ pc'["daemon"] \notin {"none", "chdir", "died"} => cwd'["daemon"] = "/"
        BY <1>1, <1>3, <1>6, <2>3 DEF Shared, Process
      <3> QED
        BY <1>1, <1>3, <1>7, <2>3, <3>1, <3>2 DEF Shared
    <2> QED
      BY <2>5, <2>6, <2>7 DEF IInv
  <1>8. fds = [fds EXCEPT !["main"] = t] /\ t \in Table
    BY <1>2, <1>1 DEF Shared, Process
  <1>9. pc'["main"] = m /\ LogFile'["main"] = at
    BY <1>1, <1>2, <1>3 DEF Course, Process
  <1>10. /\ t \in Table /\ Survivors(t) /\ (\A f \in Fd : t[f].file # "write")
         /\ Connected("arguments", t, at)
    BY <1>4 DEF Local
  <1>11. CASE start.log = "stdout"
    <2>1. UNCHANGED <<fds, log_fd>>
      BY <1>11 DEF parse_arguments
    <2>2. FreeFrom(t, 3 + Spare) /\ FreeFrom(t, 5 + Spare)
      BY <1>5, FreeHigher DEF Spare
    <2>3. Room(m, t) /\ Filled(m, t) /\ Connected(m, t, at)
      BY <1>6, <1>10, <2>2 DEF Room, Filled, Connected, DupLabel, InitLabel
    <2>4. start.open = Standard => Logging(m, t)
      BY <1>1, <1>5, <1>11, InheritedTable DEF Logging, UsesSyslog, LogTarget
    <2>5. Local("main", m, t, at)
      BY <1>4, <1>6, <1>10, <2>3, <2>4 DEF Local, InitLabel
    <2>6. fds'["main"] = t
      BY <1>2, <2>1
    <2>7. Local("main", pc["main"], fds["main"], LogFile["main"])'
      BY <1>3, <1>9, <2>1, <2>5, <2>6, LocalLater
    <2> QED
      BY <1>1, <1>8, <2>1, <2>7 DEF Shared
  <1>12. CASE start.log = "unopenable"
    <2>1. log_fd' = NoFd /\ UNCHANGED fds
      BY <1>12 DEF parse_arguments
    <2>2. FreeFrom(t, 3 + Spare) /\ FreeFrom(t, 5 + Spare)
      BY <1>5, FreeHigher DEF Spare
    <2>3. Room(m, t) /\ Filled(m, t) /\ Connected(m, t, at)
      BY <1>6, <1>10, <2>2 DEF Room, Filled, Connected, DupLabel, InitLabel
    <2>4. /\ fds'["main"] = t
          /\ start.open = Standard =>
                TakenTo(t, 3) /\ at \notin Standard /\ Logging(m, t)'
      BY <1>2, <1>4, <2>1 DEF Logging, CanLog, Local
    <2>5. Local("main", pc["main"], fds["main"], LogFile["main"])'
      BY <1>3, <1>6, <1>9, <1>10, <2>3, <2>4, LocalThen DEF InitLabel
    <2> QED
      BY <1>1, <1>8, <2>1, <2>5 DEF Shared
  <1>13. CASE start.log = "file"
    <2>1. PICK u : u = opened(t, "log", FALSE)
      OBVIOUS
    <2>2. log_fd' = Lowest(t) /\ fds' = [fds EXCEPT !["main"] = u]
      BY <1>2, <1>13, <2>1, Zenon DEF parse_arguments
    <2>3. Grown(t, at, 3, "log", u)
      <3>1. "log" \in File \ {"closed", "write"} /\ 3 \in 0..12
            /\ FALSE \in BOOLEAN
        BY DEF File
      <3> QED
        BY <1>4, <1>5, <2>1, <3>1, OpensLocal
    <2>4. ~UsesSyslog /\ Spare = 1 /\ LogTarget' = "log"
      BY <1>3, <1>13 DEF UsesSyslog, Spare, LogTarget
    <2>5. FreeFrom(u, 3 + Spare) /\ FreeFrom(u, 5 + Spare)
      <3>1. FreeFrom(u, 3 + 1)
        BY <2>3 DEF Grown
      <3> QED
        BY <2>4, <3>1, FreeHigher
    <2>6. Room(m, u) /\ Filled(m, u) /\ Connected(m, u, at)
      BY <1>6, <1>10, <2>3, <2>5 DEF Grown, Room, Filled, Connected, DupLabel, InitLabel
    <2>7. ASSUME start.open = Standard
          PROVE  TakenTo(u, 3) /\ at \notin Standard /\ Logging(m, u)'
      <3>1. TakenTo(t, 3) /\ at \notin Standard
        BY <1>4, <2>7 DEF Local
      <3>2. TakenTo(u, 3) /\ log_fd' >= 3 /\ log_fd' \in Fd /\ u[log_fd'].file = "log"
        BY <2>2, <2>3, <3>1 DEF Grown
      <3>3. log_fd' \notin Standard
        BY <3>2 DEF Standard
      <3> QED
        BY <2>4, <3>1, <3>2, <3>3 DEF Logging
    <2>8. u \in Table /\ Survivors(u) /\ (\A f \in Fd : u[f].file # "write")
          /\ log_fd' \in Fd
      BY <2>2, <2>3 DEF Grown
    <2>9. fds'["main"] = u
      BY <1>1, <2>2 DEF Shared, Process
    <2>10. Local("main", pc["main"], fds["main"], LogFile["main"])'
      BY <1>3, <1>6, <1>9, <2>6, <2>7, <2>8, <2>9, LocalThen DEF InitLabel
    <2> QED
      BY <2>2, <2>8, <2>10
  <1> QED
    BY <1>1, <1>11, <1>12, <1>13 DEF Start

\* A fork, of which the parent goes on at l with the table kept and the new
\* process starts at m with u.
LEMMA ForkStep ==
    ASSUME IInv, NEW p \in Own, NEW q \in Process, p # q,
           UNCHANGED <<start, log_fd, null_fd, logged>>,
           NEW l, NEW kept, NEW m, NEW u, fork(p, l, kept, q, m, u),
           Local(p, l, kept, LogFile[p]), l \notin {"arguments", "fork"},
           p = "daemon" => pc["daemon"] \notin {"none", "chdir", "died"},
           \/ q = "middle" /\ m = "setsid" /\ Local(q, m, u, LogFile[p])
           \/ q = "daemon" /\ m = "chdir" /\ Local(q, m, u, LogFile[p])
              /\ p = "middle" /\ pc[p] = "fork"
           \/ q = "child" /\ m = "redirect" /\ ChildLocal(m, u, LogFile[p]),
           Course'
    PROVE  IInv'
  <1>1. Shared /\ Course
    BY DEF IInv
  <1>2. /\ pc' = [pc EXCEPT ![p] = l, ![q] = m]
        /\ session' = [session EXCEPT ![q] = session[p]]
        /\ cwd' = [cwd EXCEPT ![q] = cwd[p]]
        /\ LogFile' = [LogFile EXCEPT ![q] = LogFile[p]]
        /\ fds' = [fds EXCEPT ![p] = kept, ![q] = u]
    BY DEF fork
  <1>3. /\ p \in Process /\ pc = [r \in Process |-> pc[r]] /\ fds \in [Process -> Table]
        /\ LogFile \in [Process -> Fd \cup {NoFd}]
        /\ session \in [Process -> Process \cup {"shell"}]
        /\ cwd \in [Process -> {"start", "/"}]
    BY <1>1 DEF Own, Process, Course, Shared
  <1>4. PICK at \in Fd \cup {NoFd} : at = LogFile[p]
    BY <1>3
  <1>5. /\ pc'[p] = l /\ fds'[p] = kept /\ LogFile'[p] = at
        /\ pc'[q] = m /\ fds'[q] = u /\ LogFile'[q] = at
        /\ \A r \in Process \ {p, q} :
                pc'[r] = pc[r] /\ fds'[r] = fds[r] /\ LogFile'[r] = LogFile[r]
    BY <1>2, <1>3, <1>4
  <1>6. kept \in Table /\ u \in Table
    BY DEF Local, ChildLocal
  <1>7. Local(p, pc[p], fds[p], LogFile[p])'
    <2>1. Local(p, l, kept, at)
      BY <1>4
    <2> QED
      BY <1>5, <2>1, LocalLater
  <1>8. q \in Own => Local(q, pc[q], fds[q], LogFile[q])'
    <2> SUFFICES ASSUME q \in Own PROVE Local(q, pc[q], fds[q], LogFile[q])'
      OBVIOUS
    <2>1. Local(q, m, u, at)
      BY <1>4 DEF Own
    <2> QED
      BY <1>5, <2>1, LocalLater
  <1>9. q = "child" => ChildLocal(pc["child"], fds["child"], LogFile["child"])'
    <2> SUFFICES ASSUME q = "child"
                 PROVE  ChildLocal(pc["child"], fds["child"], LogFile["child"])'
      OBVIOUS
    <2>1. ChildLocal("redirect", u, at) /\ m = "redirect"
      BY <1>4
    <2>2. Inherited' = Inherited
      BY DEF Inherited
    <2>3. Survivors(u) => Survivors(fds["child"])'
      BY <1>5, <2>2 DEF Survivors
    <2> QED
      BY <1>5, <2>1, <2>3 DEF ChildLocal
  <1>10. /\ \A r \in Own : Local(r, pc[r], fds[r], LogFile[r])'
         /\ ChildLocal(pc["child"], fds["child"], LogFile["child"])'
    <2>1. \A r \in Own \cap {p, q} : Local(r, pc[r], fds[r], LogFile[r])'
      BY <1>7, <1>8
    <2>2. "child" \in {p, q} => ChildLocal(pc["child"], fds["child"], LogFile["child"])'
      BY <1>9 DEF Own
    <2> QED
      BY <1>5, <2>1, <2>2, OthersLater
  <1>11. Shared'
    <2>1. fds' \in [Process -> Table] /\ LogFile' \in [Process -> Fd \cup {NoFd}]
      BY <1>2, <1>3, <1>4, <1>6
    <2>2. /\ session' \in [Process -> Process \cup {"shell"}]
          /\ cwd' \in [Process -> {"start", "/"}]
      BY <1>2, <1>3
    <2>3. LogReachesTarget'
      BY <1>1 DEF Shared, LogReachesTarget, LogTarget
    <2>4. pc'["main"] = "arguments" => log_fd' = 1
      BY <1>1, <1>3, <1>5 DEF Shared, Process
    <2>5. pc'["middle"] = "fork" => session'["middle"] = "middle"
      BY <1>1, <1>2, <1>3, <1>5 DEF Shared, Process
    <2>6. pc'["daemon"] # "none" => session'["daemon"] = "middle"
      BY <1>1, <1>2, <1>3, <1>5 DEF Shared, Process
    <2>7. pc'["daemon"] \notin {"none", "chdir", "died"} => cwd'["daemon"] = "/"
      BY <1>1, <1>2, <1>3, <1>5 DEF Shared, Process
    <2> QED
      BY <1>1, <2>1, <2>2, <2>3, <2>4, <2>5, <2>6, <2>7 DEF Shared
  <1> QED
    BY <1>10, <1>11 DEF IInv

\* The first fork of daemonize ...
LEMMA LaunchStep == IInv /\ Launch => IInv'
  <1> SUFFICES ASSUME IInv, Launch PROVE IInv'
    OBVIOUS
  <1>1. /\ pc["main"] = "daemonize"
        /\ fork("main", "waitpid", fds["main"], "middle", "setsid", fds["main"])
        /\ UNCHANGED <<start, log_fd, null_fd, logged>>
    BY DEF Launch
  <1>2. Course /\ Local("main", "daemonize", fds["main"], LogFile["main"])
    BY <1>1 DEF IInv, Own
  <1>3. Local("main", "waitpid", fds["main"], LogFile["main"])
    BY <1>2, GoesOn
  <1>4. Local("middle", "setsid", fds["main"], LogFile["main"])
    BY <1>2 DEF Local, Room, Filled, Connected, Logging, DupLabel, InitLabel
  <1>5. Course'
    <2>1. pc' = [pc EXCEPT !["main"] = "waitpid", !["middle"] = "setsid"]
          /\ pc = [q \in Process |-> pc[q]] /\ start' = start
      BY <1>1, <1>2 DEF fork, Course
    <2>2. /\ start.daemonize /\ Proxy = "daemon" /\ Proxy' = "daemon"
          /\ pc["middle"] = "none" /\ pc["daemon"] = "none" /\ pc["child"] = "none"
      BY <1>1, <1>2, <2>1 DEF Course, Proxy, ProxyLabel, InitLabel
    <2>3. /\ pc'["main"] = "waitpid" /\ pc'["middle"] = "setsid"
          /\ pc'["daemon"] = "none" /\ pc'["child"] = "none"
          /\ pc' = [q \in Process |-> pc'[q]]
      BY <2>1, <2>2 DEF Process
    <2> QED
      BY <2>1, <2>2, <2>3 DEF Course
  <1> QED
    BY <1>1, <1>3, <1>4, <1>5, ForkStep DEF Own, Process

\* ... and the second.
LEMMA DetachStep == IInv /\ Detach => IInv'
  <1> SUFFICES ASSUME IInv, Detach PROVE IInv'
    OBVIOUS
  <1>1. /\ pc["middle"] = "fork"
        /\ fork("middle", "_exit", fds["middle"], "daemon", "chdir", fds["middle"])
        /\ UNCHANGED <<start, log_fd, null_fd, logged>>
    BY DEF Detach
  <1>2. Course /\ Local("middle", "fork", fds["middle"], LogFile["middle"])
    BY <1>1 DEF IInv, Own
  <1>3. Local("middle", "_exit", fds["middle"], LogFile["middle"])
    BY <1>2, GoesOn
  <1>4. Local("daemon", "chdir", fds["middle"], LogFile["middle"])
    BY <1>2 DEF Local, Room, Filled, Connected, Logging, Redirecting, Nulled,
                DupLabel, InitLabel, ProxyLabel
  <1>5. Course'
    <2>1. pc' = [pc EXCEPT !["middle"] = "_exit", !["daemon"] = "chdir"]
          /\ pc = [q \in Process |-> pc[q]] /\ start' = start
      BY <1>1, <1>2 DEF fork, Course
    <2>2. /\ start.daemonize /\ Proxy = "daemon" /\ Proxy' = "daemon"
          /\ pc["main"] \in {"waitpid", "exited", "died"}
          /\ pc["daemon"] = "none" /\ pc["child"] = "none"
      BY <1>1, <1>2, <2>1 DEF Course, Proxy
    <2>3. /\ pc'["main"] = pc["main"] /\ pc'["middle"] = "_exit"
          /\ pc'["daemon"] = "chdir" /\ pc'["child"] = "none"
          /\ pc' = [q \in Process |-> pc'[q]]
      BY <2>1, <2>2 DEF Process
    <2> QED
      BY <2>1, <2>2, <2>3 DEF Course
  <1> QED
    BY <1>1, <1>3, <1>4, <1>5, ForkStep DEF Own, Process

\* run_command: the pipe's read end stays, and the child gets both.
LEMMA RunCommandStep == IInv /\ run_command => IInv'
  <1> SUFFICES ASSUME IInv, run_command PROVE IInv'
    OBVIOUS
  <1>1. Shared /\ Course /\ Proxy \in Own /\ Proxy \in {"main", "daemon"}
    BY ProxyPlace DEF IInv
  <1>2. PICK p, t, one, both : /\ p = Proxy /\ t = fds[p] /\ one = opened(t, "read", TRUE)
                               /\ both = opened(one, "write", TRUE)
    OBVIOUS
  <1>3. /\ pc[p] = "run_command"
        /\ fork(p, "main_loop", one, "child", "redirect", both)
        /\ UNCHANGED <<start, log_fd, null_fd, logged>>
    BY <1>2, Zenon DEF run_command
  <1>4. PICK at : at = LogFile[p]
    OBVIOUS
  <1>5. Local(p, "run_command", t, at)
    BY <1>1, <1>2, <1>3, <1>4 DEF IInv
  <1>6. FreeFrom(t, 11) /\ TakenTo(t, 3) /\ Connected("run_command", t, at)
    BY <1>5 DEF Local, Room, Filled, InitLabel
  <1>7. Grown(t, at, 11, "read", one)
    <2>1. "read" \in File \ {"closed", "write"} /\ 11 \in 0..12
      BY DEF File
    <2> QED
      BY <1>2, <1>5, <1>6, <2>1, MarkedLocal
  <1>8. Local(p, "main_loop", one, at)
    <2>1. "read" \in File \ {"closed", "write"} /\ 11 \in 0..12
          /\ "run_command" \in InitLabel /\ "main_loop" \in InitLabel \cup {"main_loop"}
          /\ log_fd \in Fd \cup {NoFd}
      BY <1>1 DEF File, InitLabel, Shared
    <2>2. Room("main_loop", one) /\ Filled("main_loop", one)
      BY DEF Room, Filled, DupLabel
    <2> QED
      BY <1>2, <1>5, <1>6, <2>1, <2>2, OpenedLocal
  <1>9. ChildLocal("redirect", both, at)
    <2>1. /\ one \in Table /\ Survivors(one) /\ (\A f \in Fd : one[f].file # "write")
          /\ FreeFrom(one, 12) /\ TakenTo(one, 3)
          /\ (at # NoFd => at \in Fd /\ one[at] # Closed)
      <3>1. 11 + 1 = 12 /\ 3 \in Nat
        OBVIOUS
      <3> QED
        BY <1>6, <1>7, <3>1 DEF Grown
    <2>2. PICK w : w = Lowest(one)
      OBVIOUS
    <2>3. PICK c \in BOOLEAN : c = TRUE
      OBVIOUS
    <2>4. Opens(one, both, w, "write", c)
      <3>1. 12 \in Fd /\ "write" \in File \ {"closed"}
        BY LastFdAssumption DEF Fd, File
      <3>2. Opens(one, opened(one, "write", c), Lowest(one), "write", c)
        BY <2>1, <3>1, OneMore
      <3> QED
        BY <1>2, <2>2, <2>3, <3>2
    <2>5. /\ both \in Table /\ w \in Fd /\ one[w] = Closed
          /\ both[w] = [file |-> "write", cloexec |-> TRUE]
          /\ \A f \in Fd : f # w => both[f] = one[f]
      BY <2>3, <2>4 DEF Opens
    <2>6. w \notin Standard
      BY <2>1, <2>5, LastFdAssumption DEF TakenTo, Standard, Fd
    <2>7. both[w].file = "write" /\ \A f \in Fd : both[f].file = "write" => f = w
      BY <2>1, <2>5
    <2>8. Survivors(both)
      <3> SUFFICES ASSUME NEW f \in Fd, ~both[f].cloexec
                   PROVE  both[f].file \in {"closed", "log"} \cup {Inherited[f].file}
        BY DEF Survivors
      <3>1. f # w
        BY <2>5
      <3> QED
        BY <2>1, <2>5, <3>1 DEF Survivors
    <2>9. at # NoFd => at \in Fd /\ both[at] # Closed
      BY <2>1, <2>5
    <2>10. ~start.syslogd => at = NoFd
      BY <1>6 DEF Connected
    <2> QED
      BY <2>5, <2>6, <2>7, <2>8, <2>9, <2>10 DEF ChildLocal
  <1>10. Course'
    <2>1. pc' = [pc EXCEPT ![p] = "main_loop", !["child"] = "redirect"]
          /\ pc = [q \in Process |-> pc[q]] /\ start' = start /\ Proxy' = Proxy
      BY <1>1, <1>3 DEF fork, Course, Proxy
    <2>2. /\ pc'[p] = "main_loop" /\ pc'["child"] = "redirect"
          /\ \A q \in Process \ {p, "child"} : pc'[q] = pc[q]
          /\ pc' = [q \in Process |-> pc'[q]]
      BY <1>1, <1>2, <2>1 DEF Process, Own
    <2>3. p = "main" => ~start.daemonize
      BY <1>1, <1>2, ProxyPlace
    <2> QED
      BY <1>1, <1>2, <1>3, <2>1, <2>2, <2>3 DEF Course, Process, ProxyLabel, InitLabel
  <1>11. p \in Own /\ "child" \in Process /\ p # "child"
         /\ (p = "daemon" => pc["daemon"] \notin {"none", "chdir", "died"})
    BY <1>1, <1>2, <1>3 DEF Own, Process
  <1> QED
    BY <1>3, <1>4, <1>8, <1>9, <1>10, <1>11, ForkStep

\* The child's table after both dup2 and the exec.
LEMMA ExecuteTable ==
    ASSUME start \in Start, NEW t \in Table, Survivors(t),
           NEW w \in Fd \ Standard, t[w].file = "write",
           \A f \in Fd : t[f].file = "write" => f = w
    PROVE  /\ exec(Redirected(t)) \in Table
           /\ exec(Redirected(t))[1].file = "write"
           /\ exec(Redirected(t))[2].file = "write"
           /\ \A f \in Fd \ {1, 2} : exec(Redirected(t))[f].file \in {"closed", "stdin", "log"}
  <1>1. WriteEnd(t) = w
    BY Zenon DEF WriteEnd
  <1>2. 1 \in Fd /\ 2 \in Fd /\ w # 1 /\ w # 2
    BY LastFdAssumption DEF Fd, Standard
  <1>3. PICK e : e = [file |-> "write", cloexec |-> FALSE]
    OBVIOUS
  <1>4. PICK a : a = dup2(t, w, 1)
    OBVIOUS
  <1>5. PICK b : b = dup2(a, w, 2)
    OBVIOUS
  <1>6. e \in [file : File, cloexec : BOOLEAN]
    BY <1>3 DEF File
  <1>7. a = [t EXCEPT ![1] = e]
    BY <1>2, <1>3, <1>4 DEF dup2
  <1>8. a \in Table /\ a[1] = e /\ \A f \in Fd \ {1} : a[f] = t[f]
    BY <1>2, <1>6, <1>7 DEF Table
  <1>9. b = [a EXCEPT ![2] = e]
    BY <1>2, <1>3, <1>5, <1>8 DEF dup2
  <1>10. b \in Table /\ b[1] = e /\ b[2] = e /\ \A f \in Fd \ {1, 2} : b[f] = t[f]
    BY <1>2, <1>6, <1>8, <1>9 DEF Table
  <1>11. Redirected(t) = b
    BY <1>1, <1>4, <1>5 DEF Redirected
  <1>12. PICK r : r = exec(b)
    OBVIOUS
  <1>13. r = [f \in Fd |-> IF b[f].cloexec THEN Closed ELSE b[f]]
    BY <1>12 DEF exec
  <1>14. Closed \in [file : File, cloexec : BOOLEAN]
    BY DEF Closed, File
  <1>15. r \in Table
    BY <1>10, <1>13, <1>14 DEF Table
  <1>16. r[1].file = "write" /\ r[2].file = "write"
    BY <1>2, <1>3, <1>10, <1>13
  <1>17. ASSUME NEW f \in Fd \ {1, 2}
         PROVE  r[f].file \in {"closed", "stdin", "log"}
    <2>1. r[f] = IF t[f].cloexec THEN Closed ELSE t[f]
      BY <1>10, <1>13
    <2>2. CASE t[f].cloexec
      BY <2>1, <2>2 DEF Closed
    <2>3. CASE ~t[f].cloexec
      <3>1. t[f].file \in {"closed", "log"} \cup {Inherited[f].file}
        BY <2>3 DEF Survivors
      <3>2. Inherited[f].file \in {"closed", "stdin"}
        BY InheritedTable
      <3> QED
        BY <2>1, <2>3, <3>1, <3>2
    <2> QED
      BY <2>2, <2>3
  <1> QED
    BY <1>11, <1>12, <1>15, <1>16, <1>17

\* The child's side of run_command.
LEMMA ExecuteStep == IInv /\ Execute => IInv'
  <1> SUFFICES ASSUME IInv, Execute PROVE IInv'
    OBVIOUS
  <1>1. Shared /\ Course /\ ChildLocal(pc["child"], fds["child"], LogFile["child"])
    BY DEF IInv
  <1>2. PICK t : t = fds["child"]
    OBVIOUS
  <1>3. PICK r : r = exec(Redirected(t))
    OBVIOUS
  <1>4. /\ pc["child"] = "redirect"
        /\ fds' = [fds EXCEPT !["child"] = r]
        /\ LogFile' = [LogFile EXCEPT !["child"] = NoFd]
        /\ pc' = [pc EXCEPT !["child"] = "running"]
        /\ UNCHANGED <<start, session, cwd, log_fd, null_fd, logged>>
    BY <1>2, <1>3 DEF Execute, Goto
  <1>5. /\ r \in Table /\ r[1].file = "write" /\ r[2].file = "write"
        /\ \A f \in Fd \ {1, 2} : r[f].file \in {"closed", "stdin", "log"}
    <2>1. t \in Table /\ Survivors(t)
      BY <1>1, <1>2, <1>4 DEF ChildLocal
    <2>2. PICK w \in Fd \ Standard :
                t[w].file = "write" /\ \A f \in Fd : t[f].file = "write" => f = w
      BY <1>1, <1>2, <1>4 DEF ChildLocal
    <2>3. start \in Start
      BY <1>1 DEF Shared
    <2> QED
      BY <1>3, <2>1, <2>2, <2>3, ExecuteTable
  <1>6. /\ pc = [q \in Process |-> pc[q]] /\ fds \in [Process -> Table]
        /\ LogFile \in [Process -> Fd \cup {NoFd}] /\ "child" \in Process
    BY <1>1 DEF Course, Shared, Process
  <1>7. /\ pc'["child"] = "running" /\ fds'["child"] = r /\ LogFile'["child"] = NoFd
        /\ \A q \in Process \ {"child"} :
                pc'[q] = pc[q] /\ fds'[q] = fds[q] /\ LogFile'[q] = LogFile[q]
        /\ pc' = [q \in Process |-> pc'[q]]
        /\ fds' \in [Process -> Table] /\ LogFile' \in [Process -> Fd \cup {NoFd}]
    BY <1>4, <1>5, <1>6
  <1>8. ChildLocal(pc["child"], fds["child"], LogFile["child"])'
    <2>1. ChildOutputCollected'
      BY <1>5, <1>7 DEF ChildOutputCollected
    <2> QED
      BY <1>5, <1>7, <2>1 DEF ChildLocal
  <1>9. \A q \in Own : Local(q, pc[q], fds[q], LogFile[q])'
    <2>1. \A q \in Own \cap {"child"} : Local(q, pc[q], fds[q], LogFile[q])'
      BY DEF Own
    <2> QED
      BY <1>4, <1>7, <1>8, <2>1, OthersLater
  <1>10. Course'
    <2>1. Proxy' = Proxy /\ Proxy \in {"main", "daemon"}
      BY <1>4 DEF Proxy
    <2>2. pc[Proxy] = "main_loop"
      BY <1>1, <1>4 DEF Course
    <2> QED
      BY <1>1, <1>4, <1>7, <2>1, <2>2 DEF Course, Process
  <1>11. Shared'
    <2>1. LogReachesTarget'
      BY <1>1, <1>4 DEF Shared, LogReachesTarget, LogTarget
    <2> QED
      BY <1>1, <1>4, <1>7, <2>1 DEF Shared, Process
  <1> QED
    BY <1>8, <1>9, <1>10, <1>11 DEF IInv

\* open in daemonize: /dev/null gets a number of its own.
LEMMA OpenNullStep == IInv /\ OpenNull => IInv'
  <1> SUFFICES ASSUME IInv, OpenNull PROVE IInv'
    OBVIOUS
  <1>1. Shared /\ Course /\ "daemon" \in Own /\ pc["daemon"] = "open"
    BY DEF IInv, OpenNull, Own
  <1>2. PICK t, at, u : /\ t = fds["daemon"] /\ at = LogFile["daemon"]
                        /\ u = opened(t, "null", TRUE)
    OBVIOUS
  <1>3. /\ null_fd' = Lowest(t)
        /\ fds' = [fds EXCEPT !["daemon"] = u]
        /\ pc' = [pc EXCEPT !["daemon"] = "dup stdin"]
        /\ UNCHANGED <<start, session, cwd, log_fd, LogFile, logged>>
    BY <1>2, Zenon DEF OpenNull, Goto
  <1>4. Local("daemon", "open", t, at)
    BY <1>1, <1>2 DEF IInv
  <1>5. PICK n \in {4, 5} : n = 4 + Spare /\ FreeFrom(t, n)
    BY <1>4 DEF Local, Room, Spare
  <1>6. Grown(t, at, n, "null", u)
    <2>1. "null" \in File \ {"closed", "write"} /\ n \in 0..12
      BY DEF File
    <2> QED
      BY <1>2, <1>4, <1>5, <2>1, MarkedLocal
  <1>7. /\ u \in Table /\ Survivors(u) /\ (\A f \in Fd : u[f].file # "write")
        /\ null_fd' \in Fd /\ u[null_fd'].file = "null"
    BY <1>3, <1>6 DEF Grown
  <1>8. Room("dup stdin", u) /\ Filled("dup stdin", u) /\ Connected("dup stdin", u, at)
    <2>1. FreeFrom(u, 5 + Spare)
      <3>1. n + 1 = 5 + Spare
        BY <1>5 DEF Spare
      <3> QED
        BY <1>6, <3>1 DEF Grown
    <2> QED
      BY <1>4, <1>6, <2>1 DEF Local, Grown, Room, Filled, Connected, DupLabel, InitLabel
  <1>9. ASSUME start.open = Standard
        PROVE  /\ TakenTo(u, 3) /\ at \notin Standard
               /\ Logging("dup stdin", u)'
               /\ Nulled("dup stdin", u)'
    <2>1. TakenTo(t, 3) /\ at \notin Standard /\ Logging("open", t)
      BY <1>4, <1>9 DEF Local
    <2>2. TakenTo(u, 3) /\ null_fd' >= 3
      BY <1>3, <1>6, <2>1 DEF Grown
    <2>3. null_fd' \notin Standard
      BY <2>2 DEF Standard
    <2>4. Logging("dup stdin", u)
      <3>1. LogTarget # "closed"
        BY DEF LogTarget
      <3> QED
        BY <1>1, <1>6, <2>1, <3>1 DEF Grown, Logging, Shared
    <2>5. Logging("dup stdin", u)'
      BY <1>3, <2>4 DEF Logging, UsesSyslog, LogTarget
    <2>6. Nulled("dup stdin", u)'
      BY <2>3 DEF Nulled, ProxyLabel, InitLabel
    <2> QED
      BY <2>1, <2>2, <2>5, <2>6
  <1>10. /\ pc = [q \in Process |-> pc[q]] /\ fds \in [Process -> Table] /\ "daemon" \in Process
    BY <1>1 DEF Course, Shared, Process
  <1>11. /\ pc'["daemon"] = "dup stdin" /\ fds'["daemon"] = u /\ LogFile'["daemon"] = at
         /\ \A q \in Process \ {"daemon"} :
                pc'[q] = pc[q] /\ fds'[q] = fds[q] /\ LogFile'[q] = LogFile[q]
         /\ fds' \in [Process -> Table]
    BY <1>2, <1>3, <1>7, <1>10
  <1>12. Local("daemon", pc["daemon"], fds["daemon"], LogFile["daemon"])'
    <2>1. Redirecting("dup stdin", u)'
      BY <1>7 DEF Redirecting
    <2>2. "dup stdin" \notin InitLabel /\ start' = start
      BY <1>3 DEF InitLabel
    <2> QED
      BY <1>7, <1>8, <1>9, <1>11, <2>1, <2>2, LocalThen
  <1>13. /\ \A q \in Own : Local(q, pc[q], fds[q], LogFile[q])'
         /\ ChildLocal(pc["child"], fds["child"], LogFile["child"])'
    <2>1. \A q \in Own \cap {"daemon"} : Local(q, pc[q], fds[q], LogFile[q])'
      BY <1>12
    <2> QED
      BY <1>3, <1>11, <2>1, OthersLater
  <1>14. Course'
    <2>1. MayMove("daemon", "dup stdin")
      BY <1>1 DEF MayMove, DupLabel
    <2> QED
      BY <1>1, <1>3, <2>1, CourseMove
  <1>15. Shared'
    <2>1. LogReachesTarget'
      BY <1>1, <1>3 DEF Shared, LogReachesTarget, LogTarget
    <2> QED
      BY <1>1, <1>3, <1>7, <1>11, <2>1 DEF Shared, Process
  <1> QED
    BY <1>13, <1>14, <1>15 DEF IInv

\* dup3 in daemonize: one standard descriptor after the other.
LEMMA RedirectStep == \A f \in Standard : IInv /\ Redirect(f) => IInv'
  <1> SUFFICES ASSUME NEW f \in Standard, IInv, Redirect(f) PROVE IInv'
    OBVIOUS
  <1>1. Shared /\ Course /\ "daemon" \in Own
    BY DEF IInv, Own
  <1>2. PICK l, m : /\ l = DupPlace[f] /\ m = AfterDup[f]
                    /\ \/ f = 0 /\ l = "dup stdin" /\ m = "dup stdout"
                       \/ f = 1 /\ l = "dup stdout" /\ m = "dup stderr"
                       \/ f = 2 /\ l = "dup stderr" /\ m = "greeting"
    BY DupPlaces
  <1>3. PICK t, at, u : /\ t = fds["daemon"] /\ at = LogFile["daemon"]
                        /\ u = dup3(t, null_fd, f)
    OBVIOUS
  <1>4. /\ pc["daemon"] = l /\ null_fd # f
        /\ fds' = [fds EXCEPT !["daemon"] = u]
        /\ pc' = [pc EXCEPT !["daemon"] = m]
        /\ UNCHANGED <<start, session, cwd, log_fd, LogFile, null_fd, logged>>
    BY <1>2, <1>3, Zenon DEF Redirect, Goto
  <1>5. Local("daemon", l, t, at)
    BY <1>1, <1>3, <1>4 DEF IInv
  <1>6. l \in DupLabel /\ m \in DupLabel \cup {"greeting"} /\ m \notin InitLabel
    BY <1>2 DEF DupLabel, InitLabel
  <1>7. /\ t \in Table /\ Survivors(t) /\ (\A g \in Fd : t[g].file # "write")
        /\ Room(l, t) /\ Connected(l, t, at) /\ Redirecting(l, t)
    BY <1>5 DEF Local
  <1>8. null_fd \in Fd /\ t[null_fd].file = "null" /\ f \in Fd
    BY <1>6, <1>7, LastFdAssumption DEF Redirecting, Standard, Fd
  <1>9. PICK e : e = [file |-> "null", cloexec |-> TRUE]
    OBVIOUS
  <1>10. e \in [file : File, cloexec : BOOLEAN] /\ e # Closed
    BY <1>9 DEF File, Closed
  <1>11. u = [t EXCEPT ![f] = e]
    BY <1>3, <1>8, <1>9 DEF dup3
  <1>12. u \in Table /\ u[f] = e /\ \A g \in Fd : g # f => u[g] = t[g]
    BY <1>7, <1>8, <1>10, <1>11 DEF Table
  <1>13. Survivors(u) /\ \A g \in Fd : u[g].file # "write"
    <2>1. \A g \in Fd : u[g].file # "write"
      BY <1>7, <1>9, <1>12
    <2>2. ASSUME NEW g \in Fd, ~u[g].cloexec
          PROVE  u[g].file \in {"closed", "log"} \cup {Inherited[g].file}
      <3>1. g # f
        BY <1>9, <1>12, <2>2
      <3> QED
        BY <1>7, <1>12, <2>2, <3>1 DEF Survivors
    <2> QED
      BY <2>1, <2>2 DEF Survivors
  <1>14. Room(m, u)
    <2>1. FreeFrom(t, 5 + Spare)
      BY <1>6, <1>7 DEF Room
    <2>2. PICK n \in {5, 6} : n = 5 + Spare
      BY DEF Spare
    <2>3. f < n
      BY <2>2 DEF Standard
    <2>4. FreeFrom(u, n)
      <3>1. \A g \in Fd : g >= n => g # f
        BY <2>2, <2>3, LastFdAssumption DEF Fd, Standard
      <3> QED
        BY <1>12, <2>1, <2>2, <3>1 DEF FreeFrom
    <2>5. FreeFrom(u, 5 + Spare)
      BY <2>2, <2>4
    <2> QED
      BY <1>6, <2>5 DEF Room, DupLabel
  <1>15. Filled(m, u) /\ Connected(m, u, at)
    BY <1>6, <1>7, <1>10, <1>12 DEF Filled, Connected, DupLabel, InitLabel
  <1>16. Redirecting(m, u)
    BY <1>8, <1>12, <1>4 DEF Redirecting
  <1>17. ASSUME start.open = Standard
         PROVE  /\ TakenTo(u, 3) /\ at \notin Standard
                /\ Logging(m, u)
                /\ Nulled(m, u)
    <2>1. TakenTo(t, 3) /\ at \notin Standard /\ Logging(l, t) /\ Nulled(l, t)
      BY <1>5, <1>17 DEF Local
    <2>2. TakenTo(u, 3)
      BY <1>10, <1>12, <2>1 DEF TakenTo
    <2>3. Logging(m, u)
      <3>1. start.daemonize
        BY <1>1, <1>4, <1>6 DEF Course, DupLabel
      <3>2. SUFFICES ASSUME ~UsesSyslog, log_fd # NoFd
                     PROVE  u[log_fd].file = LogTarget /\ (start.log # "stdout" => log_fd \notin Standard)
        BY DEF Logging
      <3>3. start.log # "stdout"
        BY <3>1, <3>2 DEF UsesSyslog
      <3>4. log_fd \notin Standard /\ t[log_fd].file = LogTarget
        BY <1>6, <2>1, <3>2, <3>3 DEF Logging, DupLabel
      <3>5. log_fd \in Fd /\ log_fd # f
        BY <1>1, <3>2, <3>4 DEF Shared
      <3> QED
        BY <1>12, <3>4, <3>5
    <2>4. Nulled(m, u)
      <3>1. u[f].file = "null" /\ null_fd \notin Standard
        <4>1. u[f].file = "null"
          BY <1>9, <1>12
        <4>2. null_fd \notin Standard
          BY <1>6, <2>1 DEF Nulled
        <4> QED
          BY <4>1, <4>2
      <3>2. 0 \in Fd /\ 1 \in Fd
        BY LastFdAssumption DEF Fd
      <3>3. /\ f = 1 => u[0].file = "null"
            /\ f = 2 => u[0].file = "null" /\ u[1].file = "null"
        <4>1. /\ f = 1 => t[0].file = "null"
              /\ f = 2 => t[0].file = "null" /\ t[1].file = "null"
          <5>1. /\ f = 1 => l = "dup stdout"
                /\ f = 2 => l = "dup stderr"
            <6>1. 0 # 1 /\ 0 # 2 /\ 1 # 2
              OBVIOUS
            <6> QED
              BY <1>2, <6>1, Zenon
          <5>2. /\ l \in {"dup stdout", "dup stderr"} => t[0].file = "null"
                /\ l = "dup stderr" => t[1].file = "null"
            BY <2>1 DEF Nulled
          <5> QED
            BY <5>1, <5>2
        <4>2. /\ f = 1 => u[0] = t[0]
              /\ f = 2 => u[0] = t[0] /\ u[1] = t[1]
          BY <1>12, <3>2
        <4> QED
          BY <4>1, <4>2
      <3> QED
        BY <1>2, <3>1, <3>3 DEF Nulled, DupLabel, ProxyLabel, InitLabel
    <2> QED
      BY <2>1, <2>2, <2>3, <2>4
  <1>18. Local("daemon", m, u, at)
    BY <1>6, <1>12, <1>13, <1>14, <1>15, <1>16, <1>17 DEF Local
  <1>19. MayMove("daemon", m)
    BY <1>2, <1>4, <1>6 DEF MayMove, DupLabel, ProxyLabel
  <1>20. LogFile' = [LogFile EXCEPT !["daemon"] = at]
    BY <1>1, <1>3, <1>4 DEF Shared, Process
  <1>21. m \notin {"arguments", "fork"} /\ pc["daemon"] # "chdir"
    BY <1>2, <1>4
  <1> QED
    BY <1>1, <1>4, <1>18, <1>19, <1>20, <1>21, TableStep

------------------------------------------------------------------------------
\* The invariant holds initially ...
LEMMA InitIInv == Init => IInv
  <1> SUFFICES ASSUME Init PROVE IInv
    OBVIOUS
  <1>1. /\ start \in Start /\ log_fd = 1 /\ null_fd = NoFd /\ logged = {}
        /\ pc = [p \in Process |-> IF p = "main" THEN "arguments" ELSE "none"]
        /\ fds = [p \in Process |-> Inherited]
        /\ session = [p \in Process |-> "shell"]
        /\ cwd = [p \in Process |-> "start"]
        /\ LogFile = [p \in Process |-> NoFd]
    BY Zenon DEF Init
  <1>2. /\ Inherited \in Table /\ FreeFrom(Inherited, 3)
        /\ \A f \in Fd : Inherited[f].file \in {"closed", "stdin", "stdout", "stderr"}
        /\ start.open = Standard => TakenTo(Inherited, 3)
    BY <1>1, InheritedTable
  <1>3. Survivors(Inherited)
    BY DEF Survivors
  <1>4. \A p \in Process :
            /\ pc[p] = IF p = "main" THEN "arguments" ELSE "none"
            /\ fds[p] = Inherited /\ LogFile[p] = NoFd
            /\ session[p] = "shell" /\ cwd[p] = "start"
    BY <1>1
  <1>5. Shared
    <2>1. LogReachesTarget
      BY <1>1 DEF LogReachesTarget
    <2>2. log_fd \in Fd
      BY <1>1, LastFdAssumption DEF Fd
    <2>3. fds \in [Process -> Table] /\ LogFile \in [Process -> Fd \cup {NoFd}]
      BY <1>1, <1>2
    <2>4. /\ session \in [Process -> Process \cup {"shell"}]
          /\ cwd \in [Process -> {"start", "/"}]
      BY <1>1
    <2> QED
      BY <1>1, <1>4, <2>1, <2>2, <2>3, <2>4 DEF Shared, Process
  <1>6. Course
    <2>1. pc = [p \in Process |-> pc[p]]
      BY <1>1
    <2> QED
      BY <1>4, <2>1 DEF Course, Process
  <1>7. ASSUME NEW p \in Own PROVE Local(p, pc[p], fds[p], LogFile[p])
    <2>1. PICK l, t, at : l = pc[p] /\ t = fds[p] /\ at = LogFile[p]
      OBVIOUS
    <2>2. l \in {"arguments", "none"} /\ t = Inherited /\ at = NoFd
      BY <1>4, <2>1 DEF Own, Process
    <2>3. Room(l, t) /\ Filled(l, t) /\ Connected(l, t, at)
      BY <2>2 DEF Room, Filled, Connected, DupLabel, InitLabel
    <2>4. Redirecting(l, t) /\ Logging(l, t) /\ Nulled(l, t)
      BY <2>2 DEF Redirecting, Logging, Nulled, DupLabel, ProxyLabel, InitLabel
    <2>5. \A f \in Fd : t[f].file # "write"
      BY <1>2, <2>2
    <2>6. at \notin Standard
      BY <2>2 DEF NoFd, Standard
    <2>7. Local(p, l, t, at)
      BY <1>2, <1>3, <2>2, <2>3, <2>4, <2>5, <2>6 DEF Local, InitLabel
    <2> QED
      BY <2>1, <2>7
  <1>8. ChildLocal(pc["child"], fds["child"], LogFile["child"])
    <2>1. pc["child"] = "none" /\ fds["child"] = Inherited /\ LogFile["child"] = NoFd
      BY <1>4 DEF Process
    <2> QED
      BY <1>2, <2>1 DEF ChildLocal
  <1> QED
    BY <1>5, <1>6, <1>7, <1>8 DEF IInv

\* ... every step keeps it ...
LEMMA NextIInv == IInv /\ [Next]_vars => IInv'
  <1> SUFFICES ASSUME IInv, [Next]_vars PROVE IInv'
    OBVIOUS
  <1>1. CASE MainStep
    BY <1>1, UsageStep, ArgumentsStep, OpenlogStep, LaunchStep, PlainSteps DEF MainStep
  <1>2. CASE MiddleStep
    BY <1>2, DetachStep, PlainSteps DEF MiddleStep
  <1>3. CASE DaemonStep
    BY <1>3, OpenNullStep, RedirectStep, FailSteps, PlainSteps DEF DaemonStep
  <1>4. CASE ProxyStep
    BY <1>4, GreetingStep, WorkerInitStep, ConfigStep, RunCommandStep DEF ProxyStep
  <1>5. CASE Execute
    BY <1>5, ExecuteStep
  <1>6. CASE CannotExecute \/ \E p \in Process : Fail(p) \/ Crash(p)
    BY <1>6, CannotExecuteStep, FailSteps, CrashStep
  <1>7. CASE UNCHANGED vars
    <2>1. UNCHANGED <<start, pc, fds, session, cwd, log_fd, LogFile, null_fd, logged>>
      BY <1>7, Zenon DEF vars
    <2>2. Shared /\ Course
      BY DEF IInv
    <2>3. Shared'
      BY <2>1, <2>2 DEF Shared, LogReachesTarget, LogTarget
    <2>4. Course'
      BY <2>1, <2>2 DEF Course, Proxy
    <2>5. \A q \in Process \ {} :
            pc'[q] = pc[q] /\ fds'[q] = fds[q] /\ LogFile'[q] = LogFile[q]
      BY <2>1
    <2>6. /\ \A q \in Own : Local(q, pc[q], fds[q], LogFile[q])'
          /\ ChildLocal(pc["child"], fds["child"], LogFile["child"])'
      <3>1. /\ \A q \in Own \cap {} : Local(q, pc[q], fds[q], LogFile[q])'
            /\ "child" \notin {}
        OBVIOUS
      <3> QED
        BY <2>1, <2>5, <3>1, OthersLater
    <2> QED
      BY <2>3, <2>4, <2>6 DEF IInv
  <1> QED
    BY <1>1, <1>2, <1>3, <1>4, <1>5, <1>6, <1>7 DEF Next

\* ... and so it always holds.
THEOREM Invariance == Spec => []IInv
  BY InitIInv, NextIInv, PTL DEF Spec

------------------------------------------------------------------------------
\* Every process's table is one of descriptors the model knows, and syslog's
\* descriptor is always an open one (TypeOK).
THEOREM TypeCorrect == Spec => []TypeOK
  <1>1. IInv => TypeOK
    <2> SUFFICES ASSUME IInv PROVE TypeOK
      OBVIOUS
    <2>1. Shared /\ ChildLocal(pc["child"], fds["child"], LogFile["child"])
      BY DEF IInv
    <2>2. ASSUME NEW p \in Process, NEW f \in Fd
          PROVE  fds[p][f].file \in File /\ fds[p][f].cloexec \in BOOLEAN
      <3>1. fds[p][f] \in [file : File, cloexec : BOOLEAN]
        BY <2>1 DEF Shared, Table
      <3> QED
        BY <3>1
    <2>3. ASSUME NEW p \in Process PROVE LogFile[p] \in Open(p) \cup {NoFd}
      <3>1. CASE p = "child"
        BY <2>1, <3>1 DEF ChildLocal, Open
      <3>2. CASE p # "child"
        <4>1. Local(p, pc[p], fds[p], LogFile[p])
          BY <3>2 DEF IInv, Own, Process
        <4> QED
          BY <4>1 DEF Local, Connected, Open
      <3> QED
        BY <3>1, <3>2
    <2> QED
      BY <2>1, <2>2, <2>3 DEF Shared, TypeOK
  <1> QED
    BY <1>1, Invariance, PTL

\* A daemon that gets as far as worker_init is in a session of its own which it
\* does not lead, in the root directory, and has its standard descriptors on
\* /dev/null if they were open at the start (daemonize, DaemonDetached).
THEOREM Detached == Spec => []DaemonDetached
  <1>1. IInv => DaemonDetached
    <2> SUFFICES ASSUME IInv, Started("daemon")
                 PROVE  /\ session["daemon"] \notin {"shell", "daemon"}
                        /\ cwd["daemon"] = "/"
                        /\ start.open = Standard =>
                                \A f \in Standard : fds["daemon"][f].file = "null"
      BY DEF DaemonDetached
    <2>1. Shared /\ Local("daemon", pc["daemon"], fds["daemon"], LogFile["daemon"])
      BY DEF IInv, Own
    <2>2. pc["daemon"] \in ProxyLabel
      <3>1. \A i \in 1..5 : InitOrder[i] \in InitLabel
        <4>1. \A i \in 1..5 : i = 1 \/ i = 2 \/ i = 3 \/ i = 4 \/ i = 5
          OBVIOUS
        <4> QED
          BY <4>1 DEF InitOrder, InitLabel
      <3> QED
        BY <3>1 DEF Started, ProxyLabel, InitLabel
    <2>3. session["daemon"] = "middle" /\ cwd["daemon"] = "/"
      BY <2>1, <2>2 DEF Shared, ProxyLabel, InitLabel
    <2>4. ASSUME start.open = Standard, NEW f \in Standard
          PROVE  fds["daemon"][f].file = "null"
      <3>1. Nulled(pc["daemon"], fds["daemon"])
        BY <2>1, <2>4 DEF Local
      <3>2. f = 0 \/ f = 1 \/ f = 2
        BY DEF Standard
      <3> QED
        BY <2>2, <3>1, <3>2 DEF Nulled
    <2> QED
      BY <2>3, <2>4
  <1> QED
    BY <1>1, Invariance, PTL

\* The discovery's output and its errors go to the pipe, whatever numbers its
\* descriptors got, and it inherits nothing of the event loop: no descriptor of
\* it, no end of a pipe and no socket (run_command, ChildOutputCollected).
THEOREM Collected == Spec => []ChildOutputCollected
  <1>1. IInv => ChildOutputCollected
    BY DEF IInv, ChildLocal, ChildOutputCollected
  <1> QED
    BY <1>1, Invariance, PTL

\* Messages go where the options say (the macro log, LogReachesTarget).
THEOREM LogsReach == Spec => []LogReachesTarget
  <1>1. IInv => LogReachesTarget
    BY DEF IInv, Shared
  <1> QED
    BY <1>1, Invariance, PTL

=============================================================================
