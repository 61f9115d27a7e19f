------------------------------ MODULE Startup ------------------------------
(***************************************************************************)
(* From main to the first discovery child (main.c, daemonize.c, and        *)
(* worker_init and run_command of worker.c), by what happens to file       *)
(* descriptors: every call that makes one takes the lowest number free,    *)
(* whatever that number is used for elsewhere.  The program may have been  *)
(* started with any of the standard descriptors closed.                    *)
(*                                                                         *)
(* Four processes take part: the one that is started, which becomes the    *)
(* launcher of a daemon; the middle one, which starts the daemon's         *)
(* session; the daemon; and the shell that runs the discovery.             *)
(***************************************************************************)
EXTENDS Integers

CONSTANT LastFd         \* bound: the highest descriptor

ASSUME LastFdAssumption == LastFd \in Nat /\ LastFd >= 12

Fd == 0..LastFd
NoFd == -1
Standard == 0..2        \* STDIN_FILENO, STDOUT_FILENO, STDERR_FILENO

Process == {"main", "middle", "daemon", "child"}

\* What a descriptor refers to.
File == {"closed", "stdin", "stdout", "stderr", "log", "syslog", "null", "epoll",
         "signal", "inotify", "timer", "read", "write"}

VARIABLES
    start,          \* how the program was started
    pc,             \* of each process
    fds,            \* descriptors of each process
    session,        \* of each process, named after its leader
    cwd,
    log_fd,         \* of g_log_output_file; NoFd if fopen failed
    LogFile,        \* syslog's descriptor in each process
    null_fd,        \* fd in daemonize
    logged          \* history: <<process, file>> a message went to

vars == <<start, pc, fds, session, cwd, log_fd, LogFile, null_fd, logged>>

Start == [daemonize : BOOLEAN, log : {"stdout", "file", "unopenable"},
          open : SUBSET Standard, syslogd : BOOLEAN]

Closed == [file |-> "closed", cloexec |-> FALSE]

Inherited == [f \in Fd |->
    IF f \in start.open
    THEN [file |-> <<"stdin", "stdout", "stderr">>[f + 1], cloexec |-> FALSE]
    ELSE Closed]

Init ==
    /\ start \in Start
    /\ pc = [p \in Process |-> IF p = "main" THEN "arguments" ELSE "none"]
    /\ fds = [p \in Process |-> Inherited]
    /\ session = [p \in Process |-> "shell"]
    /\ cwd = [p \in Process |-> "start"]
    /\ log_fd = 1
    /\ LogFile = [p \in Process |-> NoFd]
    /\ null_fd = NoFd
    /\ logged = {}

\* The process that becomes the proxy.
Proxy == IF start.daemonize THEN "daemon" ELSE "main"

------------------------------------------------------------------------------
\* The kernel's part, on a table t of descriptors.
Lowest(t) == CHOOSE f \in Fd : t[f] = Closed /\ \A g \in Fd : t[g] = Closed => f <= g

opened(t, file, cloexec) ==
    [t EXCEPT ![Lowest(t)] = [file |-> file, cloexec |-> cloexec]]

\* Onto itself, dup2 leaves everything as it is; dup3 fails (see Redirect).
dup2(t, old, new) ==
    IF old = new THEN t ELSE [t EXCEPT ![new] = [file |-> t[old].file, cloexec |-> FALSE]]
dup3(t, old, new) == [t EXCEPT ![new] = [file |-> t[old].file, cloexec |-> TRUE]]

exec(t) == [f \in Fd |-> IF t[f].cloexec THEN Closed ELSE t[f]]

Goto(p, l) == pc' = [pc EXCEPT ![p] = l]

\* p goes on at l with the table kept, a copy of it starts as q at m with t.
fork(p, l, kept, q, m, t) ==
    /\ pc' = [pc EXCEPT ![p] = l, ![q] = m]
    /\ session' = [session EXCEPT ![q] = session[p]]
    /\ cwd' = [cwd EXCEPT ![q] = cwd[p]]
    /\ LogFile' = [LogFile EXCEPT ![q] = LogFile[p]]
    /\ fds' = [fds EXCEPT ![p] = kept, ![q] = t]

\* syslog(3): a socket that is gone, or whose number now means something else,
\* is closed, and another one made.
syslog(p) ==
    LET t == fds[p]
        at == LogFile[p]
        cleared == IF at = NoFd THEN t ELSE [t EXCEPT ![at] = Closed]
    IN  IF at # NoFd /\ t[at].file = "syslog"
        THEN /\ logged' = logged \cup {<<p, "syslog">>}
             /\ UNCHANGED <<fds, LogFile>>
        ELSE IF start.syslogd
        THEN /\ fds' = [fds EXCEPT ![p] = opened(cleared, "syslog", TRUE)]
             /\ LogFile' = [LogFile EXCEPT ![p] = Lowest(cleared)]
             /\ logged' = logged \cup {<<p, "syslog">>}
        ELSE /\ fds' = [fds EXCEPT ![p] = cleared]
             /\ LogFile' = [LogFile EXCEPT ![p] = NoFd]
             /\ UNCHANGED logged

DaemonUsesSyslog == start.daemonize     \* mutant: the other half forgotten
UsesSyslog == start.daemonize /\ start.log = "stdout"

\* The macro log.  A null g_log_output_file is a crash, see Crash.
log(p) ==
    IF UsesSyslog THEN syslog(p)
    ELSE /\ logged' = logged \cup {<<p, fds[p][log_fd].file>>}
         /\ UNCHANGED <<fds, LogFile>>

CanLog == log_fd # NoFd

\* die: a last message.
die(p) ==
    /\ CanLog /\ log(p)
    /\ Goto(p, "died")
    /\ UNCHANGED <<start, session, cwd, log_fd, null_fd>>

------------------------------------------------------------------------------
\* parse_arguments: the usage, or the log file.
Usage ==
    /\ pc["main"] = "arguments"
    /\ Goto("main", "exited")
    /\ UNCHANGED <<start, fds, session, cwd, log_fd, LogFile, null_fd, logged>>

parse_arguments ==
    /\ pc["main"] = "arguments"
    /\ CASE start.log = "stdout" -> UNCHANGED <<fds, log_fd>>
         [] start.log = "file" ->
                /\ log_fd' = Lowest(fds["main"])
                /\ fds' = [fds EXCEPT !["main"] = opened(@, "log", FALSE)]
         [] start.log = "unopenable" -> log_fd' = NoFd /\ UNCHANGED fds
    /\ Goto("main", IF start.daemonize THEN "openlog" ELSE "greeting")
    /\ UNCHANGED <<start, session, cwd, LogFile, null_fd, logged>>

\* With LOG_NDELAY it connects at once, if there is something to connect to.
openlog ==
    /\ pc["main"] = "openlog"
    /\ IF start.syslogd
       THEN /\ LogFile' = [LogFile EXCEPT !["main"] = Lowest(fds["main"])]
            /\ fds' = [fds EXCEPT !["main"] = opened(@, "syslog", TRUE)]
       ELSE UNCHANGED <<fds, LogFile>>
    /\ Goto("main", "daemonize")
    /\ UNCHANGED <<start, session, cwd, log_fd, null_fd, logged>>

\* daemonize: the first fork.  The launcher waits for the middle process, and
\* ends with success whatever became of it, unless the wait itself fails.
Launch ==
    /\ pc["main"] = "daemonize"
    /\ fork("main", "waitpid", fds["main"], "middle", "setsid", fds["main"])
    /\ UNCHANGED <<start, log_fd, null_fd, logged>>

DaemonOver == pc["daemon"] \in {"exited", "died"}  \* mutant: the daemon itself is awaited
MiddleOver == pc["middle"] \in {"exited", "died"}

LauncherExits ==
    /\ pc["main"] = "waitpid" /\ MiddleOver
    /\ Goto("main", "exited")
    /\ UNCHANGED <<start, fds, session, cwd, log_fd, LogFile, null_fd, logged>>

NoSetsid ==                 \* mutant: no setsid
    /\ pc["middle"] = "setsid"
    /\ Goto("middle", "fork")
    /\ UNCHANGED <<start, fds, session, cwd, log_fd, LogFile, null_fd, logged>>
Setsid ==
    /\ pc["middle"] = "setsid"
    /\ session' = [session EXCEPT !["middle"] = "middle"]
    /\ Goto("middle", "fork")
    /\ UNCHANGED <<start, fds, cwd, log_fd, LogFile, null_fd, logged>>

\* The second fork, so that the daemon leads no session.
Detach ==
    /\ pc["middle"] = "fork"
    /\ fork("middle", "_exit", fds["middle"], "daemon", "chdir", fds["middle"])
    /\ UNCHANGED <<start, log_fd, null_fd, logged>>

MiddleExits ==
    /\ pc["middle"] = "_exit"
    /\ Goto("middle", "exited")
    /\ UNCHANGED <<start, fds, session, cwd, log_fd, LogFile, null_fd, logged>>

ChangeRoot ==
    /\ pc["daemon"] = "chdir"
    /\ cwd' = [cwd EXCEPT !["daemon"] = "/"]
    /\ Goto("daemon", "open")
    /\ UNCHANGED <<start, fds, session, log_fd, LogFile, null_fd, logged>>

OpenNull ==
    /\ pc["daemon"] = "open"
    /\ null_fd' = Lowest(fds["daemon"])
    /\ fds' = [fds EXCEPT !["daemon"] = opened(@, "null", TRUE)]
    /\ Goto("daemon", "dup stdin")
    /\ UNCHANGED <<start, session, cwd, log_fd, LogFile, logged>>

\* The three dup3 calls, each in its place.
DupPlace == [f \in Standard |-> <<"dup stdin", "dup stdout", "dup stderr">>[f + 1]]
AfterDup == [f \in Standard |-> <<"dup stdout", "dup stderr", "greeting">>[f + 1]]

CloseStandard(f) ==         \* mutant: the old descriptor closed, no new one
    /\ pc["daemon"] = DupPlace[f]
    /\ fds' = [fds EXCEPT !["daemon"] = [@ EXCEPT ![f] = Closed]]
    /\ Goto("daemon", AfterDup[f])
    /\ UNCHANGED <<start, session, cwd, log_fd, LogFile, null_fd, logged>>
Redirect(f) ==
    /\ pc["daemon"] = DupPlace[f]
    /\ null_fd # f
    /\ fds' = [fds EXCEPT !["daemon"] = dup3(@, null_fd, f)]
    /\ Goto("daemon", AfterDup[f])
    /\ UNCHANGED <<start, session, cwd, log_fd, LogFile, null_fd, logged>>

CannotRedirect(f) == pc["daemon"] = DupPlace[f] /\ null_fd = f /\ die("daemon")

------------------------------------------------------------------------------
\* print_greeting, the first message.
print_greeting ==
    /\ pc[Proxy] = "greeting"
    /\ CanLog /\ log(Proxy)
    /\ Goto(Proxy, "epoll")
    /\ UNCHANGED <<start, session, cwd, log_fd, null_fd>>

\* worker_init makes four descriptors in this order; the first lookup of the
\* config file is between the last two.
InitOrder == <<"epoll", "signal", "inotify", "timer", "config_read">>
worker_init ==
    \E i \in 1..4 :
        /\ pc[Proxy] = InitOrder[i]
        /\ fds' = [fds EXCEPT ![Proxy] = opened(@, InitOrder[i], TRUE)]
        /\ Goto(Proxy, InitOrder[i + 1])
        /\ UNCHANGED <<start, session, cwd, log_fd, LogFile, null_fd, logged>>

config_read ==
    /\ pc[Proxy] = "config_read"
    /\ log(Proxy)
    /\ Goto(Proxy, "run_command")
    /\ UNCHANGED <<start, session, cwd, log_fd, null_fd>>

\* run_command by its parent, which keeps the end of the pipe it reads.
run_command ==
    /\ pc[Proxy] = "run_command"
    /\ LET one == opened(fds[Proxy], "read", TRUE)
           both == opened(one, "write", TRUE)
       IN  fork(Proxy, "main_loop", one, "child", "redirect", both)
    /\ UNCHANGED <<start, log_fd, null_fd, logged>>

\* pipe_fds[1]
WriteEnd(t) == CHOOSE f \in Fd : t[f].file = "write"

OutputOnly(t) == dup2(t, WriteEnd(t), 1)    \* mutant: stderr is left
Redirected(t) == dup2(dup2(t, WriteEnd(t), 1), WriteEnd(t), 2)

\* ... and by its child.
Execute ==
    /\ pc["child"] = "redirect"
    /\ fds' = [fds EXCEPT !["child"] = exec(Redirected(@))]
    /\ LogFile' = [LogFile EXCEPT !["child"] = NoFd]
    /\ Goto("child", "running")
    /\ UNCHANGED <<start, session, cwd, log_fd, null_fd, logged>>

\* dup2 or execl fails, and the child ends with a message: to stdout as it is
\* by then, which may be the pipe.
CannotExecute ==
    /\ pc["child"] = "redirect"
    /\ \E t \in {fds["child"], OutputOnly(fds["child"]), Redirected(fds["child"])} :
            logged' = logged \cup {<<"child", m>> :
                m \in IF UsesSyslog THEN {f \in {"syslog"} : start.syslogd}
                     ELSE {t[log_fd].file}}
    /\ Goto("child", "died")
    /\ UNCHANGED <<start, fds, session, cwd, log_fd, LogFile, null_fd>>

------------------------------------------------------------------------------
\* A call that makes a process or a descriptor, waits, or leaves the session or
\* the directory fails, or there is no config file.
Fallible == {"daemonize", "waitpid", "setsid", "fork", "chdir", "open",
             "run_command", "config_read"} \cup {InitOrder[i] : i \in 1..4}
Fail(p) == pc[p] \in Fallible /\ die(p)

\* The log file could not be opened, and is used.
Crash(p) ==
    /\ ~CanLog
    /\ \/ pc[p] \in Fallible \cup {"greeting"}
       \/ \E f \in Standard : pc[p] = DupPlace[f] /\ null_fd = f
    /\ Goto(p, "died")
    /\ UNCHANGED <<start, fds, session, cwd, log_fd, LogFile, null_fd, logged>>

MainStep == Usage \/ parse_arguments \/ openlog \/ Launch \/ LauncherExits
MiddleStep == Setsid \/ Detach \/ MiddleExits
DaemonStep ==
    \/ ChangeRoot \/ OpenNull
    \/ \E f \in Standard : Redirect(f) \/ CannotRedirect(f)
ProxyStep == print_greeting \/ worker_init \/ config_read \/ run_command

Next ==
    \/ MainStep \/ MiddleStep \/ DaemonStep \/ ProxyStep \/ Execute \/ CannotExecute
    \/ \E p \in Process : Fail(p) \/ Crash(p)

\* Every process is scheduled.
Spec ==
    /\ Init /\ [][Next]_vars
    /\ WF_vars(MainStep) /\ WF_vars(MiddleStep) /\ WF_vars(DaemonStep)
    /\ WF_vars(ProxyStep) /\ WF_vars(Execute)

------------------------------------------------------------------------------
Open(p) == {f \in Fd : fds[p][f] # Closed}

TypeOK ==
    /\ start \in Start
    /\ \A p \in Process, f \in Fd :
        fds[p][f].file \in File /\ fds[p][f].cloexec \in BOOLEAN
    /\ session \in [Process -> Process \cup {"shell"}]
    /\ cwd \in [Process -> {"start", "/"}]
    /\ log_fd \in Fd \cup {NoFd}
    /\ \A p \in Process : LogFile[p] \in Open(p) \cup {NoFd}
    /\ null_fd \in Fd \cup {NoFd}

Started(p) == pc[p] \in {"main_loop"} \cup {InitOrder[i] : i \in 1..5} \cup {"run_command"}

\* A daemon that gets as far as worker_init holds on to nothing of whoever
\* started it: it is in a session of its own which it does not lead, in the
\* root directory, with its standard descriptors on /dev/null (daemonize.c) --
\* if they were open at the start; otherwise syslog may sit there.
DaemonDetached ==
    Started("daemon") =>
        /\ session["daemon"] \notin {"shell", "daemon"}
        /\ cwd["daemon"] = "/"
        /\ start.open = Standard =>
                \A f \in Standard : fds["daemon"][f].file = "null"

\* However the program was started and whatever numbers its descriptors got,
\* the discovery's output and errors go to the pipe, and it inherits no event
\* descriptor, no end of a pipe and no socket besides; only the log file is
\* not marked close-on-exec (run_command in worker.c).
ChildOutputCollected ==
    pc["child"] = "running" =>
        /\ fds["child"][1].file = "write" /\ fds["child"][2].file = "write"
        /\ \A f \in Fd \ {1, 2} : fds["child"][f].file \in {"closed", "stdin", "log"}

\* Messages go where the options say (log.h): a daemon's without a log file to
\* syslog, whatever was open at the start; the others to the file or to stdout,
\* if the standard descriptors were open, or else daemonize puts /dev/null over
\* a log file that got one of their numbers.
LogTarget ==
    IF start.log = "file" THEN "log" ELSE IF start.daemonize THEN "syslog" ELSE "stdout"
LogReachesTarget ==
    start.open = Standard \/ (start.daemonize /\ start.log = "stdout") =>
        \A m \in logged : m[1] # "child" => m[2] = LogTarget

\* The command that starts a daemon returns (waitpid in daemonize.c).
LauncherReturns == <>(pc["main"] \in {"exited", "died"} \/ ~start.daemonize)

=============================================================================
