---------------------------- MODULE ServeControl ----------------------------
(***************************************************************************)
(* The development server (apps/web/src/dev/serve-with-control.ts, and its *)
(* copy in packages/new/templates): a process takes the first free port    *)
(* from its base port on, after asking an older instance of itself to      *)
(* stop, and listens for "info", "restart" and "stop" on a Unix socket     *)
(* whose path names the port.  Several processes of one project run; in    *)
(* each, the start and the restarts are tasks that interleave at their     *)
(* awaits, also while the process shuts down, until it exits.  A socket    *)
(* file belongs to whoever created it; it answers while that process       *)
(* listens on it and stays behind when the process dies.                   *)
(***************************************************************************)
EXTENDS Naturals, FiniteSets

CONSTANTS Procs,
          MaxPort,        \* ports are 1 .. MaxPort; 1 is the base port
          MaxRestarts,    \* bound: restart commands, over all processes
          Slots,          \* bound: restarts under way in one process
          None

VARIABLES proc,      \* off, up, stopping, exiting, gone
          task,      \* [pc, port] of the start (slot 0) and of each restart
          bound,     \* the process that has each port open, or None
          server,    \* the variable server of each process: its port
          control,   \* controlSocket of each process
          listening, \* the path its control server listens on, or None
          file,      \* who created the socket file of each path, or None
          older,     \* processes that were gone when each one started (history)
          overlapped, \* processes in which two restarts ran at once (history)
          restarts

vars == <<proc, task, bound, server, control, listening, file, older, overlapped, restarts>>

Ports == 1 .. MaxPort
Tasks == Procs \X (0 .. Slots)
NoTask == [pc |-> "none", port |-> 1]

Init ==
    /\ proc = [p \in Procs |-> "off"]
    /\ task = [t \in Tasks |-> NoTask]
    /\ bound = [n \in Ports |-> None]
    /\ server = [p \in Procs |-> None]
    /\ control = [p \in Procs |-> None]
    /\ listening = [p \in Procs |-> None]
    /\ file = [n \in Ports |-> None]
    /\ older = [p \in Procs |-> {}]
    /\ overlapped = {}
    /\ restarts = 0

\* existsSync and a reply to "info" within a second.
Answers(path) == file[path] # None /\ listening[file[path]] = path

Alive(p) == proc[p] \in {"up", "stopping", "exiting"}

At(t, pc) == task[t].pc = pc
Goto(t, pc) == task' = [task EXCEPT ![t].pc = pc]

\* Neither its start nor a restart is under way.
Settled(p) == proc[p] = "up" /\ \A slot \in 0 .. Slots : task[<<p, slot>>].pc = "none"

\* The process is over: the system closes its ports and its control server;
\* only shutdown removes the file.
Ends(p, files) ==
    /\ proc' = [proc EXCEPT ![p] = "gone"]
    /\ task' = [t \in Tasks |-> IF t[1] = p THEN NoTask ELSE task[t]]
    /\ bound' = [n \in Ports |-> IF bound[n] = p THEN None ELSE bound[n]]
    /\ listening' = [listening EXCEPT ![p] = None]
    /\ file' = files
    /\ UNCHANGED <<server, control, older, overlapped, restarts>>

\* A process begins serveWithControl.
Start(p) ==
    /\ proc[p] = "off"
    /\ proc' = [proc EXCEPT ![p] = "up"]
    /\ task' = [task EXCEPT ![<<p, 0>>] = [pc |-> "probe", port |-> 1]]
    /\ older' = [older EXCEPT ![p] = {q \in Procs : proc[q] = "gone"}]
    /\ UNCHANGED <<bound, server, control, listening, file, overlapped, restarts>>

\* startServerWithAwareness: resolveRunningServer; only a start, not a
\* restart, asks the instance it found to stop.
Probe(t) ==
    /\ At(t, "probe")
    /\ Goto(t, IF Answers(task[t].port) /\ t[2] = 0 THEN "stop" ELSE "serve")
    /\ UNCHANGED <<proc, bound, server, control, listening, file, older, overlapped, restarts>>

\* shutdown, up to its first await: the server of the variable stops, and
\* closing the control server removes its own file.  Tasks go on meanwhile.
\* Bound: of two shutdowns of one process only the first cleans up.
Shutdown(q) ==
    /\ proc' = [proc EXCEPT ![q] = IF @ = "up" THEN "stopping" ELSE @]
    /\ bound' = [n \in Ports |-> IF n = server[q] /\ bound[n] = q THEN None ELSE bound[n]]
    /\ listening' = [listening EXCEPT ![q] = None]
    /\ file' = [n \in Ports |-> IF n = listening[q] /\ file[n] = q THEN None ELSE file[n]]

\* The older instance acknowledges and shuts down, or answers no more.
AskToStop(t) ==
    LET path == task[t].port
    IN  /\ At(t, "stop")
        /\ Goto(t, "serve")
        /\ \/ Answers(path) /\ Shutdown(file[path])
           \/ ~Answers(path) /\ UNCHANGED <<proc, bound, listening, file>>
        /\ UNCHANGED <<server, control, older, overlapped, restarts>>

\* A fault: a restart never moves the control socket.
M_Serve(t) ==
    LET p == t[1]
        port == task[t].port
    IN  /\ At(t, "serve")
        /\ bound[port] = None
        /\ bound' = [bound EXCEPT ![port] = p]
        /\ server' = [server EXCEPT ![p] = port]
        /\ control' = [control EXCEPT ![p] = IF t[2] = 0 THEN port ELSE @]
        /\ Goto(t, IF t[2] = 0 THEN "check" ELSE "none")
        /\ UNCHANGED <<proc, listening, file, older, overlapped, restarts>>

\* serve(): EADDRINUSE moves on to the next port, and past the last one the
\* process fails.  A start then listens on the port's path; a restart only if
\* the path changed.
Serve(t) ==
    LET p == t[1]
        port == task[t].port
    IN  /\ At(t, "serve")
        /\ bound[port] = None
        /\ bound' = [bound EXCEPT ![port] = p]
        /\ server' = [server EXCEPT ![p] = port]
        /\ control' = [control EXCEPT ![p] = IF t[2] = 0 THEN port ELSE @]
        /\ Goto(t, CASE t[2] = 0 -> "check"
                     [] t[2] # 0 /\ control[p] # port -> "close"
                     [] OTHER -> "none")
        /\ UNCHANGED <<proc, listening, file, older, overlapped, restarts>>

NextPort(t) ==
    LET port == task[t].port
    IN  /\ At(t, "serve")
        /\ bound[port] # None
        /\ \/ /\ port < MaxPort
              /\ task' = [task EXCEPT ![t] = [pc |-> "probe", port |-> port + 1]]
              /\ UNCHANGED <<proc, bound, server, control, listening, file, older, overlapped, restarts>>
           \/ port = MaxPort /\ Ends(t[1], file)

\* relistenControlServer: the control server closes (its file goes with it),
\* whatever is at the old path then is removed, and the new path is next.
CloseControl(t) ==
    LET p == t[1]
    IN  /\ At(t, "close")
        /\ listening' = [listening EXCEPT ![p] = None]
        /\ file' = [n \in Ports |-> IF n = listening[p] /\ file[n] = p THEN None ELSE file[n]]
        /\ Goto(t, "forget")
        /\ UNCHANGED <<proc, bound, server, control, older, overlapped, restarts>>

ForgetPath(t) ==
    LET p == t[1]
    IN  /\ At(t, "forget")
        /\ file' = [file EXCEPT ![control[p]] = None]
        /\ control' = [control EXCEPT ![p] = task[t].port]
        /\ Goto(t, "check")
        /\ UNCHANGED <<proc, bound, server, listening, older, overlapped, restarts>>

\* A fault: a file left behind is not looked for.
M_CheckPath(t) ==
    /\ At(t, "check")
    /\ Goto(t, "listen")
    /\ UNCHANGED <<proc, bound, server, control, listening, file, older, overlapped, restarts>>

\* listenControlServer: a file that does not answer is removed first.
CheckPath(t) ==
    LET path == control[t[1]]
    IN  /\ At(t, "check")
        /\ Goto(t, IF file[path] # None /\ ~Answers(path) THEN "remove" ELSE "listen")
        /\ UNCHANGED <<proc, bound, server, control, listening, file, older, overlapped, restarts>>

RemoveStale(t) ==
    /\ At(t, "remove")
    /\ file' = [file EXCEPT ![control[t[1]]] = None]
    /\ Goto(t, "listen")
    /\ UNCHANGED <<proc, bound, server, control, listening, older, overlapped, restarts>>

Listen(t) ==
    LET p == t[1]
        path == control[p]
    IN  /\ At(t, "listen")
        /\ file[path] = None /\ listening[p] = None
        /\ file' = [file EXCEPT ![path] = p]
        /\ listening' = [listening EXCEPT ![p] = path]
        /\ Goto(t, "none")
        /\ UNCHANGED <<proc, bound, server, control, older, overlapped, restarts>>

\* A fault: the error of the socket is not passed on and nothing settles.
M_ListenFails(t) ==
    /\ At(t, "listen")
    /\ file[control[t[1]]] # None \/ listening[t[1]] # None
    /\ UNCHANGED vars

\* Somebody else listens there, or this process already does: the rejected
\* promise ends the process.
ListenFails(t) ==
    /\ At(t, "listen")
    /\ file[control[t[1]]] # None \/ listening[t[1]] # None
    /\ Ends(t[1], file)

\* "restart" on the control socket, up to its first await.
Restart(p, slot) ==
    /\ Alive(p) /\ listening[p] # None
    /\ \E path \in Ports : file[path] = p /\ listening[p] = path
    /\ restarts < MaxRestarts
    /\ slot > 0 /\ task[<<p, slot>>].pc = "none"
    /\ restarts' = restarts + 1
    /\ overlapped' = IF Settled(p) THEN overlapped ELSE overlapped \cup {p}
    /\ bound' = [n \in Ports |-> IF n = server[p] /\ bound[n] = p THEN None ELSE bound[n]]
    /\ task' = [task EXCEPT ![<<p, slot>>] = [pc |-> "probe", port |-> server[p]]]
    /\ UNCHANGED <<proc, server, control, listening, file, older>>

\* "stop" on the control socket, or a signal: the start has come far enough.
Stop(p) ==
    /\ proc[p] = "up" /\ task[<<p, 0>>].pc = "none"
    /\ Shutdown(p)
    /\ UNCHANGED <<task, server, control, older, overlapped, restarts>>

\* cleanup once the control server has closed: what is at the path by now is
\* removed, and when that is done the process exits.
Cleanup(p) ==
    /\ proc[p] = "stopping"
    /\ \/ /\ file[control[p]] # None
          /\ file' = [file EXCEPT ![control[p]] = None]
          /\ proc' = [proc EXCEPT ![p] = "exiting"]
          /\ UNCHANGED <<task, bound, server, control, listening, older, overlapped, restarts>>
       \/ file[control[p]] = None /\ Ends(p, file)

\* The watcher exits when a source file changes, and a process may be killed:
\* nothing is cleaned up.
Exit(p) ==
    /\ Alive(p)
    /\ Ends(p, file)

\* process.exit after the cleanup.
Exits(p) == proc[p] = "exiting" /\ Exit(p)

Step(t) ==
    \/ Probe(t) \/ AskToStop(t) \/ Serve(t) \/ NextPort(t)
    \/ CloseControl(t) \/ ForgetPath(t)
    \/ CheckPath(t) \/ RemoveStale(t) \/ Listen(t) \/ ListenFails(t)

Next ==
    \/ \E t \in Tasks : Step(t)
    \/ \E p \in Procs : Start(p) \/ Stop(p) \/ Cleanup(p) \/ Exit(p)
    \/ \E p \in Procs, slot \in 0 .. Slots : Restart(p, slot)
    \/ (\A p \in Procs : proc[p] = "gone") /\ UNCHANGED vars

\* Tasks proceed and cleanups end; nobody has to start, stop or restart.
Fairness ==
    /\ \A t \in Tasks : WF_vars(Step(t))
    /\ \A p \in Procs : WF_vars(Cleanup(p)) /\ WF_vars(Exits(p))

Spec == Init /\ [][Next]_vars /\ Fairness

-----------------------------------------------------------------------------
\* A process at rest has the port open that its variable server names, after
\* any restarts.  The path it listens on, the one a later start will ask, is
\* that port's after any number of restarts that had to move to another port,
\* provided each began when the one before it had ended: restartServer is not
\* serialised, and one of two at once may take away the path of the other.
SocketNamesPort ==
    \A p \in Procs : Settled(p) =>
        /\ bound[server[p]] = p
        /\ p \notin overlapped => control[p] = server[p] /\ listening[p] = control[p]

\* A socket file left behind by a process that was killed, or that the
\* watcher ended, does not keep a later start from listening on its path.
StaleFileHarmless ==
    \A p \in Procs : At(<<p, 0>>, "listen") => file[control[p]] \notin older[p]

\* Every start comes to an end: it serves, or the process is gone.
StartSettles == \A p \in Procs :
    (proc[p] = "up" /\ task[<<p, 0>>].pc # "none") ~> (Settled(p) \/ proc[p] # "up")

\* What the README says: "The server listens on a local Unix socket at
\* `.<app>-<port>.sock` (in the project root) and accepts ...".  A process at
\* rest can be reached on its path.
ServerControllable == \A p \in Procs : Settled(p) => file[server[p]] = p

\* What the README says: "`restart`: restart the server in-place".  A process
\* has one port open, not a second one that nothing refers to any more.
RestartInPlace ==
    \A p \in Procs : Settled(p) => {n \in Ports : bound[n] = p} = {server[p]}
=============================================================================
