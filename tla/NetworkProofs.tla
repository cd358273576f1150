--------------------------- MODULE NetworkProofs ---------------------------
(***************************************************************************)
(* The invariants of MCNetwork's components, for all their constants.      *)
(***************************************************************************)
EXTENDS MCNetwork, Sequences, FiniteData

-----------------------------------------------------------------------------
(* Development servers *)

Slot == 0 .. Slots
Ports == 1 .. MaxPort
Pc == {"none", "probe", "stop", "serve", "close", "forget", "check", "remove", "listen"}

ServeType ==
  /\ proc \in [Procs -> {"off", "up", "stopping", "exiting", "gone"}]
  /\ task \in [Procs \X Slot -> [pc : Pc, port : Ports]]
  /\ bound \in [Ports -> Procs \cup {None}]
  /\ server \in [Procs -> Ports \cup {None}]
  /\ control \in [Procs -> Ports \cup {None}]
  /\ listening \in [Procs -> Ports \cup {None}]
  /\ file \in [Ports -> Procs \cup {None}]
  /\ older \in [Procs -> SUBSET Procs]
  /\ overlapped \in SUBSET Procs

\* Only a process that runs listens and has tasks, it shuts down after its start only, and
\* nobody that was gone comes back.
Running == {"up", "stopping", "exiting"}
Lives(p) ==
  /\ listening[p] # None => proc[p] \in Running
  /\ \A s \in Slot : task[<<p, s>>].pc # "none" => proc[p] \in Running
  /\ 0 \in Slot /\ task[<<p, 0>>].pc # "none" => proc[p] = "up"
  /\ \A q \in older[p] : proc[q] = "gone"

Living == \A p \in Procs : Lives(p)

\* A process that starts does nothing else and does not listen yet; its path is looked
\* at when the port is open, and found free of files left behind.
StartOK(p) ==
  task[<<p, 0>>].pc # "none" /\ proc[p] = "up" =>
    /\ listening[p] = None
    /\ \A s \in Slot \ {0} : task[<<p, s>>].pc = "none"
    /\ task[<<p, 0>>].pc \notin {"close", "forget"}
    /\ task[<<p, 0>>].pc \in {"check", "remove", "listen"} =>
         server[p] \in Ports /\ control[p] = server[p]
    /\ task[<<p, 0>>].pc = "listen" => file[control[p]] \notin older[p]

\* A process that has started has a server and, unless it shuts down or a task is looking
\* for a port, its port is open.
Looking == {"probe", "stop", "serve"}
ServerOK(p) ==
  proc[p] \in Running /\ task[<<p, 0>>].pc \notin Looking =>
    /\ server[p] \in Ports
    /\ proc[p] = "up" /\ (\A s \in Slot : task[<<p, s>>].pc \notin Looking) => bound[server[p]] = p

Serving == \A p \in Procs : ServerOK(p)

\* As long as restarts do not overlap one task runs at a time; from closing the control
\* server to listening again it carries the port of the server as the path to come.
Alone(p) ==
  \A s, r \in Slot : s = r \/ task[<<p, s>>].pc = "none" \/ task[<<p, r>>].pc = "none"

Carries(p, s) ==
  /\ task[<<p, s>>].pc \in {"close", "forget"} => server[p] = task[<<p, s>>].port
  /\ task[<<p, s>>].pc \in {"forget", "check", "remove", "listen"} => listening[p] = None
  /\ task[<<p, s>>].pc \in {"check", "remove", "listen"} => control[p] = server[p]
  /\ task[<<p, s>>].pc \in {"probe", "stop", "serve"} /\ s # 0 => listening[p] = control[p]

PathOK(p) ==
  proc[p] = "up" /\ p \notin overlapped =>
    /\ Alone(p)
    /\ \A s \in Slot : Carries(p, s)
    /\ (\A s \in Slot : task[<<p, s>>].pc = "none") =>
         control[p] = server[p] /\ listening[p] = control[p]

Starting == \A p \in Procs : StartOK(p)
Relistening == \A p \in Procs : PathOK(p)

ServeInv == ServeType /\ Living /\ Starting /\ Serving /\ Relistening

\* A task is one of a process, in a slot.
LEMMA TaskOf ==
  ASSUME NEW t \in Serve!Tasks
  PROVE  /\ t[1] \in Procs /\ t[2] \in Slot /\ t = <<t[1], t[2]>>
         /\ 0 \in Slot
BY ServeBounds DEF Serve!Tasks, Slot

\* What Goto changes: the step of one task, and no port.
Gone(p, k, pc) ==
  /\ task' \in [Procs \X Slot -> [pc : Pc, port : Ports]]
  /\ \A q \in Procs, s \in Slot :
       /\ task'[<<q, s>>].pc = IF q = p /\ s = k THEN pc ELSE task[<<q, s>>].pc
       /\ task'[<<q, s>>].port = task[<<q, s>>].port

\* Goto changes that much.
LEMMA GotoEffect ==
  ASSUME ServeType, NEW p \in Procs, NEW k \in Slot, NEW pc \in Pc, Serve!Goto(<<p, k>>, pc)
  PROVE  Gone(p, k, pc)
<1>1. task \in [Procs \X Slot -> [pc : Pc, port : Ports]]
  BY DEF ServeType
<1>2. task' = [task EXCEPT ![<<p, k>>] = [task[<<p, k>>] EXCEPT !.pc = pc]]
  BY <1>1 DEF Serve!Goto
<1>. DEFINE new == [task[<<p, k>>] EXCEPT !.pc = pc]
<1>3. new \in [pc : Pc, port : Ports] /\ new.pc = pc /\ new.port = task[<<p, k>>].port
  BY <1>1
<1>. HIDE DEF new
<1>4. task' \in [Procs \X Slot -> [pc : Pc, port : Ports]] /\ task'[<<p, k>>] = new
  BY <1>1, <1>2, <1>3 DEF new
<1>5. ASSUME NEW q \in Procs, NEW s \in Slot, ~(q = p /\ s = k) PROVE task'[<<q, s>>] = task[<<q, s>>]
  <2>1. <<q, s>> # <<p, k>> /\ <<q, s>> \in Procs \X Slot
    BY <1>5
  <2>. QED BY <1>1, <1>2, <2>1
<1>6. ASSUME NEW q \in Procs, NEW s \in Slot
      PROVE  /\ task'[<<q, s>>].pc = IF q = p /\ s = k THEN pc ELSE task[<<q, s>>].pc
             /\ task'[<<q, s>>].port = task[<<q, s>>].port
  <2>1. CASE q = p /\ s = k
    BY <1>3, <1>4, <2>1
  <2>2. CASE ~(q = p /\ s = k)
    BY <1>5, <2>2
  <2>. QED BY <2>1, <2>2
<1>. QED BY <1>4, <1>6 DEF Gone

\* A process none of whose variables change keeps its part.
Untouched(q) ==
  /\ proc'[q] = proc[q] /\ server'[q] = server[q] /\ control'[q] = control[q]
  /\ listening'[q] = listening[q] /\ (q \in overlapped' <=> q \in overlapped)
  /\ \A s \in Slot : /\ task'[<<q, s>>].pc = task[<<q, s>>].pc
                      /\ task'[<<q, s>>].port = task[<<q, s>>].port

\* It keeps what is said of its path,
LEMMA PathKept ==
  ASSUME NEW q \in Procs, PathOK(q), Untouched(q)
  PROVE  PathOK(q)'
<1>1. Alone(q) => Alone(q)'
  BY DEF Alone, Untouched
<1>2. \A s \in Slot : Carries(q, s) => Carries(q, s)'
  BY DEF Carries, Untouched
<1>. QED BY <1>1, <1>2 DEF PathOK, Untouched

\* and of its start, as long as no file appears.
LEMMA StartKept ==
  ASSUME ServeType, NEW q \in Procs, StartOK(q), Untouched(q), older' = older, 0 \in Slot,
         \A n \in Ports : file'[n] \in {file[n], None}
  PROVE  StartOK(q)'
<1>. SUFFICES ASSUME task'[<<q, 0>>].pc # "none", proc'[q] = "up" PROVE StartOK(q)'
  BY DEF StartOK
<1>1. /\ task'[<<q, 0>>].pc = task[<<q, 0>>].pc /\ task[<<q, 0>>].pc # "none" /\ proc[q] = "up"
      /\ server'[q] = server[q] /\ control'[q] = control[q] /\ listening'[q] = listening[q]
  BY DEF Untouched
<1>2. task'[<<q, 0>>].pc = "listen" => file'[control'[q]] \notin older'[q]
  <2>. SUFFICES ASSUME task[<<q, 0>>].pc = "listen" PROVE file'[control[q]] \notin older[q]
    BY <1>1
  <2>1. control[q] \in Ports /\ file[control[q]] \notin older[q]
    BY <1>1 DEF StartOK
  <2>2. None \notin older[q]
    BY NoneAssumption DEF ServeType
  <2>3. file'[control[q]] \in {file[control[q]], None}
    BY <2>1
  <2>. QED BY <2>1, <2>2, <2>3
<1>3. \A s \in Slot \ {0} : task'[<<q, s>>].pc = "none"
  BY <1>1 DEF StartOK, Untouched
<1>. QED BY <1>1, <1>2, <1>3 DEF StartOK

\* Nobody else begins or ceases to listen.
Silent(p) == \A q \in Procs : q = p \/ listening'[q] = listening[q]

\* A task that goes on keeps its process among those that run.
LEMMA LivingKept ==
  ASSUME Living, UNCHANGED <<proc, older>>,
         NEW p \in Procs, NEW k \in Slot, NEW pc, Gone(p, k, pc),
         proc[p] \in Running, k = 0 => proc[p] = "up", Silent(p)
  PROVE  Living'
<1>. SUFFICES ASSUME NEW q \in Procs PROVE Lives(q)'
  BY DEF Living
<1>1. Lives(q)
  BY DEF Living
<1>2. CASE q = p
  BY <1>1, <1>2 DEF Lives, Gone
<1>3. CASE q # p
  <2>1. \A s \in Slot : task'[<<q, s>>].pc = task[<<q, s>>].pc
    BY <1>3 DEF Gone
  <2>. QED BY <1>1, <1>3, <2>1 DEF Lives, Silent
<1>. QED BY <1>2, <1>3

\* Looking whether an older instance answers.
LEMMA ProbeStep ==
  ASSUME ServeInv, NEW t \in Serve!Tasks, Serve!Probe(t)
  PROVE  ServeInv'
<1>. DEFINE p == t[1]
            k == t[2]
<1>1. p \in Procs /\ k \in Slot /\ t = <<p, k>> /\ 0 \in Slot
  BY TaskOf
<1>2. PICK pc \in {"stop", "serve"} : Serve!Goto(<<p, k>>, pc)
  BY <1>1 DEF Serve!Probe
<1>. HIDE DEF p, k
<1>3. /\ task[<<p, k>>].pc = "probe" /\ proc[p] \in Running /\ (k = 0 => proc[p] = "up")
      /\ UNCHANGED <<proc, bound, server, control, listening, file, older, overlapped>>
  BY <1>1 DEF Serve!Probe, Serve!At, ServeInv, Living, Lives, p
<1>4. /\ task' \in [Procs \X Slot -> [pc : Pc, port : Ports]]
      /\ \A q \in Procs, s \in Slot :
           /\ task'[<<q, s>>].pc = IF q = p /\ s = k THEN pc ELSE task[<<q, s>>].pc
           /\ task'[<<q, s>>].port = task[<<q, s>>].port
  <2>1. pc \in Pc
    BY <1>2 DEF Pc
  <2>2. Serve!Goto(<<p, k>>, pc) /\ ServeType
    BY <1>2 DEF ServeInv
  <2>3. Gone(p, k, pc)
    BY <1>1, <2>1, <2>2, GotoEffect
  <2>. QED BY <2>3 DEF Gone
<1>5. ServeType'
  BY <1>1, <1>3, <1>4 DEF ServeInv, ServeType
<1>6. Living'
  <2>1. Living /\ UNCHANGED <<proc, older>> /\ Silent(p)
    BY <1>1, <1>3 DEF ServeInv, ServeType, Silent
  <2>2. Gone(p, k, pc)
    BY <1>4 DEF Gone
  <2>. QED BY <1>1, <1>3, <2>1, <2>2, LivingKept
<1>7. Starting'
  <2>. SUFFICES ASSUME NEW q \in Procs PROVE StartOK(q)'
    BY DEF Starting
  <2>1. StartOK(q)
    BY DEF ServeInv, Starting
  <2>2. ASSUME NEW n \in Ports PROVE file'[n] \in {file[n], None}
    BY <1>1, <1>3 DEF ServeInv, ServeType
  <2>3. CASE q # p
    BY <1>1, <1>3, <1>4, <2>1, <2>2, <2>3, NoneAssumption DEF ServeInv, ServeType, StartOK
  <2>4. CASE q = p /\ k # 0
    BY <1>1, <1>3, <1>4, <2>1, <2>4 DEF StartOK
  <2>5. CASE q = p /\ k = 0
    BY <1>1, <1>2, <1>3, <1>4, <2>1, <2>2, <2>5, NoneAssumption DEF ServeInv, ServeType, StartOK
  <2>. QED BY <2>3, <2>4, <2>5
<1>8. Serving'
  BY <1>1, <1>2, <1>3, <1>4 DEF ServeInv, Serving, ServerOK, Looking
<1>9. Relistening'
  <2>1. ASSUME NEW q \in Procs, q # p PROVE PathOK(q)'
    <3>1. Untouched(q)
      BY <1>1, <1>3, <1>4, <2>1 DEF ServeInv, ServeType, Untouched
    <3>. QED BY <3>1, PathKept DEF ServeInv, Relistening
  <2>2. ASSUME p \notin overlapped, proc[p] = "up" PROVE Alone(p)'
    <3>1. PathOK(p)
      BY <1>1 DEF ServeInv, Relistening
    <3>2. Alone(p)
      BY <2>2, <3>1 DEF PathOK
    <3>3. \A s \in Slot : s # k => task[<<p, s>>].pc = "none"
      BY <1>1, <1>3, <3>2 DEF Alone
    <3>4. \A s \in Slot : s # k => task'[<<p, s>>].pc = "none"
      BY <1>1, <1>4, <3>3
    <3>. QED BY <3>4 DEF Alone
  <2>3. ASSUME p \notin overlapped, proc[p] = "up", NEW s \in Slot PROVE Carries(p, s)'
    <3>1. PathOK(p) /\ ServeType
      BY <1>1 DEF ServeInv, Relistening
    <3>2. CASE s # k
      BY <1>1, <1>3, <1>4, <2>3, <3>1, <3>2 DEF PathOK, Alone, Carries
    <3>3. CASE s = k
      BY <1>1, <1>2, <1>3, <1>4, <2>3, <3>1, <3>3 DEF PathOK, Carries, ServeType
    <3>. QED BY <3>2, <3>3
  <2>4. ASSUME p \notin overlapped, proc[p] = "up", \A s \in Slot : task'[<<p, s>>].pc = "none"
        PROVE  control'[p] = server'[p] /\ listening'[p] = control'[p]
    BY <1>1, <1>2, <1>3, <1>4, <2>4 DEF ServeInv, ServeType, Relistening, PathOK, Carries
  <2>5. PathOK(p)'
    BY <1>3, <2>2, <2>3, <2>4 DEF PathOK
  <2>. QED BY <2>1, <2>5 DEF Relistening
<1>. QED BY <1>5, <1>6, <1>7, <1>8, <1>9 DEF ServeInv

\* A free port is opened.
LEMMA ServeStep ==
  ASSUME ServeInv, NEW t \in Serve!Tasks, Serve!Serve(t)
  PROVE  ServeInv'
<1>. DEFINE p == t[1]
            k == t[2]
<1>1. p \in Procs /\ k \in Slot /\ t = <<p, k>> /\ 0 \in Slot
  BY TaskOf
<1>2. PICK pc \in {"check", "close", "none"} : Serve!Goto(<<p, k>>, pc)
         /\ (k = 0 => pc = "check")
         /\ (k # 0 => pc = IF control[p] # task[<<p, k>>].port THEN "close" ELSE "none")
  BY <1>1 DEF Serve!Serve
<1>. HIDE DEF p, k
<1>3. /\ task[<<p, k>>].pc = "serve" /\ proc[p] \in Running /\ (k = 0 => proc[p] = "up")
      /\ bound[task[<<p, k>>].port] = None
      /\ bound' = [bound EXCEPT ![task[<<p, k>>].port] = p]
      /\ server' = [server EXCEPT ![p] = task[<<p, k>>].port]
      /\ control' = [control EXCEPT ![p] = IF k = 0 THEN task[<<p, k>>].port ELSE @]
      /\ UNCHANGED <<proc, listening, file, older, overlapped>>
  BY <1>1 DEF Serve!Serve, Serve!At, ServeInv, Living, Lives, p, k
<1>4. /\ task' \in [Procs \X Slot -> [pc : Pc, port : Ports]]
      /\ \A q \in Procs, s \in Slot :
           /\ task'[<<q, s>>].pc = IF q = p /\ s = k THEN pc ELSE task[<<q, s>>].pc
           /\ task'[<<q, s>>].port = task[<<q, s>>].port
  <2>1. pc \in Pc
    BY <1>2 DEF Pc
  <2>2. Serve!Goto(<<p, k>>, pc) /\ ServeType
    BY <1>2 DEF ServeInv
  <2>3. Gone(p, k, pc)
    BY <1>1, <2>1, <2>2, GotoEffect
  <2>. QED BY <2>3 DEF Gone
<1>5. ServeType'
  BY <1>1, <1>3, <1>4 DEF ServeInv, ServeType
<1>6. Living'
  <2>1. Living /\ UNCHANGED <<proc, older>> /\ Silent(p)
    BY <1>1, <1>3 DEF ServeInv, ServeType, Silent
  <2>2. Gone(p, k, pc)
    BY <1>4 DEF Gone
  <2>. QED BY <1>1, <1>3, <2>1, <2>2, LivingKept
<1>7. Starting'
  <2>. SUFFICES ASSUME NEW q \in Procs PROVE StartOK(q)'
    BY DEF Starting
  <2>1. StartOK(q)
    BY DEF ServeInv, Starting
  <2>2. ASSUME NEW n \in Ports PROVE file'[n] \in {file[n], None}
    BY <1>1, <1>3 DEF ServeInv, ServeType
  <2>3. CASE q # p
    BY <1>1, <1>3, <1>4, <2>1, <2>2, <2>3, NoneAssumption DEF ServeInv, ServeType, StartOK
  <2>4. CASE q = p /\ k # 0
    BY <1>1, <1>3, <1>4, <2>1, <2>4 DEF StartOK
  <2>5. CASE q = p /\ k = 0
    BY <1>1, <1>2, <1>3, <1>4, <2>1, <2>2, <2>5, NoneAssumption DEF ServeInv, ServeType, StartOK
  <2>. QED BY <2>3, <2>4, <2>5
<1>8. Serving'
  <2>. SUFFICES ASSUME NEW q \in Procs, proc'[q] \in Running, task'[<<q, 0>>].pc \notin Looking
                PROVE  /\ server'[q] \in Ports
                       /\ proc'[q] = "up" /\ (\A s \in Slot : task'[<<q, s>>].pc \notin Looking) =>
                            bound'[server'[q]] = q
    BY DEF Serving, ServerOK
  <2>1. task[<<p, k>>].port \in Ports
    BY <1>1 DEF ServeInv, ServeType
  <2>2. CASE q = p
    BY <1>1, <1>3, <2>1, <2>2 DEF ServeInv, ServeType
  <2>3. CASE q # p
    <3>1. /\ server'[q] = server[q] /\ server[q] \in Ports
          /\ proc'[q] = "up" /\ (\A s \in Slot : task'[<<q, s>>].pc \notin Looking) => bound[server[q]] = q
      BY <1>1, <1>3, <1>4, <2>3 DEF ServeInv, ServeType, Serving, ServerOK
    <3>. QED BY <1>1, <1>3, <2>1, <3>1, NoneAssumption DEF ServeInv, ServeType
  <2>. QED BY <2>2, <2>3
<1>9. Relistening'
  <2>1. ASSUME NEW q \in Procs, q # p PROVE PathOK(q)'
    <3>1. Untouched(q)
      BY <1>1, <1>3, <1>4, <2>1 DEF ServeInv, ServeType, Untouched
    <3>. QED BY <3>1, PathKept DEF ServeInv, Relistening
  <2>2. ASSUME p \notin overlapped, proc[p] = "up" PROVE Alone(p)'
    <3>1. PathOK(p)
      BY <1>1 DEF ServeInv, Relistening
    <3>2. Alone(p)
      BY <2>2, <3>1 DEF PathOK
    <3>3. \A s \in Slot : s # k => task[<<p, s>>].pc = "none"
      BY <1>1, <1>3, <3>2 DEF Alone
    <3>4. \A s \in Slot : s # k => task'[<<p, s>>].pc = "none"
      BY <1>1, <1>4, <3>3
    <3>. QED BY <3>4 DEF Alone
  <2>3. ASSUME p \notin overlapped, proc[p] = "up", NEW s \in Slot PROVE Carries(p, s)'
    <3>1. PathOK(p) /\ ServeType
      BY <1>1 DEF ServeInv, Relistening
    <3>2. CASE s # k
      BY <1>1, <1>3, <1>4, <2>3, <3>1, <3>2 DEF PathOK, Alone, Carries
    <3>3. CASE s = k
      <4>1. CASE k = 0
        <5>1. listening[p] = None
          BY <1>1, <1>3, <4>1 DEF ServeInv, Starting, StartOK
        <5>. QED BY <1>1, <1>2, <1>3, <1>4, <3>1, <3>3, <4>1, <5>1 DEF Carries, ServeType
      <4>2. CASE k # 0
        <5>1. /\ task'[<<p, s>>].pc \in {"close", "none"}
              /\ task'[<<p, s>>].port = task[<<p, k>>].port
          BY <1>1, <1>2, <1>4, <3>3, <4>2
        <5>2. server'[p] = task[<<p, k>>].port
          BY <1>1, <1>3, <3>1 DEF ServeType
        <5>. QED BY <5>1, <5>2 DEF Carries
      <4>. QED BY <4>1, <4>2
    <3>. QED BY <3>2, <3>3
  <2>4. ASSUME p \notin overlapped, proc[p] = "up", \A s \in Slot : task'[<<p, s>>].pc = "none"
        PROVE  control'[p] = server'[p] /\ listening'[p] = control'[p]
    BY <1>1, <1>2, <1>3, <1>4, <2>4 DEF ServeInv, ServeType, Relistening, PathOK, Carries
  <2>5. PathOK(p)'
    BY <1>3, <2>2, <2>3, <2>4 DEF PathOK
  <2>. QED BY <2>1, <2>5 DEF Relistening
<1>. QED BY <1>5, <1>6, <1>7, <1>8, <1>9 DEF ServeInv

\* The control server closes, and its own file goes.
LEMMA CloseControlStep ==
  ASSUME ServeInv, NEW t \in Serve!Tasks, Serve!CloseControl(t)
  PROVE  ServeInv'
<1>. DEFINE p == t[1]
            k == t[2]
<1>1. p \in Procs /\ k \in Slot /\ t = <<p, k>> /\ 0 \in Slot
  BY TaskOf
<1>2. PICK pc \in {"forget"} : Serve!Goto(<<p, k>>, pc)
  BY <1>1 DEF Serve!CloseControl
<1>. HIDE DEF p, k
<1>3. /\ task[<<p, k>>].pc = "close" /\ proc[p] \in Running /\ (k = 0 => proc[p] = "up")
      /\ listening' = [listening EXCEPT ![p] = None]
      /\ file' \in [Ports -> Procs \cup {None}] /\ \A n \in Ports : file'[n] \in {file[n], None}
      /\ UNCHANGED <<proc, bound, server, control, older, overlapped>>
  BY <1>1 DEF Serve!CloseControl, Serve!At, Living, Lives, p, ServeInv, ServeType, Ports, Serve!Ports
<1>4. /\ task' \in [Procs \X Slot -> [pc : Pc, port : Ports]]
      /\ \A q \in Procs, s \in Slot :
           /\ task'[<<q, s>>].pc = IF q = p /\ s = k THEN pc ELSE task[<<q, s>>].pc
           /\ task'[<<q, s>>].port = task[<<q, s>>].port
  <2>1. pc \in Pc
    BY <1>2 DEF Pc
  <2>2. Serve!Goto(<<p, k>>, pc) /\ ServeType
    BY <1>2 DEF ServeInv
  <2>3. Gone(p, k, pc)
    BY <1>1, <2>1, <2>2, GotoEffect
  <2>. QED BY <2>3 DEF Gone
<1>5. ServeType'
  BY <1>1, <1>3, <1>4 DEF ServeInv, ServeType
<1>6. Living'
  <2>1. Living /\ UNCHANGED <<proc, older>> /\ Silent(p)
    BY <1>1, <1>3 DEF ServeInv, ServeType, Silent
  <2>2. Gone(p, k, pc)
    BY <1>4 DEF Gone
  <2>. QED BY <1>1, <1>3, <2>1, <2>2, LivingKept
<1>7. Starting'
  <2>. SUFFICES ASSUME NEW q \in Procs PROVE StartOK(q)'
    BY DEF Starting
  <2>1. StartOK(q)
    BY DEF ServeInv, Starting
  <2>2. ASSUME NEW n \in Ports PROVE file'[n] \in {file[n], None}
    BY <1>1, <1>3 DEF ServeInv, ServeType
  <2>3. CASE q # p
    <3>1. Untouched(q)
      BY <1>1, <1>3, <1>4, <2>3 DEF ServeInv, ServeType, Untouched
    <3>2. ServeType /\ older' = older
      BY <1>3 DEF ServeInv
    <3>. QED BY <1>1, <2>1, <2>2, <3>1, <3>2, StartKept
  <2>4. CASE q = p /\ k # 0
    BY <1>1, <1>3, <1>4, <2>1, <2>4 DEF StartOK
  <2>5. CASE q = p /\ k = 0
    BY <1>1, <1>2, <1>3, <1>4, <2>1, <2>2, <2>5, NoneAssumption DEF ServeInv, ServeType, StartOK
  <2>. QED BY <2>3, <2>4, <2>5
<1>8. Serving'
  BY <1>1, <1>2, <1>3, <1>4 DEF ServeInv, Serving, ServerOK, Looking
<1>9. Relistening'
  <2>1. ASSUME NEW q \in Procs, q # p PROVE PathOK(q)'
    <3>1. Untouched(q)
      BY <1>1, <1>3, <1>4, <2>1 DEF ServeInv, ServeType, Untouched
    <3>. QED BY <3>1, PathKept DEF ServeInv, Relistening
  <2>2. ASSUME p \notin overlapped, proc[p] = "up" PROVE Alone(p)'
    <3>1. PathOK(p)
      BY <1>1 DEF ServeInv, Relistening
    <3>2. Alone(p)
      BY <2>2, <3>1 DEF PathOK
    <3>3. \A s \in Slot : s # k => task[<<p, s>>].pc = "none"
      BY <1>1, <1>3, <3>2 DEF Alone
    <3>4. \A s \in Slot : s # k => task'[<<p, s>>].pc = "none"
      BY <1>1, <1>4, <3>3
    <3>. QED BY <3>4 DEF Alone
  <2>3. ASSUME p \notin overlapped, proc[p] = "up", NEW s \in Slot PROVE Carries(p, s)'
    <3>1. PathOK(p) /\ ServeType
      BY <1>1 DEF ServeInv, Relistening
    <3>2. CASE s # k
      BY <1>1, <1>3, <1>4, <2>3, <3>1, <3>2 DEF PathOK, Alone, Carries
    <3>3. CASE s = k
      BY <1>1, <1>2, <1>3, <1>4, <2>3, <3>1, <3>3 DEF PathOK, Carries, ServeType
    <3>. QED BY <3>2, <3>3
  <2>4. ASSUME p \notin overlapped, proc[p] = "up", \A s \in Slot : task'[<<p, s>>].pc = "none"
        PROVE  control'[p] = server'[p] /\ listening'[p] = control'[p]
    BY <1>1, <1>2, <1>3, <1>4, <2>4 DEF ServeInv, ServeType, Relistening, PathOK, Carries
  <2>5. PathOK(p)'
    BY <1>3, <2>2, <2>3, <2>4 DEF PathOK
  <2>. QED BY <2>1, <2>5 DEF Relistening
<1>. QED BY <1>5, <1>6, <1>7, <1>8, <1>9 DEF ServeInv

\* The path of the port before is given up.
LEMMA ForgetPathStep ==
  ASSUME ServeInv, NEW t \in Serve!Tasks, Serve!ForgetPath(t)
  PROVE  ServeInv'
<1>. DEFINE p == t[1]
            k == t[2]
<1>1. p \in Procs /\ k \in Slot /\ t = <<p, k>> /\ 0 \in Slot
  BY TaskOf
<1>2. PICK pc \in {"check"} : Serve!Goto(<<p, k>>, pc)
  BY <1>1 DEF Serve!ForgetPath
<1>. HIDE DEF p, k
<1>3. /\ task[<<p, k>>].pc = "forget" /\ proc[p] \in Running /\ (k = 0 => proc[p] = "up")
      /\ control' = [control EXCEPT ![p] = task[<<p, k>>].port]
      /\ file' = [file EXCEPT ![control[p]] = None]
      /\ UNCHANGED <<proc, bound, server, listening, older, overlapped>>
  BY <1>1 DEF Serve!ForgetPath, Serve!At, ServeInv, Living, Lives, p
<1>4. /\ task' \in [Procs \X Slot -> [pc : Pc, port : Ports]]
      /\ \A q \in Procs, s \in Slot :
           /\ task'[<<q, s>>].pc = IF q = p /\ s = k THEN pc ELSE task[<<q, s>>].pc
           /\ task'[<<q, s>>].port = task[<<q, s>>].port
  <2>1. pc \in Pc
    BY <1>2 DEF Pc
  <2>2. Serve!Goto(<<p, k>>, pc) /\ ServeType
    BY <1>2 DEF ServeInv
  <2>3. Gone(p, k, pc)
    BY <1>1, <2>1, <2>2, GotoEffect
  <2>. QED BY <2>3 DEF Gone
<1>5. ServeType'
  BY <1>1, <1>3, <1>4 DEF ServeInv, ServeType
<1>6. Living'
  <2>1. Living /\ UNCHANGED <<proc, older>> /\ Silent(p)
    BY <1>1, <1>3 DEF ServeInv, ServeType, Silent
  <2>2. Gone(p, k, pc)
    BY <1>4 DEF Gone
  <2>. QED BY <1>1, <1>3, <2>1, <2>2, LivingKept
<1>7. Starting'
  <2>. SUFFICES ASSUME NEW q \in Procs PROVE StartOK(q)'
    BY DEF Starting
  <2>1. StartOK(q)
    BY DEF ServeInv, Starting
  <2>2. ASSUME NEW n \in Ports PROVE file'[n] \in {file[n], None}
    BY <1>1, <1>3 DEF ServeInv, ServeType
  <2>3. CASE q # p
    BY <1>1, <1>3, <1>4, <2>1, <2>2, <2>3, NoneAssumption DEF ServeInv, ServeType, StartOK
  <2>4. CASE q = p /\ k # 0
    BY <1>1, <1>3, <1>4, <2>1, <2>4 DEF StartOK
  <2>5. CASE q = p /\ k = 0
    BY <1>1, <1>2, <1>3, <1>4, <2>1, <2>2, <2>5, NoneAssumption DEF ServeInv, ServeType, StartOK
  <2>. QED BY <2>3, <2>4, <2>5
<1>8. Serving'
  BY <1>1, <1>2, <1>3, <1>4 DEF ServeInv, Serving, ServerOK, Looking
<1>9. Relistening'
  <2>1. ASSUME NEW q \in Procs, q # p PROVE PathOK(q)'
    <3>1. Untouched(q)
      BY <1>1, <1>3, <1>4, <2>1 DEF ServeInv, ServeType, Untouched
    <3>. QED BY <3>1, PathKept DEF ServeInv, Relistening
  <2>2. ASSUME p \notin overlapped, proc[p] = "up" PROVE Alone(p)'
    <3>1. PathOK(p)
      BY <1>1 DEF ServeInv, Relistening
    <3>2. Alone(p)
      BY <2>2, <3>1 DEF PathOK
    <3>3. \A s \in Slot : s # k => task[<<p, s>>].pc = "none"
      BY <1>1, <1>3, <3>2 DEF Alone
    <3>4. \A s \in Slot : s # k => task'[<<p, s>>].pc = "none"
      BY <1>1, <1>4, <3>3
    <3>. QED BY <3>4 DEF Alone
  <2>3. ASSUME p \notin overlapped, proc[p] = "up", NEW s \in Slot PROVE Carries(p, s)'
    <3>1. PathOK(p) /\ ServeType
      BY <1>1 DEF ServeInv, Relistening
    <3>2. CASE s # k
      BY <1>1, <1>3, <1>4, <2>3, <3>1, <3>2 DEF PathOK, Alone, Carries
    <3>3. CASE s = k
      BY <1>1, <1>2, <1>3, <1>4, <2>3, <3>1, <3>3 DEF PathOK, Carries, ServeType
    <3>. QED BY <3>2, <3>3
  <2>4. ASSUME p \notin overlapped, proc[p] = "up", \A s \in Slot : task'[<<p, s>>].pc = "none"
        PROVE  control'[p] = server'[p] /\ listening'[p] = control'[p]
    BY <1>1, <1>2, <1>3, <1>4, <2>4 DEF ServeInv, ServeType, Relistening, PathOK, Carries
  <2>5. PathOK(p)'
    BY <1>3, <2>2, <2>3, <2>4 DEF PathOK
  <2>. QED BY <2>1, <2>5 DEF Relistening
<1>. QED BY <1>5, <1>6, <1>7, <1>8, <1>9 DEF ServeInv

\* A file that does not answer is to be removed.
LEMMA CheckPathStep ==
  ASSUME ServeInv, NEW t \in Serve!Tasks, Serve!CheckPath(t)
  PROVE  ServeInv'
<1>. DEFINE p == t[1]
            k == t[2]
<1>1. p \in Procs /\ k \in Slot /\ t = <<p, k>> /\ 0 \in Slot
  BY TaskOf
<1>2. PICK pc \in {"remove", "listen"} : Serve!Goto(<<p, k>>, pc)
         /\ (pc = "listen" => file[control[p]] = None \/ Serve!Answers(control[p]))
  BY <1>1 DEF Serve!CheckPath
<1>. HIDE DEF p, k
<1>3. /\ task[<<p, k>>].pc = "check" /\ proc[p] \in Running /\ (k = 0 => proc[p] = "up")
      /\ UNCHANGED <<proc, bound, server, control, listening, file, older, overlapped>>
  BY <1>1 DEF Serve!CheckPath, Serve!At, ServeInv, Living, Lives, p
<1>4. /\ task' \in [Procs \X Slot -> [pc : Pc, port : Ports]]
      /\ \A q \in Procs, s \in Slot :
           /\ task'[<<q, s>>].pc = IF q = p /\ s = k THEN pc ELSE task[<<q, s>>].pc
           /\ task'[<<q, s>>].port = task[<<q, s>>].port
  <2>1. pc \in Pc
    BY <1>2 DEF Pc
  <2>2. Serve!Goto(<<p, k>>, pc) /\ ServeType
    BY <1>2 DEF ServeInv
  <2>3. Gone(p, k, pc)
    BY <1>1, <2>1, <2>2, GotoEffect
  <2>. QED BY <2>3 DEF Gone
<1>5. ServeType'
  BY <1>1, <1>3, <1>4 DEF ServeInv, ServeType
<1>6. Living'
  <2>1. Living /\ UNCHANGED <<proc, older>> /\ Silent(p)
    BY <1>1, <1>3 DEF ServeInv, ServeType, Silent
  <2>2. Gone(p, k, pc)
    BY <1>4 DEF Gone
  <2>. QED BY <1>1, <1>3, <2>1, <2>2, LivingKept
<1>7. Starting'
  <2>. SUFFICES ASSUME NEW q \in Procs PROVE StartOK(q)'
    BY DEF Starting
  <2>1. StartOK(q)
    BY DEF ServeInv, Starting
  <2>2. ASSUME NEW n \in Ports PROVE file'[n] \in {file[n], None}
    BY <1>1, <1>3 DEF ServeInv, ServeType
  <2>3. CASE q # p
    BY <1>1, <1>3, <1>4, <2>1, <2>2, <2>3, NoneAssumption DEF ServeInv, ServeType, StartOK
  <2>4. CASE q = p /\ k # 0
    BY <1>1, <1>3, <1>4, <2>1, <2>4 DEF StartOK
  <2>5. CASE q = p /\ k = 0
    <3>1. ASSUME pc = "listen" PROVE file[control[p]] \notin older[p]
      <4>1. control[p] \in Ports /\ control[p] # None
        BY <1>1, <1>3, <2>1, <2>5, NoneAssumption DEF StartOK, Ports
      <4>2. CASE file[control[p]] = None
        BY <1>1, <4>2, NoneAssumption DEF ServeInv, ServeType
      <4>3. CASE Serve!Answers(control[p])
        BY <1>1, <4>1, <4>3, NoneAssumption
        DEF ServeInv, ServeType, Living, Lives, Running, Serve!Answers
      <4>. QED BY <1>2, <3>1, <4>2, <4>3
    <3>. QED BY <1>1, <1>2, <1>3, <1>4, <2>1, <2>5, <3>1 DEF StartOK
  <2>. QED BY <2>3, <2>4, <2>5
<1>8. Serving'
  BY <1>1, <1>2, <1>3, <1>4 DEF ServeInv, Serving, ServerOK, Looking
<1>9. Relistening'
  <2>1. ASSUME NEW q \in Procs, q # p PROVE PathOK(q)'
    <3>1. Untouched(q)
      BY <1>1, <1>3, <1>4, <2>1 DEF ServeInv, ServeType, Untouched
    <3>. QED BY <3>1, PathKept DEF ServeInv, Relistening
  <2>2. ASSUME p \notin overlapped, proc[p] = "up" PROVE Alone(p)'
    <3>1. PathOK(p)
      BY <1>1 DEF ServeInv, Relistening
    <3>2. Alone(p)
      BY <2>2, <3>1 DEF PathOK
    <3>3. \A s \in Slot : s # k => task[<<p, s>>].pc = "none"
      BY <1>1, <1>3, <3>2 DEF Alone
    <3>4. \A s \in Slot : s # k => task'[<<p, s>>].pc = "none"
      BY <1>1, <1>4, <3>3
    <3>. QED BY <3>4 DEF Alone
  <2>3. ASSUME p \notin overlapped, proc[p] = "up", NEW s \in Slot PROVE Carries(p, s)'
    <3>1. PathOK(p) /\ ServeType
      BY <1>1 DEF ServeInv, Relistening
    <3>2. CASE s # k
      BY <1>1, <1>3, <1>4, <2>3, <3>1, <3>2 DEF PathOK, Alone, Carries
    <3>3. CASE s = k
      BY <1>1, <1>2, <1>3, <1>4, <2>3, <3>1, <3>3 DEF PathOK, Carries, ServeType
    <3>. QED BY <3>2, <3>3
  <2>4. ASSUME p \notin overlapped, proc[p] = "up", \A s \in Slot : task'[<<p, s>>].pc = "none"
        PROVE  control'[p] = server'[p] /\ listening'[p] = control'[p]
    BY <1>1, <1>2, <1>3, <1>4, <2>4 DEF ServeInv, ServeType, Relistening, PathOK, Carries
  <2>5. PathOK(p)'
    BY <1>3, <2>2, <2>3, <2>4 DEF PathOK
  <2>. QED BY <2>1, <2>5 DEF Relistening
<1>. QED BY <1>5, <1>6, <1>7, <1>8, <1>9 DEF ServeInv

\* It is removed.
LEMMA RemoveStaleStep ==
  ASSUME ServeInv, NEW t \in Serve!Tasks, Serve!RemoveStale(t)
  PROVE  ServeInv'
<1>. DEFINE p == t[1]
            k == t[2]
<1>1. p \in Procs /\ k \in Slot /\ t = <<p, k>> /\ 0 \in Slot
  BY TaskOf
<1>2. PICK pc \in {"listen"} : Serve!Goto(<<p, k>>, pc)
  BY <1>1 DEF Serve!RemoveStale
<1>. HIDE DEF p, k
<1>3. /\ task[<<p, k>>].pc = "remove" /\ proc[p] \in Running /\ (k = 0 => proc[p] = "up")
      /\ file' = [file EXCEPT ![control[p]] = None]
      /\ UNCHANGED <<proc, bound, server, control, listening, older, overlapped>>
  BY <1>1 DEF Serve!RemoveStale, Serve!At, ServeInv, Living, Lives, p
<1>4. /\ task' \in [Procs \X Slot -> [pc : Pc, port : Ports]]
      /\ \A q \in Procs, s \in Slot :
           /\ task'[<<q, s>>].pc = IF q = p /\ s = k THEN pc ELSE task[<<q, s>>].pc
           /\ task'[<<q, s>>].port = task[<<q, s>>].port
  <2>1. pc \in Pc
    BY <1>2 DEF Pc
  <2>2. Serve!Goto(<<p, k>>, pc) /\ ServeType
    BY <1>2 DEF ServeInv
  <2>3. Gone(p, k, pc)
    BY <1>1, <2>1, <2>2, GotoEffect
  <2>. QED BY <2>3 DEF Gone
<1>5. ServeType'
  BY <1>1, <1>3, <1>4 DEF ServeInv, ServeType
<1>6. Living'
  <2>1. Living /\ UNCHANGED <<proc, older>> /\ Silent(p)
    BY <1>1, <1>3 DEF ServeInv, ServeType, Silent
  <2>2. Gone(p, k, pc)
    BY <1>4 DEF Gone
  <2>. QED BY <1>1, <1>3, <2>1, <2>2, LivingKept
<1>7. Starting'
  <2>. SUFFICES ASSUME NEW q \in Procs PROVE StartOK(q)'
    BY DEF Starting
  <2>1. StartOK(q)
    BY DEF ServeInv, Starting
  <2>2. ASSUME NEW n \in Ports PROVE file'[n] \in {file[n], None}
    BY <1>1, <1>3 DEF ServeInv, ServeType
  <2>3. CASE q # p
    BY <1>1, <1>3, <1>4, <2>1, <2>2, <2>3, NoneAssumption DEF ServeInv, ServeType, StartOK
  <2>4. CASE q = p /\ k # 0
    BY <1>1, <1>3, <1>4, <2>1, <2>4 DEF StartOK
  <2>5. CASE q = p /\ k = 0
    BY <1>1, <1>2, <1>3, <1>4, <2>1, <2>2, <2>5, NoneAssumption DEF ServeInv, ServeType, StartOK
  <2>. QED BY <2>3, <2>4, <2>5
<1>8. Serving'
  BY <1>1, <1>2, <1>3, <1>4 DEF ServeInv, Serving, ServerOK, Looking
<1>9. Relistening'
  <2>1. ASSUME NEW q \in Procs, q # p PROVE PathOK(q)'
    <3>1. Untouched(q)
      BY <1>1, <1>3, <1>4, <2>1 DEF ServeInv, ServeType, Untouched
    <3>. QED BY <3>1, PathKept DEF ServeInv, Relistening
  <2>2. ASSUME p \notin overlapped, proc[p] = "up" PROVE Alone(p)'
    <3>1. PathOK(p)
      BY <1>1 DEF ServeInv, Relistening
    <3>2. Alone(p)
      BY <2>2, <3>1 DEF PathOK
    <3>3. \A s \in Slot : s # k => task[<<p, s>>].pc = "none"
      BY <1>1, <1>3, <3>2 DEF Alone
    <3>4. \A s \in Slot : s # k => task'[<<p, s>>].pc = "none"
      BY <1>1, <1>4, <3>3
    <3>. QED BY <3>4 DEF Alone
  <2>3. ASSUME p \notin overlapped, proc[p] = "up", NEW s \in Slot PROVE Carries(p, s)'
    <3>1. PathOK(p) /\ ServeType
      BY <1>1 DEF ServeInv, Relistening
    <3>2. CASE s # k
      BY <1>1, <1>3, <1>4, <2>3, <3>1, <3>2 DEF PathOK, Alone, Carries
    <3>3. CASE s = k
      BY <1>1, <1>2, <1>3, <1>4, <2>3, <3>1, <3>3 DEF PathOK, Carries, ServeType
    <3>. QED BY <3>2, <3>3
  <2>4. ASSUME p \notin overlapped, proc[p] = "up", \A s \in Slot : task'[<<p, s>>].pc = "none"
        PROVE  control'[p] = server'[p] /\ listening'[p] = control'[p]
    BY <1>1, <1>2, <1>3, <1>4, <2>4 DEF ServeInv, ServeType, Relistening, PathOK, Carries
  <2>5. PathOK(p)'
    BY <1>3, <2>2, <2>3, <2>4 DEF PathOK
  <2>. QED BY <2>1, <2>5 DEF Relistening
<1>. QED BY <1>5, <1>6, <1>7, <1>8, <1>9 DEF ServeInv

\* The process listens.
LEMMA ListenStep ==
  ASSUME ServeInv, NEW t \in Serve!Tasks, Serve!Listen(t)
  PROVE  ServeInv'
<1>. DEFINE p == t[1]
            k == t[2]
<1>1. p \in Procs /\ k \in Slot /\ t = <<p, k>> /\ 0 \in Slot
  BY TaskOf
<1>2. PICK pc \in {"none"} : Serve!Goto(<<p, k>>, pc)
  BY <1>1 DEF Serve!Listen
<1>. HIDE DEF p, k
<1>3. /\ task[<<p, k>>].pc = "listen" /\ proc[p] \in Running /\ (k = 0 => proc[p] = "up")
      /\ listening[p] = None
      /\ file' = [file EXCEPT ![control[p]] = p]
      /\ listening' = [listening EXCEPT ![p] = control[p]]
      /\ UNCHANGED <<proc, bound, server, control, older, overlapped>>
  BY <1>1 DEF Serve!Listen, Serve!At, ServeInv, Living, Lives, p
<1>4. /\ task' \in [Procs \X Slot -> [pc : Pc, port : Ports]]
      /\ \A q \in Procs, s \in Slot :
           /\ task'[<<q, s>>].pc = IF q = p /\ s = k THEN pc ELSE task[<<q, s>>].pc
           /\ task'[<<q, s>>].port = task[<<q, s>>].port
  <2>1. pc \in Pc
    BY <1>2 DEF Pc
  <2>2. Serve!Goto(<<p, k>>, pc) /\ ServeType
    BY <1>2 DEF ServeInv
  <2>3. Gone(p, k, pc)
    BY <1>1, <2>1, <2>2, GotoEffect
  <2>. QED BY <2>3 DEF Gone
<1>5. ServeType'
  BY <1>1, <1>3, <1>4 DEF ServeInv, ServeType
<1>6. Living'
  <2>1. Living /\ UNCHANGED <<proc, older>> /\ Silent(p)
    BY <1>1, <1>3 DEF ServeInv, ServeType, Silent
  <2>2. Gone(p, k, pc)
    BY <1>4 DEF Gone
  <2>. QED BY <1>1, <1>3, <2>1, <2>2, LivingKept
<1>7. Starting'
  <2>. SUFFICES ASSUME NEW q \in Procs PROVE StartOK(q)'
    BY DEF Starting
  <2>1. StartOK(q)
    BY DEF ServeInv, Starting
  <2>2. ASSUME NEW n \in Ports PROVE file'[n] \in {file[n], None, p}
    BY <1>1, <1>3 DEF ServeInv, ServeType
  <2>3. CASE q # p
    <3>1. p \notin older[q]
      BY <1>1, <1>3 DEF ServeInv, Living, Lives, Running
    <3>. QED BY <1>1, <1>3, <1>4, <2>1, <2>2, <2>3, <3>1, NoneAssumption DEF ServeInv, ServeType, StartOK
  <2>4. CASE q = p /\ k # 0
    BY <1>1, <1>3, <1>4, <2>1, <2>4 DEF StartOK
  <2>5. CASE q = p /\ k = 0
    BY <1>1, <1>2, <1>3, <1>4, <2>1, <2>2, <2>5, NoneAssumption DEF ServeInv, ServeType, StartOK
  <2>. QED BY <2>3, <2>4, <2>5
<1>8. Serving'
  BY <1>1, <1>2, <1>3, <1>4 DEF ServeInv, Serving, ServerOK, Looking
<1>9. Relistening'
  <2>1. ASSUME NEW q \in Procs, q # p PROVE PathOK(q)'
    <3>1. Untouched(q)
      BY <1>1, <1>3, <1>4, <2>1 DEF ServeInv, ServeType, Untouched
    <3>. QED BY <3>1, PathKept DEF ServeInv, Relistening
  <2>2. ASSUME p \notin overlapped, proc[p] = "up" PROVE Alone(p)'
    <3>1. PathOK(p)
      BY <1>1 DEF ServeInv, Relistening
    <3>2. Alone(p)
      BY <2>2, <3>1 DEF PathOK
    <3>3. \A s \in Slot : s # k => task[<<p, s>>].pc = "none"
      BY <1>1, <1>3, <3>2 DEF Alone
    <3>4. \A s \in Slot : s # k => task'[<<p, s>>].pc = "none"
      BY <1>1, <1>4, <3>3
    <3>. QED BY <3>4 DEF Alone
  <2>3. ASSUME p \notin overlapped, proc[p] = "up", NEW s \in Slot PROVE Carries(p, s)'
    <3>1. PathOK(p) /\ ServeType
      BY <1>1 DEF ServeInv, Relistening
    <3>2. CASE s # k
      BY <1>1, <1>3, <1>4, <2>3, <3>1, <3>2 DEF PathOK, Alone, Carries
    <3>3. CASE s = k
      BY <1>1, <1>2, <1>3, <1>4, <2>3, <3>1, <3>3 DEF PathOK, Carries, ServeType
    <3>. QED BY <3>2, <3>3
  <2>4. ASSUME p \notin overlapped, proc[p] = "up", \A s \in Slot : task'[<<p, s>>].pc = "none"
        PROVE  control'[p] = server'[p] /\ listening'[p] = control'[p]
    BY <1>1, <1>2, <1>3, <1>4, <2>4 DEF ServeInv, ServeType, Relistening, PathOK, Carries
  <2>5. PathOK(p)'
    BY <1>3, <2>2, <2>3, <2>4 DEF PathOK
  <2>. QED BY <2>1, <2>5 DEF Relistening
<1>. QED BY <1>5, <1>6, <1>7, <1>8, <1>9 DEF ServeInv

\* A process is over: nothing of it counts any more, and files at most go.
LEMMA EndsStep ==
  ASSUME ServeInv, NEW p \in Procs, proc[p] \in Running,
         NEW files \in [Ports -> Procs \cup {None}], \A n \in Ports : files[n] \in {file[n], None},
         Serve!Ends(p, files)
  PROVE  ServeInv'
<1>0. 0 \in Slot
  BY ServeBounds DEF Slot
<1>1. /\ proc' = [proc EXCEPT ![p] = "gone"] /\ listening' = [listening EXCEPT ![p] = None]
      /\ file' = files /\ UNCHANGED <<server, control, older, overlapped>>
  BY DEF Serve!Ends
<1>2. /\ task' \in [Procs \X Slot -> [pc : Pc, port : Ports]]
      /\ \A q \in Procs \ {p}, s \in Slot : task'[<<q, s>>] = task[<<q, s>>]
  <2>1. task' = [t \in Procs \X Slot |-> IF t[1] = p THEN Serve!NoTask ELSE task[t]]
    BY DEF Serve!Ends, Serve!Tasks, Slot
  <2>2. Serve!NoTask \in [pc : Pc, port : Ports]
    BY ServeBounds DEF Serve!NoTask, Pc, Ports
  <2>. QED BY <2>1, <2>2 DEF ServeInv, ServeType
<1>3. bound' = [n \in Ports |-> IF bound[n] = p THEN None ELSE bound[n]]
  BY DEF Serve!Ends, Serve!Ports, Ports
<1>4. ServeType'
  BY <1>1, <1>2, <1>3 DEF ServeInv, ServeType
<1>5. Living'
  <2>1. \A s \in Slot : task'[<<p, s>>].pc = "none"
    BY DEF Serve!Ends, Serve!Tasks, Serve!NoTask, Slot
  <2>2. ASSUME NEW q \in Procs PROVE Lives(q)'
    <3>1. Lives(q)
      BY DEF ServeInv, Living
    <3>2. \A o \in older[q] : proc'[o] = "gone"
      BY <1>1, <3>1 DEF ServeInv, ServeType, Lives
    <3>3. CASE q = p
      BY <1>0, <1>1, <2>1, <3>2, <3>3 DEF ServeInv, ServeType, Lives
    <3>4. CASE q # p
      BY <1>0, <1>1, <1>2, <3>1, <3>2, <3>4 DEF ServeInv, ServeType, Lives
    <3>. QED BY <3>3, <3>4
  <2>. QED BY <2>2 DEF Living
<1>6. ASSUME NEW q \in Procs, q # p PROVE Untouched(q)
  BY <1>1, <1>2, <1>6 DEF ServeInv, ServeType, Untouched
<1>7. Starting'
  <2>. SUFFICES ASSUME NEW q \in Procs PROVE StartOK(q)'
    BY DEF Starting
  <2>1. StartOK(q)
    BY DEF ServeInv, Starting
  <2>2. CASE q = p
    BY <1>1, <2>2 DEF ServeInv, ServeType, StartOK
  <2>3. CASE q # p
    BY <1>0, <1>1, <1>6, <2>1, <2>3, NoneAssumption DEF ServeInv, ServeType, StartOK, Untouched
  <2>. QED BY <2>2, <2>3
<1>8. Serving'
  <2>. SUFFICES ASSUME NEW q \in Procs, proc'[q] \in Running, task'[<<q, 0>>].pc \notin Looking
                PROVE  /\ server'[q] \in Ports
                       /\ proc'[q] = "up" /\ (\A s \in Slot : task'[<<q, s>>].pc \notin Looking) =>
                            bound'[server'[q]] = q
    BY DEF Serving, ServerOK
  <2>1. q # p
    BY <1>1 DEF ServeInv, ServeType, Running
  <2>2. /\ server'[q] = server[q] /\ server[q] \in Ports
        /\ proc'[q] = "up" /\ (\A s \in Slot : task'[<<q, s>>].pc \notin Looking) => bound[server[q]] = q
    BY <1>0, <1>6, <2>1 DEF ServeInv, Serving, ServerOK, Untouched
  <2>. QED BY <1>3, <2>1, <2>2
<1>9. Relistening'
  <2>1. ASSUME NEW q \in Procs, q # p PROVE PathOK(q)'
    BY <1>6, <2>1, PathKept DEF ServeInv, Relistening
  <2>2. PathOK(p)'
    BY <1>1 DEF ServeInv, ServeType, PathOK
  <2>. QED BY <2>1, <2>2 DEF Relistening
<1>. QED BY <1>4, <1>5, <1>7, <1>8, <1>9 DEF ServeInv

\* A process that shuts down, up to its first await, while the task of another goes on
\* with pc or none does.
LEMMA ShutdownStep ==
  ASSUME ServeInv, NEW p \in Procs, proc[p] \in Running, task[<<p, 0>>].pc = "none", Serve!Shutdown(p),
         UNCHANGED <<server, control, older, overlapped>>,
         task' \in [Procs \X Slot -> [pc : Pc, port : Ports]],
         \A q \in Procs, s \in Slot :
           \/ task'[<<q, s>>] = task[<<q, s>>]
           \/ /\ task[<<q, s>>].pc = "stop" /\ task'[<<q, s>>].pc = "serve"
              /\ task'[<<q, s>>].port = task[<<q, s>>].port
  PROVE  ServeInv'
<1>0. 0 \in Slot
  BY ServeBounds DEF Slot
<1>1. /\ proc' \in [Procs -> {"off", "up", "stopping", "exiting", "gone"}]
      /\ proc'[p] \in {"stopping", "exiting"} /\ \A q \in Procs : q # p => proc'[q] = proc[q]
      /\ listening' = [listening EXCEPT ![p] = None]
      /\ file' \in [Ports -> Procs \cup {None}] /\ \A n \in Ports : file'[n] \in {file[n], None}
      /\ bound' \in [Ports -> Procs \cup {None}]
      /\ \A n \in Ports : bound[n] # p => bound'[n] = bound[n]
  BY DEF Serve!Shutdown, Serve!Ports, Ports, ServeInv, ServeType, Running
<1>2. ServeType'
  BY <1>1 DEF ServeInv, ServeType
<1>3. Living'
  <2>. SUFFICES ASSUME NEW q \in Procs PROVE Lives(q)'
    BY DEF Living
  <2>1. /\ Lives(q) /\ listening'[q] \in {listening[q], None}
        /\ \A s \in Slot : task'[<<q, s>>].pc # "none" => task[<<q, s>>].pc # "none"
    BY <1>1 DEF ServeInv, ServeType, Living
  <2>2. \A o \in older[q] : proc'[o] = "gone"
    BY <1>1, <2>1 DEF ServeInv, ServeType, Lives, Running
  <2>3. proc[q] \in Running => proc'[q] \in Running
    BY <1>1 DEF Running
  <2>. QED BY <1>0, <1>1, <2>1, <2>2, <2>3 DEF Lives
<1>4. Starting'
  <2>. SUFFICES ASSUME NEW q \in Procs PROVE StartOK(q)'
    BY DEF Starting
  <2>1. StartOK(q)
    BY DEF ServeInv, Starting
  <2>2. CASE q = p
    BY <1>1, <2>2 DEF ServeInv, ServeType, StartOK
  <2>3. CASE q # p
    <3>1. proc'[q] = proc[q] /\ listening'[q] = listening[q]
      BY <1>1, <2>3 DEF ServeInv, ServeType
    <3>2. /\ \/ task'[<<q, 0>>].pc = task[<<q, 0>>].pc
             \/ task[<<q, 0>>].pc = "stop" /\ task'[<<q, 0>>].pc = "serve"
          /\ \A s \in Slot \ {0} : task[<<q, s>>].pc = "none" => task'[<<q, s>>].pc = "none"
      BY <1>0
    <3>3. ASSUME control[q] \in Ports, file[control[q]] \notin older[q]
          PROVE  file'[control[q]] \notin older[q]
      BY <1>1, <3>3, NoneAssumption DEF ServeInv, ServeType
    <3>. QED BY <2>1, <3>1, <3>2, <3>3 DEF StartOK
  <2>. QED BY <2>2, <2>3
<1>5. Serving'
  <2>. SUFFICES ASSUME NEW q \in Procs, proc'[q] \in Running, task'[<<q, 0>>].pc \notin Looking
                PROVE  /\ server'[q] \in Ports
                       /\ proc'[q] = "up" /\ (\A s \in Slot : task'[<<q, s>>].pc \notin Looking) =>
                            bound'[server'[q]] = q
    BY DEF Serving, ServerOK
  <2>1. /\ proc[q] \in Running /\ (proc'[q] = "up" => proc[q] = "up" /\ q # p)
    BY <1>1 DEF Running
  <2>2. task[<<q, 0>>].pc \notin Looking
    BY <1>0 DEF Looking
  <2>3. (\A s \in Slot : task'[<<q, s>>].pc \notin Looking) =>
             \A s \in Slot : task[<<q, s>>].pc \notin Looking
    BY DEF Looking
  <2>4. ServerOK(q) /\ server'[q] = server[q]
    BY DEF ServeInv, Serving
  <2>. QED BY <1>1, <2>1, <2>2, <2>3, <2>4 DEF ServerOK
<1>6. Relistening'
  <2>. SUFFICES ASSUME NEW q \in Procs, q # p PROVE PathOK(q)'
    BY <1>1 DEF ServeInv, ServeType, Relistening, PathOK
  <2>1. PathOK(q) /\ proc'[q] = proc[q] /\ listening'[q] = listening[q]
    BY <1>1 DEF ServeInv, ServeType, Relistening
  <2>2. Alone(q) => Alone(q)'
    BY DEF Alone
  <2>3. \A s \in Slot : Carries(q, s) => Carries(q, s)'
    BY <2>1 DEF Carries
  <2>. QED BY <2>1, <2>2, <2>3 DEF PathOK
<1>. QED BY <1>2, <1>3, <1>4, <1>5, <1>6 DEF ServeInv

\* Stopping by a command or a signal.
LEMMA StopStep ==
  ASSUME ServeInv, NEW p \in Procs, Serve!Stop(p)
  PROVE  ServeInv'
<1>1. /\ proc[p] \in Running /\ task[<<p, 0>>].pc = "none" /\ Serve!Shutdown(p)
      /\ UNCHANGED <<task, server, control, older, overlapped>>
  BY DEF Serve!Stop, Running
<1>2. task' \in [Procs \X Slot -> [pc : Pc, port : Ports]]
  BY <1>1 DEF ServeInv, ServeType
<1>. QED BY <1>1, <1>2, ShutdownStep

\* The death of a process, which leaves every file where it is.
LEMMA ExitStep ==
  ASSUME ServeInv, NEW p \in Procs, proc[p] \in Running, Serve!Ends(p, file)
  PROVE  ServeInv'
BY EndsStep DEF ServeInv, ServeType

\* A file that goes while the process shuts down, the cleanup and its end.
LEMMA CleanupStep ==
  ASSUME ServeInv, NEW p \in Procs, Serve!Cleanup(p)
  PROVE  ServeInv'
<1>0. 0 \in Slot /\ proc[p] = "stopping"
  BY ServeBounds DEF Slot, Serve!Cleanup
<1>1. CASE Serve!Ends(p, file)
  BY <1>0, <1>1, ExitStep DEF Running
<1>2. CASE /\ file' = [file EXCEPT ![control[p]] = None]
           /\ proc' = [proc EXCEPT ![p] = "exiting"]
           /\ UNCHANGED <<task, bound, server, control, listening, older, overlapped>>
  <2>1. ServeType' /\ \A n \in Ports : file'[n] \in {file[n], None}
    BY <1>2 DEF ServeInv, ServeType
  <2>2. ASSUME NEW q \in Procs, q # p PROVE Untouched(q)
    BY <1>2, <2>2 DEF ServeInv, ServeType, Untouched
  <2>3. proc'[p] = "exiting"
    BY <1>2 DEF ServeInv, ServeType
  <2>4. Living'
    <3>. SUFFICES ASSUME NEW q \in Procs PROVE Lives(q)'
      BY DEF Living
    <3>1. Lives(q) /\ Lives(p)
      BY DEF ServeInv, Living
    <3>2. \A o \in older[q] : proc'[o] = "gone"
      BY <1>0, <1>2, <3>1 DEF ServeInv, ServeType, Lives
    <3>3. CASE q = p
      BY <1>0, <1>2, <2>3, <3>1, <3>2, <3>3 DEF Lives, Running
    <3>4. CASE q # p
      BY <1>2, <2>2, <3>1, <3>2, <3>4 DEF Lives, Untouched
    <3>. QED BY <3>3, <3>4
  <2>5. Starting'
    <3>1. StartOK(p)'
      BY <2>3 DEF StartOK
    <3>2. ASSUME NEW q \in Procs, q # p PROVE StartOK(q)'
      BY <1>0, <1>2, <2>1, <2>2, <3>2, StartKept DEF ServeInv, Starting
    <3>. QED BY <3>1, <3>2 DEF Starting
  <2>6. Serving'
    <3>. SUFFICES ASSUME NEW q \in Procs PROVE ServerOK(q)'
      BY DEF Serving
    <3>1. ServerOK(q) /\ (proc'[q] \in Running => proc[q] \in Running) /\ (proc'[q] = "up" => proc[q] = "up")
      BY <1>0, <1>2, <2>3 DEF ServeInv, ServeType, Serving, Running
    <3>. QED BY <1>2, <3>1 DEF ServerOK
  <2>7. Relistening'
    <3>1. PathOK(p)'
      BY <2>3 DEF PathOK
    <3>2. ASSUME NEW q \in Procs, q # p PROVE PathOK(q)'
      BY <2>2, <3>2, PathKept DEF ServeInv, Relistening
    <3>. QED BY <3>1, <3>2 DEF Relistening
  <2>. QED BY <2>1, <2>4, <2>5, <2>6, <2>7 DEF ServeInv
<1>. QED BY <1>1, <1>2 DEF Serve!Cleanup

\* Asking an older instance, which runs and has started because it answers.
LEMMA AskToStopStep ==
  ASSUME ServeInv, NEW t \in Serve!Tasks, Serve!AskToStop(t)
  PROVE  ServeInv'
<1>. DEFINE p == t[1]
            k == t[2]
<1>1. p \in Procs /\ k \in Slot /\ t = <<p, k>> /\ 0 \in Slot
  BY TaskOf
<1>2. /\ Serve!Goto(<<p, k>>, "serve") /\ UNCHANGED <<server, control, older, overlapped>>
      /\ task[<<p, k>>].pc = "stop"
      /\ \/ Serve!Answers(task[<<p, k>>].port) /\ Serve!Shutdown(file[task[<<p, k>>].port])
         \/ UNCHANGED <<proc, bound, listening, file>>
  BY <1>1 DEF Serve!AskToStop, Serve!At
<1>. HIDE DEF p, k
<1>3. /\ task' \in [Procs \X Slot -> [pc : Pc, port : Ports]]
      /\ \A q \in Procs, s \in Slot :
           /\ task'[<<q, s>>].pc = IF q = p /\ s = k THEN "serve" ELSE task[<<q, s>>].pc
           /\ task'[<<q, s>>].port = task[<<q, s>>].port
  <2>1. "serve" \in Pc
    BY DEF Pc
  <2>2. ServeType
    BY DEF ServeInv
  <2>3. Gone(p, k, "serve")
    BY <1>1, <1>2, <2>1, <2>2, GotoEffect
  <2>. QED BY <2>3 DEF Gone
<1>4. \A q \in Procs, s \in Slot :
           \/ task'[<<q, s>>] = task[<<q, s>>]
           \/ /\ task[<<q, s>>].pc = "stop" /\ task'[<<q, s>>].pc = "serve"
              /\ task'[<<q, s>>].port = task[<<q, s>>].port
  <2>1. \A q \in Procs, s \in Slot : <<q, s>> # <<p, k>> => task'[<<q, s>>] = task[<<q, s>>]
    BY <1>1, <1>2 DEF Serve!Goto, ServeInv, ServeType
  <2>. QED BY <1>1, <1>2, <1>3, <2>1
<1>5. CASE Serve!Answers(task[<<p, k>>].port) /\ Serve!Shutdown(file[task[<<p, k>>].port])
  <2>1. task[<<p, k>>].port \in Ports
    BY <1>1 DEF ServeInv, ServeType
  <2>2. PICK q \in Procs : file[task[<<p, k>>].port] = q
    BY <1>5, <2>1 DEF Serve!Answers, ServeInv, ServeType
  <2>3. listening[q] # None
    BY <1>5, <2>1, <2>2, NoneAssumption DEF Serve!Answers, Ports
  <2>4. proc[q] \in Running /\ task[<<q, 0>>].pc = "none"
    <3>1. Lives(q) /\ StartOK(q)
      BY DEF ServeInv, Living, Starting
    <3>. QED BY <1>1, <2>3, <3>1 DEF Lives, StartOK
  <2>. QED BY <1>2, <1>3, <1>4, <1>5, <2>2, <2>4, ShutdownStep
<1>6. CASE UNCHANGED <<proc, bound, listening, file>>
  <2>1. ServeType'
    BY <1>2, <1>3, <1>6 DEF ServeInv, ServeType
  <2>2. Living'
    <3>1. \A q \in Procs, s \in Slot : task'[<<q, s>>].pc # "none" => task[<<q, s>>].pc # "none"
      BY <1>4
    <3>2. ASSUME NEW q \in Procs PROVE Lives(q)'
      BY <1>2, <1>6, <3>1 DEF ServeInv, Living, Lives
    <3>. QED BY <3>2 DEF Living
  <2>3. Starting'
    <3>. SUFFICES ASSUME NEW q \in Procs PROVE StartOK(q)'
      BY DEF Starting
    <3>1. StartOK(q)
      BY DEF ServeInv, Starting
    <3>. QED BY <1>1, <1>2, <1>4, <1>6, <3>1 DEF StartOK
  <2>4. Serving'
    <3>. SUFFICES ASSUME NEW q \in Procs PROVE ServerOK(q)'
      BY DEF Serving
    <3>1. ServerOK(q)
      BY DEF ServeInv, Serving
    <3>. QED BY <1>1, <1>2, <1>4, <1>6, <3>1 DEF ServerOK, Looking
  <2>5. Relistening'
    <3>. SUFFICES ASSUME NEW q \in Procs PROVE PathOK(q)'
      BY DEF Relistening
    <3>1. PathOK(q)
      BY DEF ServeInv, Relistening
    <3>2. Alone(q) => Alone(q)'
      BY <1>4 DEF Alone
    <3>3. \A s \in Slot : Carries(q, s) => Carries(q, s)'
      BY <1>2, <1>4, <1>6 DEF Carries
    <3>. QED BY <1>2, <1>4, <1>6, <3>1, <3>2, <3>3 DEF PathOK
  <2>. QED BY <2>1, <2>2, <2>3, <2>4, <2>5 DEF ServeInv
<1>. QED BY <1>2, <1>5, <1>6

\* A process begins.
LEMMA StartStep ==
  ASSUME ServeInv, NEW p \in Procs, Serve!Start(p)
  PROVE  ServeInv'
<1>0. 0 \in Slot
  BY ServeBounds DEF Slot
<1>1. /\ proc[p] = "off" /\ proc' = [proc EXCEPT ![p] = "up"]
      /\ task' = [task EXCEPT ![<<p, 0>>] = [pc |-> "probe", port |-> 1]]
      /\ older' = [older EXCEPT ![p] = {q \in Procs : proc[q] = "gone"}]
      /\ UNCHANGED <<bound, server, control, listening, file, overlapped>>
  BY DEF Serve!Start
<1>2. /\ task' \in [Procs \X Slot -> [pc : Pc, port : Ports]]
      /\ task'[<<p, 0>>].pc = "probe"
      /\ \A s \in Slot \ {0} : task'[<<p, s>>].pc = "none"
  <2>1. [pc |-> "probe", port |-> 1] \in [pc : Pc, port : Ports]
    BY ServeBounds DEF Pc, Ports
  <2>2. \A s \in Slot : task[<<p, s>>].pc = "none"
    BY <1>1 DEF ServeInv, Living, Lives, Running
  <2>. QED BY <1>0, <1>1, <2>1, <2>2 DEF ServeInv, ServeType
<1>3. listening[p] = None
  BY <1>1 DEF ServeInv, Living, Lives, Running
<1>4. ASSUME NEW q \in Procs, q # p PROVE Untouched(q) /\ older'[q] = older[q]
  BY <1>1, <1>4 DEF ServeInv, ServeType, Untouched
<1>5. ServeType'
  BY <1>1, <1>2 DEF ServeInv, ServeType
<1>6. Living'
  <2>. SUFFICES ASSUME NEW q \in Procs PROVE Lives(q)'
    BY DEF Living
  <2>1. \A o \in older'[q] : o \in Procs /\ proc[o] = "gone"
    BY <1>1 DEF ServeInv, ServeType, Living, Lives
  <2>2. \A o \in older'[q] : proc'[o] = "gone"
    BY <1>1, <2>1 DEF ServeInv, ServeType
  <2>3. CASE q = p
    <3>1. proc'[p] = "up"
      BY <1>1 DEF ServeInv, ServeType
    <3>. QED BY <2>2, <2>3, <3>1 DEF Lives, Running
  <2>4. CASE q # p
    BY <1>4, <2>2, <2>4 DEF ServeInv, Living, Lives, Untouched
  <2>. QED BY <2>3, <2>4
<1>7. Starting'
  <2>1. StartOK(p)'
    BY <1>1, <1>2, <1>3 DEF StartOK
  <2>2. ASSUME NEW q \in Procs, q # p PROVE StartOK(q)'
    BY <1>0, <1>1, <1>4, <2>2 DEF ServeInv, Starting, StartOK, Untouched
  <2>. QED BY <2>1, <2>2 DEF Starting
<1>8. Serving'
  BY <1>0, <1>1, <1>2, <1>4 DEF ServeInv, Serving, ServerOK, Looking, Untouched
<1>9. Relistening'
  <2>1. PathOK(p)'
    <3>1. Alone(p)'
      BY <1>2 DEF Alone
    <3>2. \A s \in Slot : Carries(p, s)'
      BY <1>2 DEF Carries
    <3>. QED BY <1>0, <1>2, <3>1, <3>2 DEF PathOK
  <2>2. ASSUME NEW q \in Procs, q # p PROVE PathOK(q)'
    BY <1>4, <2>2, PathKept DEF ServeInv, Relistening
  <2>. QED BY <2>1, <2>2 DEF Relistening
<1>. QED BY <1>5, <1>6, <1>7, <1>8, <1>9 DEF ServeInv

\* A port that is taken: the next one, or the end of the process.
LEMMA NextPortStep ==
  ASSUME ServeInv, NEW t \in Serve!Tasks, Serve!NextPort(t)
  PROVE  ServeInv'
<1>. DEFINE p == t[1]
            k == t[2]
<1>1. p \in Procs /\ k \in Slot /\ t = <<p, k>> /\ 0 \in Slot
  BY TaskOf
<1>2. /\ task[<<p, k>>].pc = "serve" /\ proc[p] \in Running /\ (k = 0 => proc[p] = "up")
      /\ \/ /\ task[<<p, k>>].port < MaxPort
            /\ task' = [task EXCEPT ![<<p, k>>] = [pc |-> "probe", port |-> task[<<p, k>>].port + 1]]
            /\ UNCHANGED <<proc, bound, server, control, listening, file, older, overlapped>>
         \/ Serve!Ends(p, file)
  BY <1>1 DEF Serve!NextPort, Serve!At, ServeInv, Living, Lives
<1>. HIDE DEF p, k
<1>3. CASE Serve!Ends(p, file)
  BY <1>1, <1>2, <1>3, ExitStep
<1>4. CASE /\ task[<<p, k>>].port < MaxPort
           /\ task' = [task EXCEPT ![<<p, k>>] = [pc |-> "probe", port |-> task[<<p, k>>].port + 1]]
           /\ UNCHANGED <<proc, bound, server, control, listening, file, older, overlapped>>
  <2>1. /\ task' \in [Procs \X Slot -> [pc : Pc, port : Ports]]
        /\ \A q \in Procs, s \in Slot :
             task'[<<q, s>>].pc = IF q = p /\ s = k THEN "probe" ELSE task[<<q, s>>].pc
        /\ \A q \in Procs, s \in Slot : q # p \/ s # k => task'[<<q, s>>] = task[<<q, s>>]
    <3>1. task[<<p, k>>].port \in Ports
      BY <1>1 DEF ServeInv, ServeType
    <3>2. [pc |-> "probe", port |-> task[<<p, k>>].port + 1] \in [pc : Pc, port : Ports]
      BY <1>4, <3>1, ServeBounds DEF Pc, Ports
    <3>. QED BY <1>1, <1>4, <3>2 DEF ServeInv, ServeType
  <2>2. ServeType'
    BY <1>4, <2>1 DEF ServeInv, ServeType
  <2>3. Living'
    BY <1>1, <1>2, <1>4, <2>1 DEF ServeInv, Living, Lives
  <2>4. Starting'
    <3>. SUFFICES ASSUME NEW q \in Procs PROVE StartOK(q)'
      BY DEF Starting
    <3>1. StartOK(q)
      BY DEF ServeInv, Starting
    <3>. QED BY <1>1, <1>2, <1>4, <2>1, <3>1 DEF StartOK
  <2>5. Serving'
    BY <1>1, <1>2, <1>4, <2>1 DEF ServeInv, Serving, ServerOK, Looking
  <2>6. Relistening'
    <3>1. ASSUME NEW q \in Procs, q # p PROVE PathOK(q)'
      <4>1. Untouched(q)
        BY <1>4, <2>1, <3>1 DEF Untouched
      <4>. QED BY <4>1, PathKept DEF ServeInv, Relistening
    <3>2. PathOK(p)
      BY <1>1 DEF ServeInv, Relistening
    <3>3. Alone(p) => Alone(p)'
      BY <1>1, <1>2, <2>1 DEF Alone
    <3>4. \A s \in Slot : Carries(p, s) => Carries(p, s)'
      BY <1>1, <1>2, <1>4, <2>1 DEF Carries
    <3>5. PathOK(p)'
      BY <1>1, <1>4, <2>1, <3>2, <3>3, <3>4 DEF PathOK
    <3>. QED BY <3>1, <3>5 DEF Relistening
  <2>. QED BY <2>2, <2>3, <2>4, <2>5, <2>6 DEF ServeInv
<1>. QED BY <1>2, <1>3, <1>4

\* A listen that fails ends the process.
LEMMA ListenFailsStep ==
  ASSUME ServeInv, NEW t \in Serve!Tasks, Serve!ListenFails(t)
  PROVE  ServeInv'
<1>1. t[1] \in Procs /\ t[2] \in Slot /\ t = <<t[1], t[2]>>
  BY TaskOf
<1>2. task[<<t[1], t[2]>>].pc # "none" /\ Serve!Ends(t[1], file)
  BY <1>1 DEF Serve!ListenFails, Serve!At
<1>3. proc[t[1]] \in Running
  BY <1>1, <1>2 DEF ServeInv, Living, Lives
<1>. QED BY <1>1, <1>2, <1>3, ExitStep

\* A restart begins; if another is under way the process counts as overlapped.
LEMMA RestartStep ==
  ASSUME ServeInv, NEW p \in Procs, NEW k \in Slot, Serve!Restart(p, k)
  PROVE  ServeInv'
<1>0. 0 \in Slot
  BY ServeBounds DEF Slot
<1>1. /\ proc[p] \in Running /\ listening[p] # None
      /\ k # 0 /\ task[<<p, k>>].pc = "none"
      /\ overlapped' = IF proc[p] = "up" /\ \A s \in Slot : task[<<p, s>>].pc = "none"
                       THEN overlapped ELSE overlapped \cup {p}
      /\ bound' = [n \in Ports |-> IF n = server[p] /\ bound[n] = p THEN None ELSE bound[n]]
      /\ task' = [task EXCEPT ![<<p, k>>] = [pc |-> "probe", port |-> server[p]]]
      /\ UNCHANGED <<proc, server, control, listening, file, older>>
  BY DEF Serve!Restart, Serve!Settled, Serve!Alive, Running, Slot, Serve!Ports, Ports
<1>2. task[<<p, 0>>].pc = "none"
  BY <1>0, <1>1 DEF ServeInv, Starting, StartOK, Living, Lives
<1>3. server[p] \in Ports
  BY <1>1, <1>2 DEF ServeInv, Serving, ServerOK, Looking
<1>4. /\ task' \in [Procs \X Slot -> [pc : Pc, port : Ports]]
      /\ task'[<<p, k>>].pc = "probe"
      /\ \A q \in Procs, s \in Slot : q # p \/ s # k => task'[<<q, s>>] = task[<<q, s>>]
  <2>1. [pc |-> "probe", port |-> server[p]] \in [pc : Pc, port : Ports]
    BY <1>3 DEF Pc
  <2>. QED BY <1>1, <2>1 DEF ServeInv, ServeType
<1>5. ASSUME NEW q \in Procs, q # p PROVE Untouched(q)
  BY <1>1, <1>4, <1>5 DEF Untouched
<1>6. ServeType'
  BY <1>1, <1>4 DEF ServeInv, ServeType
<1>7. Living'
  BY <1>1, <1>4 DEF ServeInv, Living, Lives
<1>8. Starting'
  <2>. SUFFICES ASSUME NEW q \in Procs PROVE StartOK(q)'
    BY DEF Starting
  <2>1. StartOK(q)
    BY DEF ServeInv, Starting
  <2>. QED BY <1>0, <1>1, <1>2, <1>4, <2>1 DEF StartOK
<1>9. Serving'
  <2>1. ASSUME NEW q \in Procs, q # p PROVE ServerOK(q)'
    <3>1. ServerOK(q)
      BY DEF ServeInv, Serving
    <3>2. \A n \in Ports : bound[n] = q => bound'[n] = q
      BY <1>1, <2>1
    <3>. QED BY <1>0, <1>5, <2>1, <3>1, <3>2 DEF ServerOK, Untouched
  <2>2. ServerOK(p)'
    BY <1>1, <1>3, <1>4 DEF ServerOK, Looking
  <2>. QED BY <2>1, <2>2 DEF Serving
<1>10. Relistening'
  <2>1. ASSUME NEW q \in Procs, q # p PROVE PathOK(q)'
    BY <1>5, <2>1, PathKept DEF ServeInv, Relistening
  <2>2. ASSUME proc[p] = "up", \A s \in Slot : task[<<p, s>>].pc = "none" PROVE PathOK(p)'
    <3>1. \A s \in Slot \ {k} : task'[<<p, s>>].pc = "none"
      BY <1>4, <2>2
    <3>2. Alone(p)'
      BY <3>1 DEF Alone
    <3>3. ASSUME p \notin overlapped PROVE control'[p] = server'[p] /\ listening'[p] = control'[p]
      BY <1>1, <2>2, <3>3 DEF ServeInv, Relistening, PathOK
    <3>4. ASSUME p \notin overlapped, NEW s \in Slot PROVE Carries(p, s)'
      BY <1>4, <3>1, <3>3, <3>4 DEF Carries
    <3>. QED BY <1>1, <2>2, <3>2, <3>3, <3>4 DEF PathOK
  <2>3. ASSUME ~ (proc[p] = "up" /\ \A s \in Slot : task[<<p, s>>].pc = "none") PROVE PathOK(p)'
    BY <1>1, <2>3 DEF PathOK
  <2>. QED BY <2>1, <2>2, <2>3 DEF Relistening
<1>. QED BY <1>6, <1>7, <1>8, <1>9, <1>10 DEF ServeInv

\* The servers before any of them runs.
LEMMA ServeInit == Serve!Init => ServeInv
<1>. SUFFICES ASSUME Serve!Init PROVE ServeInv
  OBVIOUS
<1>1. /\ proc = [p \in Procs |-> "off"] /\ bound = [n \in Ports |-> None]
      /\ task = [t \in Procs \X Slot |-> [pc |-> "none", port |-> 1]]
      /\ server = [p \in Procs |-> None] /\ control = [p \in Procs |-> None]
      /\ listening = [p \in Procs |-> None] /\ file = [n \in Ports |-> None]
      /\ older = [p \in Procs |-> {}] /\ overlapped = {}
  BY DEF Serve!Init, Serve!Ports, Serve!Tasks, Serve!NoTask, Ports, Slot
<1>2. task \in [Procs \X Slot -> [pc : Pc, port : Ports]]
      /\ \A p \in Procs, s \in Slot : task[<<p, s>>].pc = "none"
  <2>1. [pc |-> "none", port |-> 1] \in [pc : Pc, port : Ports]
    BY ServeBounds DEF Pc, Ports
  <2>. QED BY <1>1, <2>1
<1>3. ServeType
  BY <1>1, <1>2 DEF ServeType
<1>4. Living /\ Starting /\ Serving /\ Relistening
  BY <1>1, <1>2 DEF Living, Lives, Running, Starting, StartOK, Serving, ServerOK, Relistening, PathOK
<1>. QED BY <1>3, <1>4 DEF ServeInv

\* Nothing but the servers' variables matters.
LEMMA ServeKept ==
  ASSUME ServeInv, UNCHANGED serveVars
  PROVE  ServeInv'
<1>1. UNCHANGED <<proc, task, bound, server, control, listening, file, older, overlapped>>
  BY DEF serveVars
<1>. QED BY <1>1 DEF ServeInv, ServeType, Living, Lives, Starting, StartOK, Serving, ServerOK, Looking,
                     Relistening, PathOK, Alone, Carries

\* Every step of the servers.
LEMMA ServeNext ==
  ASSUME ServeInv, Serve!Next
  PROVE  ServeInv'
<1>1. ASSUME NEW t \in Serve!Tasks, Serve!Step(t) PROVE ServeInv'
  BY <1>1, ProbeStep, AskToStopStep, ServeStep, NextPortStep, CloseControlStep, ForgetPathStep,
     CheckPathStep, RemoveStaleStep, ListenStep, ListenFailsStep DEF Serve!Step
<1>2. ASSUME NEW p \in Procs, Serve!Start(p) \/ Serve!Stop(p) \/ Serve!Cleanup(p) \/ Serve!Exit(p)
      PROVE  ServeInv'
  BY <1>2, StartStep, StopStep, CleanupStep, ExitStep DEF Serve!Exit, Serve!Alive, Running
<1>3. ASSUME NEW p \in Procs, NEW k \in 0 .. Slots, Serve!Restart(p, k) PROVE ServeInv'
  BY <1>3, RestartStep DEF Slot
<1>4. CASE UNCHANGED Serve!vars
  BY <1>4, ServeKept DEF Serve!vars, serveVars
<1>. QED BY <1>1, <1>2, <1>3, <1>4 DEF Serve!Next

\* It gives what the run checks.
LEMMA ServeUsable == ServeInv => SocketsUsable
<1>. SUFFICES ASSUME ServeInv PROVE Serve!SocketNamesPort /\ Serve!StaleFileHarmless
  BY DEF SocketsUsable
<1>0. 0 \in Slot
  BY ServeBounds DEF Slot
<1>1. ASSUME NEW p \in Procs, Serve!Settled(p)
      PROVE  /\ bound[server[p]] = p
             /\ p \notin overlapped => control[p] = server[p] /\ listening[p] = control[p]
  <2>1. proc[p] = "up" /\ \A s \in Slot : task[<<p, s>>].pc = "none"
    BY <1>1 DEF Serve!Settled, Slot
  <2>2. ServerOK(p) /\ PathOK(p)
    BY DEF ServeInv, Serving, Relistening
  <2>. QED BY <1>0, <2>1, <2>2 DEF ServerOK, PathOK, Looking, Running
<1>2. ASSUME NEW p \in Procs, Serve!At(<<p, 0>>, "listen") PROVE file[control[p]] \notin older[p]
  BY <1>0, <1>2 DEF Serve!At, ServeInv, Starting, StartOK, Living, Lives
<1>. QED BY <1>1, <1>2 DEF Serve!SocketNamesPort, Serve!StaleFileHarmless

-----------------------------------------------------------------------------
(* Scans *)

Adr == 1 .. Last
Worker == 1 .. Workers
Stages == {"idle", "arp", "scan", "found", "done", "host_not_found", "refused"}

ScanType ==
  /\ lan \in [Adr -> Devices \cup {None}]
  /\ call \in [stage : Stages, kind : {"none", "discover", "resolve"},
               uuid : Devices \cup {None}, mac : Devices \cup {None}]
  /\ i \in Nat \ {0}
  /\ worker \in [Worker -> 0 .. Last]
  /\ found \in [Devices -> Adr \cup {None}] /\ hosts \in [Devices -> Adr \cup {None}]
  /\ missed \in SUBSET Adr
  /\ moves \in Nat

\* A resolve names a device, only one with a MAC asks the ARP table, and nothing is
\* found or asked before a scan.
CallNamed ==
  /\ call.kind = "resolve" => call.uuid \in Devices
  /\ call.stage = "arp" => call.kind = "resolve" /\ call.mac # None
  /\ call.stage = "scan" => call.kind # "none"
  /\ call.stage \in {"idle", "arp"} => i = 1 /\ \A d \in Devices : found[d] = None

OneAddress == \A p, q \in Adr : p # q /\ lan[p] # None => lan[p] # lan[q]

\* The workers have different addresses, and one ends only when there is nothing left
\* to ask; a scan without workers asks nothing.
Pool ==
  /\ Scan!PoolExact
  /\ call.stage # "scan" => \A w \in Worker : worker[w] = 0
  /\ call.stage = "scan" /\ (\E w \in Worker : worker[w] = 0)
       => i = 1 \/ i > Last \/ Scan!Stops(found)

\* An address somebody has asked and is done with.
Asked(p) == p < i /\ \A w \in Worker : worker[w] # p

\* As long as no device moves, a discovery has noted every device that answered.
Discovering ==
  call.kind = "discover" /\ i # 1 /\ moves = 0 => \A p \in Adr \ missed : lan[p] # None =>
    /\ call.stage = "scan" /\ Asked(p) => found[lan[p]] = p
    /\ call.stage = "found" => found[lan[p]] = p
    /\ call.stage = "done" => hosts[lan[p]] = p

\* The device that was asked for.
Target(d) == d = call.uuid \/ (call.mac # None /\ d = call.mac)

\* A scan for a uuid has noted only where such a device is, and has not passed it over.
Resolving ==
  call.kind = "resolve" /\ i # 1 /\ moves = 0 =>
    /\ call.stage \in {"scan", "found"} /\ found[call.uuid] # None => Target(lan[found[call.uuid]])
    /\ call.stage = "scan" /\ found[call.uuid] = None =>
         \A p \in Adr \ missed : Asked(p) => lan[p] # call.uuid
    /\ call.stage = "found" => found[call.uuid] # None
    /\ call.stage = "done" => hosts[call.uuid] \in Adr /\ Target(lan[hosts[call.uuid]])
    /\ call.stage = "host_not_found" => \A p \in Adr \ missed : lan[p] # call.uuid

ScanInv == ScanType /\ CallNamed /\ OneAddress /\ Pool /\ Discovering /\ Resolving

\* The workers at the start of a scan.
LEMMA StartScanEffect ==
  ASSUME ScanType, NEW n \in {0, Workers}, Scan!StartScan(n), UNCHANGED <<found>>, call'.stage = "scan"
  PROVE  /\ i' \in Nat \ {0} /\ worker' \in [Worker -> 0 .. Last]
         /\ Pool' /\ \A p \in Adr : ~Asked(p)'
<1>1. i' = n + 1 /\ worker' = [w \in Worker |-> IF w <= n /\ w <= Last THEN w ELSE 0]
  BY DEF Scan!StartScan, Worker
<1>2. i' \in Nat \ {0} /\ worker' \in [Worker -> 0 .. Last]
  BY <1>1, ScanBounds DEF Worker
<1>3. /\ \A v, w \in Worker : v # w /\ worker'[v] # 0 => worker'[v] # worker'[w]
      /\ \A w \in Worker : worker'[w] < i'
      /\ (\E w \in Worker : worker'[w] = 0) => i' = 1 \/ i' > Last
  BY <1>1, ScanBounds DEF Worker
<1>4. Pool'
  BY <1>3 DEF Pool, Scan!PoolExact, Scan!Stage, Worker
<1>5. ASSUME NEW p \in Adr PROVE ~Asked(p)'
  BY <1>1, ScanBounds DEF Asked, Adr, Worker
<1>. QED BY <1>2, <1>4, <1>5

\* A scan that waits for an address has begun.
LEMMA Started ==
  ASSUME ScanType, Pool, NEW w \in Worker, worker[w] # 0
  PROVE  i # 1
BY ScanBounds DEF ScanType, Pool, Scan!PoolExact, Scan!Stage, Worker

\* A worker that goes round its loop: only the address it had is done with.
LEMMA TakeNextEffect ==
  ASSUME ScanType, Pool, call.stage = "scan", UNCHANGED call,
         NEW w \in Worker, worker[w] # 0, NEW f, Scan!TakeNext(w, f), found' = f,
         Scan!Stops(found) => Scan!Stops(f)
  PROVE  /\ i' \in Nat \ {0} /\ worker' \in [Worker -> 0 .. Last]
         /\ Pool' /\ \A p \in Adr : Asked(p)' => Asked(p) \/ p = worker[w]
<1>0. i \in Nat \ {0} /\ worker \in [Worker -> 0 .. Last] /\ Last \in Nat
  BY ScanBounds DEF ScanType
<1>1. \/ (i > Last \/ Scan!Stops(f)) /\ worker' = [worker EXCEPT ![w] = 0] /\ i' = i
      \/ i <= Last /\ worker' = [worker EXCEPT ![w] = i] /\ i' = i + 1
  BY <1>0 DEF Scan!TakeNext
<1>2. i' \in Nat \ {0} /\ worker' \in [Worker -> 0 .. Last]
  BY <1>0, <1>1
<1>3. /\ \A v, u \in Worker : v # u /\ worker[v] # 0 => worker[v] # worker[u]
      /\ \A u \in Worker : worker[u] < i
  BY DEF Pool, Scan!PoolExact, Scan!Stage, Worker
<1>4. /\ \A v, u \in Worker : v # u /\ worker'[v] # 0 => worker'[v] # worker'[u]
      /\ \A u \in Worker : worker'[u] < i'
  BY <1>0, <1>1, <1>3
<1>5. Scan!Stops(found)' <=> Scan!Stops(f)
  BY DEF Scan!Stops
<1>6. (\E u \in Worker : worker'[u] = 0) => i' > Last \/ Scan!Stops(found)'
  <2>1. CASE (i > Last \/ Scan!Stops(f)) /\ i' = i
    BY <1>5, <2>1
  <2>2. CASE i <= Last /\ worker' = [worker EXCEPT ![w] = i] /\ i' = i + 1
    <3>1. ASSUME NEW u \in Worker, worker'[u] = 0 PROVE worker[u] = 0
      BY <1>0, <2>2, <3>1
    <3>2. (\E u \in Worker : worker'[u] = 0) => Scan!Stops(found)
      BY <1>0, <2>2, <3>1, Started DEF Pool
    <3>. QED BY <1>5, <3>2
  <2>. QED BY <1>1, <2>1, <2>2
<1>7. Pool'
  BY <1>4, <1>6 DEF Pool, Scan!PoolExact, Scan!Stage, Worker
<1>8. ASSUME NEW p \in Adr, Asked(p)', p # worker[w] PROVE Asked(p)
  BY <1>0, <1>1, <1>3, <1>8 DEF Asked, Adr
<1>. QED BY <1>2, <1>7, <1>8

\* A request that starts a scan, whichever.
LEMMA ScanBegins ==
  ASSUME ScanInv, NEW n \in {0, Workers}, Scan!StartScan(n), UNCHANGED <<lan, found, hosts, missed, moves>>,
         call' \in [stage : {"scan"}, kind : {"discover", "resolve"},
                    uuid : Devices \cup {None}, mac : Devices \cup {None}],
         call'.kind = "resolve" => call'.uuid \in Devices,
         \A d \in Devices : found[d] = None
  PROVE  ScanInv'
<1>1. ScanType
  BY DEF ScanInv
<1>2. /\ i' \in Nat \ {0} /\ worker' \in [Worker -> 0 .. Last]
      /\ Pool' /\ \A p \in Adr : ~Asked(p)'
  BY <1>1, StartScanEffect
<1>3. ScanType'
  BY <1>1, <1>2 DEF ScanType, Stages
<1>4. CallNamed' /\ OneAddress'
  BY DEF ScanInv, CallNamed, OneAddress
<1>5. Discovering'
  BY <1>2 DEF Discovering
<1>6. Resolving'
  BY <1>2 DEF Resolving
<1>. QED BY <1>2, <1>3, <1>4, <1>5, <1>6 DEF ScanInv

\* A request that is refused, or asks the ARP table first.
LEMMA RequestWaits ==
  ASSUME ScanInv, call.stage = "idle", UNCHANGED <<lan, i, worker, found, hosts, missed, moves>>,
         call' \in [stage : {"arp", "refused"}, kind : {"discover", "resolve"},
                    uuid : Devices \cup {None}, mac : Devices \cup {None}],
         call'.kind = "resolve" => call'.uuid \in Devices,
         call'.stage = "arp" => call'.kind = "resolve" /\ call'.mac # None
  PROVE  ScanInv'
<1>1. ScanType'
  BY DEF ScanInv, ScanType, Stages
<1>2. CallNamed' /\ OneAddress'
  BY DEF ScanInv, CallNamed, OneAddress
<1>3. Pool'
  BY DEF ScanInv, Pool, Scan!PoolExact, Scan!Stage
<1>4. Discovering' /\ Resolving'
  BY DEF Discovering, Resolving
<1>. QED BY <1>1, <1>2, <1>3, <1>4 DEF ScanInv

\* The handler of a discovery starts a scan of all devices.
LEMMA DiscoverHostsStep ==
  ASSUME ScanInv, Scan!DiscoverHosts
  PROVE  ScanInv'
<1>1. call.stage = "idle" /\ \A d \in Devices : found[d] = None
  BY DEF Scan!DiscoverHosts, Scan!Stage, ScanInv, CallNamed
<1>2. PICK stage \in {"scan", "refused"} :
        /\ call' = [stage |-> stage, kind |-> "discover", uuid |-> None, mac |-> None]
        /\ \/ stage = "scan" /\ \E n \in {0, Workers} : Scan!StartScan(n)
           \/ stage = "refused" /\ UNCHANGED <<i, worker>>
        /\ UNCHANGED <<lan, found, hosts, missed, moves>>
  BY DEF Scan!DiscoverHosts
<1>3. CASE stage = "scan"
  BY <1>1, <1>2, <1>3, ScanBegins
<1>4. CASE stage = "refused"
  BY <1>1, <1>2, <1>4, RequestWaits
<1>. QED BY <1>3, <1>4

\* The handler of a resolve looks one device up.
LEMMA ResolveHostStep ==
  ASSUME ScanInv, NEW uuid \in Devices, NEW mac \in Devices \cup {None}, Scan!ResolveHost(uuid, mac)
  PROVE  ScanInv'
<1>1. call.stage = "idle" /\ \A d \in Devices : found[d] = None
  BY DEF Scan!ResolveHost, Scan!Stage, ScanInv, CallNamed
<1>2. PICK stage \in {"arp", "scan", "refused"} :
        /\ call' = [stage |-> stage, kind |-> "resolve", uuid |-> uuid, mac |-> mac]
        /\ \/ stage = "scan" /\ Scan!StartScan(Workers)
           \/ stage # "scan" /\ UNCHANGED <<i, worker>>
        /\ stage = "arp" => mac # None
        /\ UNCHANGED <<lan, found, hosts, missed, moves>>
  BY DEF Scan!ResolveHost
<1>3. CASE stage = "scan"
  BY <1>1, <1>2, <1>3, ScanBegins
<1>4. CASE stage # "scan"
  BY <1>1, <1>2, <1>4, RequestWaits
<1>. QED BY <1>3, <1>4

\* The ARP table names an address, or the scan follows, or nothing does.
LEMMA ResolveIpv4FromMacStep ==
  ASSUME ScanInv, Scan!ResolveIpv4FromMac
  PROVE  ScanInv'
<1>1. /\ call.stage = "arp" /\ call.kind = "resolve" /\ call.mac # None /\ call.uuid \in Devices
      /\ \A d \in Devices : found[d] = None
      /\ UNCHANGED <<lan, hosts, missed, moves>>
  BY DEF Scan!ResolveIpv4FromMac, Scan!Stage, ScanInv, CallNamed
<1>2. CASE call' = [call EXCEPT !.stage = "scan"] /\ Scan!StartScan(Workers) /\ UNCHANGED found
  <2>1. call' \in [stage : {"scan"}, kind : {"discover", "resolve"},
                   uuid : Devices \cup {None}, mac : Devices \cup {None}]
        /\ call'.uuid = call.uuid
    BY <1>1, <1>2 DEF ScanInv, ScanType
  <2>. QED BY <1>1, <1>2, <2>1, ScanBegins
<1>3. ASSUME NEW stage \in {"found", "host_not_found", "refused"},
             call' = [call EXCEPT !.stage = stage], UNCHANGED <<i, worker>>,
             found' \in [Devices -> Adr \cup {None}]
      PROVE  ScanInv'
  <2>1. /\ call' \in [stage : Stages, kind : {"none", "discover", "resolve"},
                      uuid : Devices \cup {None}, mac : Devices \cup {None}]
        /\ call'.stage = stage /\ call'.kind = "resolve" /\ call'.uuid = call.uuid /\ call'.mac # None
    BY <1>1, <1>3 DEF ScanInv, ScanType, Stages
  <2>2. ScanType'
    BY <1>1, <1>3, <2>1 DEF ScanInv, ScanType
  <2>3. CallNamed' /\ OneAddress'
    BY <1>1, <1>3, <2>1 DEF ScanInv, CallNamed, OneAddress
  <2>4. Pool'
    BY <1>1, <1>3, <2>1 DEF ScanInv, Pool, Scan!PoolExact, Scan!Stage
  <2>5. Discovering' /\ Resolving'
    <3>1. i' = 1
      BY <1>1, <1>3 DEF ScanInv, CallNamed
    <3>. QED BY <3>1 DEF Discovering, Resolving
  <2>. QED BY <2>2, <2>3, <2>4, <2>5 DEF ScanInv
<1>4. CASE \E p \in Scan!Addresses : /\ found' = [found EXCEPT ![call.uuid] = p]
                                     /\ call' = [call EXCEPT !.stage = "found"]
                                     /\ UNCHANGED <<i, worker>>
  <2>1. found' \in [Devices -> Adr \cup {None}]
    BY <1>1, <1>4 DEF ScanInv, ScanType, Scan!Addresses, Adr
  <2>. QED BY <1>3, <1>4, <2>1
<1>5. CASE /\ \E stage \in {"host_not_found", "refused"} : call' = [call EXCEPT !.stage = stage]
           /\ UNCHANGED <<i, worker, found>>
  <2>1. found' \in [Devices -> Adr \cup {None}]
    BY <1>5 DEF ScanInv, ScanType
  <2>. QED BY <1>3, <1>5, <2>1
<1>. QED BY <1>2, <1>4, <1>5 DEF Scan!ResolveIpv4FromMac

\* An answer is noted before the worker goes on.
LEMMA SystemAllStep ==
  ASSUME ScanInv, NEW w \in Worker, NEW hasMac \in BOOLEAN, Scan!SystemAll(w, hasMac)
  PROVE  ScanInv'
<1>. DEFINE p == worker[w]
            d == lan[p]
            f == CASE call.kind = "discover" -> [found EXCEPT ![d] = p]
                   [] call.kind = "resolve" /\ Scan!Identifies(d, hasMac) -> [found EXCEPT ![call.uuid] = p]
                   [] OTHER -> found
<1>1. /\ call.stage = "scan" /\ p # 0 /\ d # None /\ found' = f /\ Scan!TakeNext(w, f)
      /\ UNCHANGED <<lan, call, hosts, missed, moves>>
  BY DEF Scan!SystemAll, Scan!Stage
<1>2. ScanType /\ Pool /\ call.kind \in {"discover", "resolve"}
      /\ (call.kind = "resolve" => call.uuid \in Devices)
  BY <1>1 DEF ScanInv, ScanType, CallNamed
<1>3. p \in Adr /\ d \in Devices
  <2>1. p \in Adr
    BY <1>1, <1>2 DEF ScanType, Adr
  <2>. QED BY <1>1, <1>2, <2>1 DEF ScanType
<1>4. f \in [Devices -> Adr \cup {None}]
  BY <1>2, <1>3 DEF ScanType
<1>5. call.kind = "discover" => f = [found EXCEPT ![d] = p]
  OBVIOUS
<1>6. call.kind = "resolve" =>
        f = IF Scan!Identifies(d, hasMac) THEN [found EXCEPT ![call.uuid] = p] ELSE found
  OBVIOUS
<1>. HIDE DEF f, p, d
<1>7. Scan!Stops(found) => Scan!Stops(f)
  BY <1>2, <1>3, <1>6, NoneAssumption DEF Scan!Stops, ScanType, Adr
<1>8. /\ i' \in Nat \ {0} /\ worker' \in [Worker -> 0 .. Last]
      /\ Pool' /\ \A q \in Adr : Asked(q)' => Asked(q) \/ q = p
  <2>1. worker[w] # 0
    BY <1>1 DEF p
  <2>2. /\ i' \in Nat \ {0} /\ worker' \in [Worker -> 0 .. Last]
        /\ Pool' /\ \A q \in Adr : Asked(q)' => Asked(q) \/ q = worker[w]
    BY <1>1, <1>2, <1>7, <2>1, TakeNextEffect
  <2>. QED BY <2>2 DEF p
<1>9. ScanType'
  BY <1>1, <1>2, <1>4, <1>8 DEF ScanType
<1>10. CallNamed' /\ OneAddress'
  BY <1>1 DEF ScanInv, CallNamed, OneAddress
<1>13. i # 1
  BY <1>1, <1>2, Started DEF p
<1>11. Discovering'
  <2>. SUFFICES ASSUME call.kind = "discover", moves = 0,
                       NEW q \in Adr \ missed, lan[q] # None, Asked(q)'
                PROVE  f[lan[q]] = q
    BY <1>1 DEF Discovering
  <2>1. lan[q] \in Devices
    BY <1>2 DEF ScanType
  <2>2. CASE q = p
    BY <1>2, <1>3, <1>5, <2>2 DEF ScanType, d
  <2>3. CASE q # p
    <3>1. found[lan[q]] = q
      BY <1>1, <1>8, <1>13, <2>3 DEF ScanInv, Discovering
    <3>2. lan[q] # d
      BY <1>1, <1>3, <2>3 DEF ScanInv, OneAddress, d
    <3>. QED BY <1>2, <1>3, <1>5, <2>1, <3>1, <3>2 DEF ScanType
  <2>. QED BY <2>2, <2>3
<1>12. Resolving'
  <2>. SUFFICES ASSUME call.kind = "resolve", moves = 0
                PROVE  /\ f[call.uuid] # None => Target(lan[f[call.uuid]])
                       /\ f[call.uuid] = None =>
                            \A q \in Adr \ missed : Asked(q)' => lan[q] # call.uuid
    BY <1>1 DEF Resolving, Target
  <2>1. /\ Scan!Identifies(d, hasMac) => Target(d)
        /\ d = call.uuid => Scan!Identifies(d, hasMac)
    BY DEF Scan!Identifies, Target
  <2>2. /\ found[call.uuid] # None => Target(lan[found[call.uuid]])
        /\ found[call.uuid] = None => \A q \in Adr \ missed : Asked(q) => lan[q] # call.uuid
    BY <1>1, <1>13 DEF ScanInv, Resolving
  <2>3. CASE Scan!Identifies(d, hasMac)
    <3>1. f[call.uuid] = p
      BY <1>2, <1>6, <2>3 DEF ScanType
    <3>. QED BY <1>3, <2>1, <2>3, <3>1, NoneAssumption DEF d, Adr
  <2>4. CASE ~Scan!Identifies(d, hasMac)
    BY <1>6, <1>8, <2>1, <2>2, <2>4 DEF d
  <2>. QED BY <2>3, <2>4
<1>. QED BY <1>8, <1>9, <1>10, <1>11, <1>12 DEF ScanInv

\* No answer: the address is missed.
LEMMA NoAnswerStep ==
  ASSUME ScanInv, NEW w \in Worker, Scan!NoAnswer(w)
  PROVE  ScanInv'
<1>1. /\ call.stage = "scan" /\ worker[w] # 0 /\ Scan!TakeNext(w, found)
      /\ missed' = missed \cup {worker[w]} /\ UNCHANGED <<lan, call, found, hosts, moves>>
  BY DEF Scan!NoAnswer, Scan!Stage
<1>2. ScanType /\ Pool
  BY DEF ScanInv
<1>3. /\ i' \in Nat \ {0} /\ worker' \in [Worker -> 0 .. Last]
      /\ Pool' /\ \A q \in Adr : Asked(q)' => Asked(q) \/ q = worker[w]
  BY <1>1, <1>2, TakeNextEffect
<1>4. worker[w] \in Adr
  BY <1>1, <1>2 DEF ScanType, Adr
<1>5. ScanType'
  BY <1>1, <1>2, <1>3, <1>4 DEF ScanType
<1>6. CallNamed' /\ OneAddress'
  BY <1>1 DEF ScanInv, CallNamed, OneAddress
<1>9. i # 1
  BY <1>1, <1>2, Started
<1>7. Discovering'
  BY <1>1, <1>3, <1>9 DEF ScanInv, Discovering
<1>8. Resolving'
  BY <1>1, <1>3, <1>9 DEF ScanInv, Resolving, Target
<1>. QED BY <1>3, <1>5, <1>6, <1>7, <1>8 DEF ScanInv

\* All workers have ended: every address was asked, or the device is found.
LEMMA ScanEndsStep ==
  ASSUME ScanInv, Scan!ScanEnds
  PROVE  ScanInv'
<1>. DEFINE stage == IF call.kind = "resolve" /\ found[call.uuid] = None THEN "host_not_found" ELSE "found"
<1>1. /\ call.stage = "scan" /\ (\A w \in Worker : worker[w] = 0)
      /\ call' = [call EXCEPT !.stage = stage]
      /\ UNCHANGED <<lan, i, worker, found, hosts, missed, moves>>
  BY DEF Scan!ScanEnds, Scan!Stage, Scan!NoWorker, Worker
<1>2. /\ call' \in [stage : Stages, kind : {"none", "discover", "resolve"},
                    uuid : Devices \cup {None}, mac : Devices \cup {None}]
      /\ call'.stage = stage /\ call'.kind = call.kind /\ call'.uuid = call.uuid /\ call'.mac = call.mac
  BY <1>1 DEF ScanInv, ScanType, Stages
<1>3. i = 1 \/ i > Last \/ Scan!Stops(found)
  <2>1. 1 \in Worker
    BY ScanBounds DEF Worker
  <2>. QED BY <1>1, <2>1 DEF ScanInv, Pool
<1>4. i > Last => \A p \in Adr : Asked(p)
  BY <1>1, ScanBounds DEF ScanInv, ScanType, Asked, Adr
<1>5. ScanType'
  BY <1>1, <1>2 DEF ScanInv, ScanType
<1>6. CallNamed' /\ OneAddress'
  BY <1>1, <1>2 DEF ScanInv, CallNamed, OneAddress
<1>7. Pool'
  BY <1>1, <1>2 DEF ScanInv, Pool, Scan!PoolExact, Scan!Stage
<1>8. Discovering'
  BY <1>1, <1>2, <1>3, <1>4 DEF ScanInv, Discovering, Scan!Stops
<1>9. Resolving'
  BY <1>1, <1>2, <1>3, <1>4 DEF ScanInv, Resolving, Target, Scan!Stops
<1>. QED BY <1>5, <1>6, <1>7, <1>8, <1>9 DEF ScanInv

\* What was found replaces what was stored.
LEMMA MergeStep ==
  ASSUME ScanInv, Scan!Merge
  PROVE  ScanInv'
<1>1. /\ call.stage = "found" /\ call' = [call EXCEPT !.stage = "done"]
      /\ hosts' = [d \in Devices |-> IF found[d] # None THEN found[d] ELSE hosts[d]]
      /\ UNCHANGED <<lan, i, worker, found, missed, moves>>
  BY DEF Scan!Merge, Scan!Stage
<1>2. /\ call' \in [stage : Stages, kind : {"none", "discover", "resolve"},
                    uuid : Devices \cup {None}, mac : Devices \cup {None}]
      /\ call'.stage = "done" /\ call'.kind = call.kind /\ call'.uuid = call.uuid /\ call'.mac = call.mac
  BY <1>1 DEF ScanInv, ScanType, Stages
<1>3. ScanType'
  BY <1>1, <1>2 DEF ScanInv, ScanType
<1>4. CallNamed' /\ OneAddress'
  BY <1>1, <1>2 DEF ScanInv, CallNamed, OneAddress
<1>5. Pool'
  BY <1>1, <1>2 DEF ScanInv, Pool, Scan!PoolExact, Scan!Stage
<1>6. Discovering'
  BY <1>1, <1>2, NoneAssumption DEF ScanInv, ScanType, Discovering, Adr
<1>7. Resolving'
  BY <1>1, <1>2 DEF ScanInv, ScanType, CallNamed, Resolving, Target
<1>. QED BY <1>3, <1>4, <1>5, <1>6, <1>7 DEF ScanInv

\* A device that moves still has one address.
LEMMA MoveStep ==
  ASSUME ScanInv, Scan!Move
  PROVE  ScanInv'
<1>1. PICK p, q \in Adr :
        /\ lan[p] # None /\ lan[q] = None
        /\ lan' = [lan EXCEPT ![p] = None, ![q] = lan[p]]
        /\ moves' = moves + 1
        /\ UNCHANGED <<call, i, worker, found, hosts, missed>>
  BY DEF Scan!Move, Scan!Addresses, Adr
<1>2. moves' # 0
  BY <1>1 DEF ScanInv, ScanType
<1>3. ScanType'
  BY <1>1 DEF ScanInv, ScanType
<1>4. CallNamed' /\ Pool'
  BY <1>1 DEF ScanInv, CallNamed, Pool, Scan!PoolExact, Scan!Stage, Scan!Stops
<1>5. OneAddress'
  BY <1>1 DEF ScanInv, ScanType, OneAddress
<1>6. Discovering' /\ Resolving'
  BY <1>2 DEF Discovering, Resolving
<1>. QED BY <1>3, <1>4, <1>5, <1>6 DEF ScanInv

\* The answer is sent and the next request is a fresh one.
LEMMA AnsweredStep ==
  ASSUME ScanInv, Scan!Answered
  PROVE  ScanInv'
<1>1. /\ call.stage # "scan"
      /\ call' = [stage |-> "idle", kind |-> "none", uuid |-> None, mac |-> None]
      /\ i' = 1 /\ found' = [d \in Devices |-> None] /\ missed' = {}
      /\ UNCHANGED <<lan, worker, hosts, moves>>
  BY DEF Scan!Answered, Scan!Stage, Scan!Nowhere
<1>2. ScanType'
  BY <1>1 DEF ScanInv, ScanType, Stages
<1>3. CallNamed' /\ OneAddress' /\ Discovering' /\ Resolving'
  BY <1>1 DEF ScanInv, CallNamed, OneAddress, Discovering, Resolving
<1>4. Pool'
  BY <1>1 DEF ScanInv, Pool, Scan!PoolExact, Scan!Stage
<1>. QED BY <1>2, <1>3, <1>4 DEF ScanInv

\* The scans begin well, in any network.
LEMMA ScanInit == Scan!Init => ScanInv
<1>. SUFFICES ASSUME Scan!Init PROVE ScanInv
  OBVIOUS
<1>1. /\ lan \in [Adr -> Devices \cup {None}]
      /\ \A p, q \in Adr : p # q /\ lan[p] # None => lan[p] # lan[q]
      /\ call = [stage |-> "idle", kind |-> "none", uuid |-> None, mac |-> None]
      /\ i = 1 /\ worker = [w \in Worker |-> 0]
      /\ found = [d \in Devices |-> None]
      /\ hosts \in {[d \in Devices |-> None], [d \in Devices |-> 1]}
      /\ missed = {} /\ moves = 0
  BY DEF Scan!Init, Scan!Addresses, Scan!NoWorker, Scan!Nowhere, Adr, Worker
<1>2. ScanType
  BY <1>1, ScanBounds DEF ScanType, Stages, Adr
<1>3. CallNamed /\ OneAddress /\ Discovering /\ Resolving
  BY <1>1 DEF CallNamed, OneAddress, Discovering, Resolving
<1>4. Pool
  BY <1>1 DEF Pool, Scan!PoolExact, Scan!Stage, Worker
<1>. QED BY <1>2, <1>3, <1>4 DEF ScanInv

\* A step that leaves the scans alone keeps their invariant.
LEMMA ScanKept ==
  ASSUME ScanInv, UNCHANGED scanVars
  PROVE  ScanInv'
<1>1. UNCHANGED <<lan, call, i, worker, found, hosts, missed, moves>>
  BY DEF scanVars
<1>2. ScanType' /\ CallNamed' /\ OneAddress'
  BY <1>1 DEF ScanInv, ScanType, CallNamed, OneAddress
<1>3. Pool'
  BY <1>1 DEF ScanInv, Pool, Scan!PoolExact, Scan!Stage, Scan!Stops
<1>4. Discovering' /\ Resolving'
  BY <1>1 DEF ScanInv, Discovering, Resolving, Target, Asked
<1>. QED BY <1>2, <1>3, <1>4 DEF ScanInv

\* Every step of a request.
LEMMA ScanNext ==
  ASSUME ScanInv, Scan!Next
  PROVE  ScanInv'
<1>1. CASE Scan!DiscoverHosts \/ Scan!Move
  BY <1>1, DiscoverHostsStep, MoveStep
<1>2. CASE \E uuid \in Devices, mac \in Devices \cup {None} : Scan!ResolveHost(uuid, mac)
  BY <1>2, ResolveHostStep
<1>3. CASE \E w \in 1 .. Workers : Scan!NoAnswer(w) \/ \E hasMac \in BOOLEAN : Scan!SystemAll(w, hasMac)
  BY <1>3, NoAnswerStep, SystemAllStep DEF Worker
<1>4. CASE Scan!ResolveIpv4FromMac \/ Scan!ScanEnds \/ Scan!Merge \/ Scan!Answered
  BY <1>4, ResolveIpv4FromMacStep, ScanEndsStep, MergeStep, AnsweredStep
<1>. QED BY <1>1, <1>2, <1>3, <1>4 DEF Scan!Next, Scan!Handler

\* It gives what the run checks.
LEMMA ScansExact == ScanInv => ScanExact
<1>. SUFFICES ASSUME ScanInv
              PROVE  Scan!PoolExact /\ Scan!DiscoveryComplete /\ Scan!ScanTruthful
  BY DEF ScanExact
<1>1. Scan!PoolExact
  BY DEF ScanInv, Pool
<1>2. Scan!DiscoveryComplete
  BY DEF ScanInv, Discovering, Scan!DiscoveryComplete, Scan!Stage, Scan!Addresses, Adr
<1>3. Scan!ScanTruthful
  BY DEF ScanInv, Resolving, Target, Scan!ScanTruthful, Scan!Stage, Scan!Addresses, Adr
<1>. QED BY <1>1, <1>2, <1>3

-----------------------------------------------------------------------------
(* Signing in *)

Regions == {"iotx", "iotx-ap", "iotx-us", "iotx-eu"}
Job == [who : {"none", "login", "probe"}, domain : Cloud!Domains \cup {None},
        queue : Seq(Cloud!Domains), tryAll : BOOLEAN, write : BOOLEAN]

CloudType ==
  /\ cloud \in [Cloud!Domains -> Cloud!Answers \cup {None}]
  /\ job \in Job /\ (job.who = "probe" => job.queue # <<>>)
  /\ cands \in Seq(Cloud!Domains)
  /\ at \in Cloud!Domains \cup {None}
  /\ attempt \in Nat
  /\ tried \in SUBSET Cloud!Domains /\ asked \in SUBSET Cloud!Domains

\* A domain was asked and answered with one of the codes.
Said(said, d, codes) == said[d] \in Cloud!Answers /\ said[d].status \in codes

\* A domain that does not know the account or names another.
SentOn(said, d) == Said(said, d, {1004, 1030}) /\ (said[d].status = 1030 => said[d].domain # None)

\* Credentials come from a domain that accepted the account.
CredsOK(said, c) ==
  c # None => /\ c.from \in Cloud!Domains /\ Said(said, c.from, {0}) /\ said[c.from].whole
              /\ said[c.from].domain \in {None, c.domain}

\* While a sign-in runs its candidate is the first of those that remain; it was itself
\* asked, or is one the sign-in went on from.
Trying ==
  at # None =>
    /\ cands # <<>> /\ Head(cands) \in tried
    /\ attempt = 0 => at = Head(cands)
    /\ tried \cap Elsewhere = {} => tried \cup Cloud!ToSet(cands) = Regions

\* What a sign-in went on from did not end it.
GoneOn == \A d \in asked : SentOn(cloud, d)

CloudInv ==
  /\ CloudType
  /\ Trying /\ GoneOn
  /\ CredsOK(cloud, stored) /\ CredsOK(cloud, success)
  /\ at # None => outcome = Cloud!Pending
  /\ Cloud!RegionsExhausted

\* Moving an element of a list to its front leaves its elements as they are.
LEMMA AheadKeeps ==
  ASSUME NEW D, NEW list \in Seq(D), NEW domain \in D, NEW e \in DOMAIN list, list[e] = domain
  PROVE  /\ Cloud!Ahead(domain, list) \in Seq(D)
         /\ Cloud!Ahead(domain, list) # <<>> /\ Head(Cloud!Ahead(domain, list)) = domain
         /\ Cloud!ToSet(Cloud!Ahead(domain, list)) = Cloud!ToSet(list)
<1>. DEFINE k == CHOOSE k \in DOMAIN list : list[k] = domain
            new == [n \in DOMAIN list |-> CASE n = 1 -> domain
                                            [] n \in 2 .. k -> list[n - 1]
                                            [] OTHER -> list[n]]
<1>1. k \in DOMAIN list /\ list[k] = domain
  OBVIOUS
<1>. HIDE DEF k
<1>2. DOMAIN list = 1 .. Len(list) /\ Len(list) \in Nat /\ k \in Nat /\ 1 <= k /\ k <= Len(list)
  BY <1>1
<1>3. \A n \in DOMAIN list : /\ n = 1 => new[n] = domain
                             /\ n \in 2 .. k => new[n] = list[n - 1] /\ n - 1 \in DOMAIN list
                             /\ n > k /\ n # 1 => new[n] = list[n]
  BY <1>2
<1>4. \A n \in DOMAIN list : new[n] \in D
  BY <1>2, <1>3
<1>5. new \in Seq(D) /\ Len(new) = Len(list) /\ DOMAIN new = DOMAIN list
  BY <1>2, <1>4
<1>6. Cloud!Ahead(domain, list) = new
  BY DEF Cloud!Ahead, k
<1>. HIDE DEF new
<1>7. new # <<>> /\ Head(new) = domain
  BY <1>2, <1>3, <1>5
<1>8. ASSUME NEW m \in DOMAIN list PROVE \E n \in DOMAIN list : new[n] = list[m]
  <2>1. CASE m < k
    <3>1. m + 1 \in DOMAIN list /\ m + 1 \in 2 .. k /\ (m + 1) - 1 = m
      BY <1>2, <2>1
    <3>. QED BY <1>3, <3>1
  <2>2. CASE m = k
    <3>1. 1 \in DOMAIN list
      BY <1>2
    <3>. QED BY <1>1, <1>3, <2>2, <3>1
  <2>3. CASE m > k
    BY <1>2, <1>3, <2>3
  <2>. QED BY <1>2, <2>1, <2>2, <2>3
<1>9. ASSUME NEW n \in DOMAIN list PROVE \E m \in DOMAIN list : new[n] = list[m]
  BY <1>1, <1>2, <1>3
<1>10. Cloud!ToSet(new) = Cloud!ToSet(list)
  <2>1. ASSUME NEW x \in Cloud!ToSet(new) PROVE x \in Cloud!ToSet(list)
    BY <1>5, <1>9, <2>1 DEF Cloud!ToSet
  <2>2. ASSUME NEW x \in Cloud!ToSet(list) PROVE x \in Cloud!ToSet(new)
    <3>1. PICK m \in DOMAIN list : x = list[m]
      BY <2>2 DEF Cloud!ToSet
    <3>2. PICK n \in DOMAIN list : new[n] = list[m]
      BY <1>8
    <3>. QED BY <1>5, <3>1, <3>2 DEF Cloud!ToSet
  <2>. QED BY <2>1, <2>2
<1>. QED BY <1>5, <1>6, <1>7, <1>10

\* The four regions, in either order.
LEMMA RegionLists ==
  ASSUME NEW list \in {Cloud!DEFAULT_FALLBACK_DOMAINS, <<"iotx-us", "iotx-eu", "iotx-ap", "iotx">>}
  PROVE  /\ list \in Seq(Cloud!Domains) /\ list # <<>>
         /\ Cloud!ToSet(list) = Regions /\ Regions \subseteq Cloud!Domains
         /\ Cloud!Domains = Regions \cup Elsewhere
<1>1. Cloud!ToSet(<<"iotx", "iotx-ap", "iotx-us", "iotx-eu">>) = Regions
  BY DEF Cloud!ToSet, Regions
<1>2. Cloud!ToSet(<<"iotx-us", "iotx-eu", "iotx-ap", "iotx">>) = Regions
  BY DEF Cloud!ToSet, Regions
<1>3. Cloud!Domains = Regions \cup Elsewhere
  BY <1>1 DEF Cloud!Domains, Cloud!DEFAULT_FALLBACK_DOMAINS
<1>4. Cloud!ToSet(list) = Regions
  BY <1>1, <1>2 DEF Cloud!DEFAULT_FALLBACK_DOMAINS
<1>5. list \in Seq(Regions) /\ list # <<>>
  <2>1. <<"iotx", "iotx-ap", "iotx-us", "iotx-eu">> \in Seq(Regions)
        /\ <<"iotx", "iotx-ap", "iotx-us", "iotx-eu">> # <<>>
    BY DEF Regions
  <2>2. <<"iotx-us", "iotx-eu", "iotx-ap", "iotx">> \in Seq(Regions)
        /\ <<"iotx-us", "iotx-eu", "iotx-ap", "iotx">> # <<>>
    BY DEF Regions
  <2>. QED BY <2>1, <2>2 DEF Cloud!DEFAULT_FALLBACK_DOMAINS
<1>. QED BY <1>3, <1>4, <1>5

\* A sign-in begins with its first candidate; those of a known domain are all regions.
LEMMA SignInEffect ==
  ASSUME NEW domain \in Cloud!Domains \cup {None}, Cloud!SignIn(domain)
  PROVE  /\ cands' \in Seq(Cloud!Domains) /\ cands' # <<>>
         /\ at' = Head(cands') /\ at' \in Cloud!Domains /\ attempt' = 0 /\ tried' = {at'} /\ asked' = {}
         /\ tried' \cap Elsewhere = {} => tried' \cup Cloud!ToSet(cands') = Regions
<1>1. /\ cands' = Cloud!SignInCandidates(domain) /\ at' = Head(cands') /\ attempt' = 0
      /\ tried' = {at'} /\ asked' = {}
  BY DEF Cloud!SignIn
<1>. DEFINE list == Cloud!DEFAULT_FALLBACK_DOMAINS
<1>2. /\ list \in Seq(Cloud!Domains) /\ list # <<>>
      /\ Cloud!ToSet(list) = Regions /\ Regions \subseteq Cloud!Domains
      /\ Cloud!Domains = Regions \cup Elsewhere
  BY RegionLists
<1>3. ASSUME cands' \in Seq(Cloud!Domains), cands' # <<>>, Cloud!ToSet(cands') = Regions
      PROVE  Head(cands') \in Cloud!Domains /\ Head(cands') \in Regions
  BY <1>3 DEF Cloud!ToSet
<1>. HIDE DEF list
<1>4. CASE domain = None
  <2>1. cands' = list
    <3>1. None \notin Elsewhere
      BY <1>2, DomainsAssumption
    <3>. QED BY <1>1, <1>4, <3>1 DEF Cloud!SignInCandidates, list
  <2>. QED BY <1>1, <1>2, <1>3, <2>1
<1>5. CASE domain # None /\ domain \in Elsewhere
  <2>1. cands' = <<domain>>
    BY <1>1, <1>5 DEF Cloud!SignInCandidates
  <2>2. cands' \in Seq(Cloud!Domains) /\ cands' # <<>> /\ Head(cands') = domain
    BY <1>5, <2>1
  <2>. QED BY <1>1, <1>5, <2>2
<1>6. CASE domain # None /\ domain \notin Elsewhere
  <2>1. cands' = Cloud!Ahead(domain, list)
    BY <1>1, <1>6 DEF Cloud!SignInCandidates, list
  <2>2. domain \in Cloud!Domains /\ \E e \in DOMAIN list : list[e] = domain
    BY <1>2, <1>6 DEF Cloud!ToSet
  <2>3. /\ cands' \in Seq(Cloud!Domains) /\ cands' # <<>> /\ Cloud!ToSet(cands') = Regions
    BY <1>2, <2>1, <2>2, AheadKeeps
  <2>. QED BY <1>1, <1>3, <2>3
<1>. QED BY <1>4, <1>5, <1>6

\* An answer is stable: what other domains said stays.
LEMMA AnsweredEffect ==
  ASSUME CloudType, NEW answer \in Cloud!Answers, Cloud!Answered(answer)
  PROVE  /\ at \in Cloud!Domains /\ cloud' \in [Cloud!Domains -> Cloud!Answers \cup {None}]
         /\ cloud'[at] = answer
         /\ \A d \in Cloud!Domains : cloud[d] \in Cloud!Answers => cloud'[d] = cloud[d]
<1>1. at # None /\ cloud[at] \in {None, answer} /\ cloud' = [cloud EXCEPT ![at] = answer]
  BY DEF Cloud!Answered
<1>. QED BY <1>1, DomainsAssumption DEF CloudType

\* What was said is said for good.
LEMMA SaidStays ==
  ASSUME NEW before, NEW after, NEW d \in Cloud!Domains, NEW codes,
         \A e \in Cloud!Domains : before[e] \in Cloud!Answers => after[e] = before[e],
         Said(before, d, codes)
  PROVE  Said(after, d, codes)
BY DEF Said

\* Nor does a domain take back that it does not know the account.
LEMMA SentOnStays ==
  ASSUME NEW before, NEW after, NEW d \in Cloud!Domains,
         \A e \in Cloud!Domains : before[e] \in Cloud!Answers => after[e] = before[e],
         SentOn(before, d)
  PROVE  SentOn(after, d)
BY DEF SentOn, Said

\* So the credentials stay those of an accepting domain.
LEMMA CredsStay ==
  ASSUME NEW before, NEW after, NEW c,
         \A e \in Cloud!Domains : before[e] \in Cloud!Answers => after[e] = before[e],
         CredsOK(before, c)
  PROVE  CredsOK(after, c)
BY DEF CredsOK, Said

\* The answers so far say nothing against a sign-in that begins.
LEMMA TryingBegins ==
  ASSUME NEW domain \in Cloud!Domains \cup {None}, Cloud!SignIn(domain)
  PROVE  /\ cands' \in Seq(Cloud!Domains) /\ at' \in Cloud!Domains /\ attempt' \in Nat
         /\ tried' \in SUBSET Cloud!Domains /\ asked' \in SUBSET Cloud!Domains /\ Trying' /\ GoneOn'
<1>1. /\ cands' \in Seq(Cloud!Domains) /\ cands' # <<>>
      /\ at' = Head(cands') /\ at' \in Cloud!Domains /\ attempt' = 0 /\ tried' = {at'} /\ asked' = {}
      /\ tried' \cap Elsewhere = {} => tried' \cup Cloud!ToSet(cands') = Regions
  BY SignInEffect
<1>. QED BY <1>1 DEF Trying, GoneOn

\* A call begins.
LEMMA LoginStep ==
  ASSUME CloudInv, NEW domain \in Options, Cloud!Login(domain)
  PROVE  CloudInv'
<1>1. /\ domain \in Cloud!Domains \cup {None} /\ Cloud!SignIn(domain) /\ outcome = Cloud!Pending
      /\ job' = [Cloud!Idle EXCEPT !.who = "login", !.domain = domain]
      /\ UNCHANGED <<cloud, stored, success, outcome>>
  BY DomainsAssumption DEF Cloud!Login
<1>2. job' \in Job /\ job'.who # "probe"
  <2>1. <<>> \in Seq(Cloud!Domains)
    OBVIOUS
  <2>. QED BY <1>1, <2>1 DEF Cloud!Idle, Job
<1>3. /\ cands' \in Seq(Cloud!Domains) /\ at' \in Cloud!Domains /\ attempt' \in Nat
      /\ tried' \in SUBSET Cloud!Domains /\ asked' \in SUBSET Cloud!Domains /\ Trying' /\ GoneOn'
  BY <1>1, TryingBegins
<1>4. CloudType'
  BY <1>1, <1>2, <1>3 DEF CloudInv, CloudType
<1>5. outcome' = Cloud!Pending /\ Cloud!RegionsExhausted'
  BY <1>1, DomainsAssumption DEF Cloud!Pending, Cloud!RegionsExhausted
<1>6. CredsOK(cloud, stored)' /\ CredsOK(cloud, success)'
  BY <1>1 DEF CloudInv
<1>7. Cloud!Pending' = Cloud!Pending
  BY DEF Cloud!Pending
<1>. QED BY <1>3, <1>4, <1>5, <1>6, <1>7 DEF CloudInv

\* A probe begins with a list of its own.
LEMMA ProbeCloudStep ==
  ASSUME CloudInv, NEW domain \in Options, NEW guess \in Guesses, NEW tryAll \in BOOLEAN,
         NEW write \in BOOLEAN, Cloud!Probe(domain, guess, tryAll, write)
  PROVE  CloudInv'
<1>. DEFINE queue == Cloud!ProbeCandidates(domain, guess)
<1>1. /\ Cloud!SignIn(Head(queue)) /\ outcome = Cloud!Pending
      /\ job' = [who |-> "probe", domain |-> domain, queue |-> queue, tryAll |-> tryAll, write |-> write]
      /\ UNCHANGED <<cloud, stored, success, outcome>>
  BY DEF Cloud!Probe
<1>2. domain \in Cloud!Domains \cup {None} /\ guess \in Regions
  BY DomainsAssumption DEF Regions
<1>3. queue \in Seq(Cloud!Domains) /\ queue # <<>> /\ Head(queue) \in Cloud!Domains
  <2>1. CASE domain # None
    <3>1. queue = <<domain>>
      BY <2>1 DEF Cloud!ProbeCandidates
    <3>. QED BY <1>2, <2>1, <3>1
  <2>2. CASE domain = None
    <3>. DEFINE list == <<"iotx-us", "iotx-eu", "iotx-ap", "iotx">>
    <3>1. queue = Cloud!Ahead(guess, list)
      BY <2>2 DEF Cloud!ProbeCandidates
    <3>2. /\ list \in Seq(Cloud!Domains) /\ Cloud!ToSet(list) = Regions
          /\ Regions \subseteq Cloud!Domains
      BY RegionLists
    <3>. HIDE DEF list, queue
    <3>3. guess \in Cloud!Domains /\ \E e \in DOMAIN list : list[e] = guess
      BY <1>2, <3>2 DEF Cloud!ToSet
    <3>. QED BY <3>1, <3>2, <3>3, AheadKeeps
  <2>. QED BY <2>1, <2>2
<1>. HIDE DEF queue
<1>4. job' \in Job /\ job'.queue # <<>>
  BY <1>1, <1>2, <1>3 DEF Job
<1>5. /\ cands' \in Seq(Cloud!Domains) /\ at' \in Cloud!Domains /\ attempt' \in Nat
      /\ tried' \in SUBSET Cloud!Domains /\ asked' \in SUBSET Cloud!Domains /\ Trying' /\ GoneOn'
  BY <1>1, <1>3, TryingBegins
<1>6. CloudType'
  BY <1>1, <1>4, <1>5 DEF CloudInv, CloudType
<1>7. outcome' = Cloud!Pending /\ Cloud!RegionsExhausted'
  BY <1>1, DomainsAssumption DEF Cloud!Pending, Cloud!RegionsExhausted
<1>8. CredsOK(cloud, stored)' /\ CredsOK(cloud, success)'
  BY <1>1 DEF CloudInv
<1>9. Cloud!Pending' = Cloud!Pending
  BY DEF Cloud!Pending
<1>. QED BY <1>5, <1>6, <1>7, <1>8, <1>9 DEF CloudInv

\* A call ends: the region is only blamed after all of them were asked.
LEMMA CallEnds ==
  ASSUME cloud' \in [Cloud!Domains -> Cloud!Answers \cup {None}], tried \in SUBSET Cloud!Domains,
         NEW code, NEW status, Cloud!End(code, status), UNCHANGED tried,
         CredsOK(cloud', stored'), CredsOK(cloud', success'),
         status = 1004 /\ tried \cap Elsewhere = {} => tried = Regions
  PROVE  CloudInv'
<1>1. /\ job' = Cloud!Idle /\ outcome' = [code |-> code, apiStatus |-> status]
      /\ cands' = <<>> /\ at' = None /\ attempt' = 0 /\ asked' = {}
  BY DEF Cloud!End
<1>2. job' \in Job /\ job'.who # "probe" /\ cands' \in Seq(Cloud!Domains)
  <2>1. <<>> \in Seq(Cloud!Domains)
    OBVIOUS
  <2>. QED BY <1>1, <2>1 DEF Cloud!Idle, Job
<1>3. CloudType' /\ Trying' /\ GoneOn'
  BY <1>1, <1>2 DEF CloudType, Trying, GoneOn
<1>4. Cloud!ToSet(Cloud!DEFAULT_FALLBACK_DOMAINS) = Regions
  BY RegionLists
<1>5. outcome'.apiStatus = status
  BY <1>1
<1>6. Cloud!RegionsExhausted'
  BY <1>4, <1>5 DEF Cloud!RegionsExhausted
<1>. QED BY <1>1, <1>3, <1>6 DEF CloudInv

\* The probe notes an entry.
LEMMA ProbeNotesStep ==
  ASSUME CloudType, job.who = "probe", outcome = Cloud!Pending,
         cloud' \in [Cloud!Domains -> Cloud!Answers \cup {None}],
         CredsOK(cloud', stored), CredsOK(cloud', success),
         NEW ok \in BOOLEAN, NEW creds, ok => CredsOK(cloud', creds), Cloud!ProbeNotes(ok, creds)
  PROVE  CloudInv'
<1>. DEFINE rest == Tail(job.queue)
            last == IF ok THEN creds ELSE success
<1>1. /\ success' = last
      /\ IF rest # <<>> /\ (~ok \/ job.tryAll)
         THEN /\ job' = [job EXCEPT !.queue = rest]
              /\ Cloud!SignIn(Head(rest))
              /\ UNCHANGED <<stored, outcome>>
         ELSE /\ Cloud!End(IF last = None THEN "exit1" ELSE "ok", None)
              /\ stored' = IF last # None /\ job.write THEN last ELSE stored
              /\ UNCHANGED tried
  BY DEF Cloud!ProbeNotes
<1>2. CredsOK(cloud', last)
  BY DEF last
<1>3. job.queue \in Seq(Cloud!Domains) /\ job.queue # <<>>
  BY DEF CloudType, Job
<1>. HIDE DEF last
<1>4. CASE rest # <<>> /\ (~ok \/ job.tryAll)
  <2>1. rest \in Seq(Cloud!Domains) /\ Head(rest) \in Cloud!Domains
    BY <1>3, <1>4
  <2>2. /\ job' = [job EXCEPT !.queue = rest] /\ Cloud!SignIn(Head(rest))
        /\ UNCHANGED <<stored, outcome>>
    BY <1>1, <1>4
  <2>. HIDE DEF rest
  <2>3. job' \in Job /\ job'.queue # <<>>
    BY <1>4, <2>1, <2>2 DEF CloudType, Job
  <2>4. /\ cands' \in Seq(Cloud!Domains) /\ at' \in Cloud!Domains /\ attempt' \in Nat
        /\ tried' \in SUBSET Cloud!Domains /\ asked' \in SUBSET Cloud!Domains /\ Trying' /\ GoneOn'
    BY <2>1, <2>2, TryingBegins
  <2>5. CloudType'
    BY <2>3, <2>4 DEF CloudType
  <2>6. outcome' = Cloud!Pending /\ Cloud!Pending' = Cloud!Pending
    BY <2>2 DEF Cloud!Pending
  <2>7. Cloud!RegionsExhausted'
    BY <2>6, DomainsAssumption DEF Cloud!Pending, Cloud!RegionsExhausted
  <2>. QED BY <1>1, <1>2, <2>2, <2>4, <2>5, <2>6, <2>7 DEF CloudInv
<1>5. CASE ~(rest # <<>> /\ (~ok \/ job.tryAll))
  <2>1. PICK code : Cloud!End(code, None)
    BY <1>1, <1>5
  <2>2. stored' \in {last, stored} /\ UNCHANGED tried
    BY <1>1, <1>5
  <2>3. CredsOK(cloud', stored') /\ CredsOK(cloud', success')
    BY <1>1, <1>2, <2>2
  <2>4. tried \in SUBSET Cloud!Domains /\ None # 1004
    BY DomainsAssumption DEF CloudType
  <2>. QED BY <2>1, <2>2, <2>3, <2>4, CallEnds
<1>. QED BY <1>4, <1>5

\* A sign-in that fails, for the region only when all were asked.
LEMMA RejectedStep ==
  ASSUME CloudType, outcome = Cloud!Pending,
         cloud' \in [Cloud!Domains -> Cloud!Answers \cup {None}],
         CredsOK(cloud', stored), CredsOK(cloud', success),
         NEW code, NEW status, Cloud!Rejected(code, status),
         status = 1004 /\ tried \cap Elsewhere = {} => tried = Regions
  PROVE  CloudInv'
<1>1. CASE Cloud!End(code, status) /\ UNCHANGED <<stored, tried, success>>
  <2>1. tried \in SUBSET Cloud!Domains
    BY DEF CloudType
  <2>2. CredsOK(cloud', stored') /\ CredsOK(cloud', success')
    BY <1>1
  <2>. QED BY <1>1, <2>1, <2>2, CallEnds
<1>2. CASE job.who = "probe" /\ Cloud!ProbeNotes(FALSE, None)
  BY <1>2, ProbeNotesStep
<1>. QED BY <1>1, <1>2 DEF Cloud!Rejected

\* The domain a region names.
LEMMA AnswerDomain ==
  ASSUME NEW answer \in Cloud!Answers
  PROVE  answer.domain \in {None} \cup Elsewhere \cup Redirects
<1>. DEFINE A == [status : {0}, domain : {None} \cup Elsewhere, whole : BOOLEAN, mfa : {FALSE}]
            B == [status : {1030}, domain : {None} \cup Redirects, whole : {FALSE}, mfa : {FALSE}]
            C == [status : {1004}, domain : {None}, whole : {FALSE}, mfa : {FALSE}]
            E == [status : {1022}, domain : {None}, whole : {FALSE}, mfa : BOOLEAN]
<1>1. Cloud!Answers = A \cup B \cup C \cup E
  BY SMT DEF Cloud!Answers, A, B, C, E
<1>2. ASSUME NEW r \in A PROVE r.domain \in {None} \cup Elsewhere
  BY <1>2
<1>3. ASSUME NEW r \in B PROVE r.domain \in {None} \cup Redirects
  BY <1>3
<1>4. ASSUME NEW r \in C PROVE r.domain \in {None}
  BY <1>4
<1>5. ASSUME NEW r \in E PROVE r.domain \in {None}
  BY <1>5
<1>. HIDE DEF A, B, C, E
<1>. QED BY <1>1, <1>2, <1>3, <1>4, <1>5

\* Another domain is named: the candidate has sent the client on.
LEMMA RedirectedStep ==
  ASSUME CloudInv, NEW answer \in Cloud!Answers, Cloud!Redirected(answer)
  PROVE  CloudInv'
<1>1. /\ Cloud!Answered(answer) /\ answer.status = 1030 /\ answer.domain # None
      /\ at' = answer.domain /\ attempt' = attempt + 1 /\ asked' = asked \cup {at}
      /\ UNCHANGED <<stored, job, cands, tried, success, outcome>>
  BY DEF Cloud!Redirected
<1>2. /\ at \in Cloud!Domains /\ cloud' \in [Cloud!Domains -> Cloud!Answers \cup {None}]
      /\ cloud'[at] = answer
      /\ \A d \in Cloud!Domains : cloud[d] \in Cloud!Answers => cloud'[d] = cloud[d]
  BY <1>1, AnsweredEffect DEF CloudInv
<1>3. at # None /\ outcome = Cloud!Pending
  BY <1>2, DomainsAssumption DEF CloudInv
<1>4. at' \in Cloud!Domains
  <2>1. Elsewhere \subseteq Cloud!Domains
    BY RegionLists
  <2>2. answer.domain \in {None} \cup Elsewhere \cup Redirects
    BY AnswerDomain
  <2>. QED BY <1>1, <2>1, <2>2, DomainsAssumption
<1>5. CloudType'
  BY <1>1, <1>2, <1>4 DEF CloudInv, CloudType
<1>6. /\ cands # <<>> /\ Head(cands) \in tried /\ tried \in SUBSET Cloud!Domains
      /\ asked \in SUBSET Cloud!Domains /\ GoneOn
      /\ tried \cap Elsewhere = {} => tried \cup Cloud!ToSet(cands) = Regions
  BY <1>3 DEF CloudInv, CloudType, Trying
<1>7. SentOn(cloud', at)
  BY <1>1, <1>2 DEF SentOn, Said
<1>8. GoneOn'
  BY <1>1, <1>2, <1>6, <1>7, SentOnStays DEF GoneOn
<1>9. attempt' # 0
  BY <1>1 DEF CloudInv, CloudType
<1>10. Trying'
  BY <1>1, <1>6, <1>9 DEF Trying
<1>11. CredsOK(cloud, stored)' /\ CredsOK(cloud, success)'
  BY <1>1, <1>2, CredsStay DEF CloudInv
<1>12. outcome' = Cloud!Pending' /\ Cloud!RegionsExhausted'
  BY <1>1, <1>3 DEF CloudInv, Cloud!Pending, Cloud!RegionsExhausted
<1>. QED BY <1>5, <1>8, <1>10, <1>11, <1>12 DEF CloudInv

\* What is left of a list without its first element.
LEMMA TailShifts ==
  ASSUME NEW D, NEW list \in Seq(D), Len(list) > 1
  PROVE  /\ Tail(list) \in Seq(D) /\ Len(Tail(list)) = Len(list) - 1 /\ Tail(list) # <<>>
         /\ \A n \in 1 .. Len(list) - 1 : Tail(list)[n] = list[n + 1]
<1>1. list # <<>>
  OBVIOUS
<1>2. Tail(list) \in Seq(D) /\ Len(Tail(list)) = Len(list) - 1
  BY <1>1
<1>3. Tail(list) # <<>>
  <2>1. Len(Tail(list)) # Len(<<>>)
    BY <1>2
  <2>. QED BY <2>1
<1>4. \A n \in 1 .. Len(list) - 1 : Tail(list)[n] = list[n + 1]
  BY <1>1
<1>. QED BY <1>2, <1>3, <1>4

\* The next region is asked after one that did not know the account.
LEMMA NextRegionStep ==
  ASSUME CloudInv, NEW answer \in Cloud!Answers, Cloud!NextRegion(answer)
  PROVE  CloudInv'
<1>1. /\ Cloud!Answered(answer) /\ answer.status = 1004 /\ Len(cands) > 1
      /\ cands' = Tail(cands) /\ at' = Head(Tail(cands)) /\ attempt' = 0
      /\ tried' = tried \cup {at'} /\ asked' = asked \cup {at}
      /\ UNCHANGED <<stored, job, success, outcome>>
  BY DEF Cloud!NextRegion
<1>2. /\ at \in Cloud!Domains /\ cloud' \in [Cloud!Domains -> Cloud!Answers \cup {None}]
      /\ cloud'[at] = answer
      /\ \A d \in Cloud!Domains : cloud[d] \in Cloud!Answers => cloud'[d] = cloud[d]
  BY <1>1, AnsweredEffect DEF CloudInv
<1>3. at # None /\ outcome = Cloud!Pending /\ cands \in Seq(Cloud!Domains)
  BY <1>2, DomainsAssumption DEF CloudInv, CloudType
<1>4. /\ cands' \in Seq(Cloud!Domains) /\ cands' # <<>> /\ at' = Head(cands') /\ at' \in Cloud!Domains
      /\ Cloud!ToSet(cands) = {Head(cands)} \cup Cloud!ToSet(cands')
  <2>1. /\ cands' \in Seq(Cloud!Domains) /\ Len(cands') = Len(cands) - 1 /\ cands' # <<>>
        /\ \A n \in 1 .. Len(cands) - 1 : cands'[n] = cands[n + 1]
    BY <1>1, <1>3, TailShifts
  <2>2. at' = Head(cands') /\ at' \in Cloud!Domains
    BY <1>1, <2>1
  <2>3. ASSUME NEW x \in Cloud!ToSet(cands) PROVE x \in {Head(cands)} \cup Cloud!ToSet(cands')
    <3>1. PICK n \in DOMAIN cands : x = cands[n]
      BY DEF Cloud!ToSet
    <3>2. CASE n = 1
      BY <1>3, <3>1, <3>2
    <3>3. CASE n # 1
      <4>1. n - 1 \in DOMAIN cands' /\ cands'[n - 1] = cands[n]
        BY <1>3, <2>1, <3>3
      <4>. QED BY <3>1, <4>1 DEF Cloud!ToSet
    <3>. QED BY <3>2, <3>3
  <2>4. ASSUME NEW x \in {Head(cands)} \cup Cloud!ToSet(cands') PROVE x \in Cloud!ToSet(cands)
    <3>1. CASE x = Head(cands)
      BY <1>1, <1>3, <3>1 DEF Cloud!ToSet
    <3>2. CASE x \in Cloud!ToSet(cands')
      <4>1. PICK n \in DOMAIN cands' : x = cands'[n]
        BY <3>2 DEF Cloud!ToSet
      <4>2. n + 1 \in DOMAIN cands /\ cands'[n] = cands[n + 1]
        BY <1>3, <2>1
      <4>. QED BY <4>1, <4>2 DEF Cloud!ToSet
    <3>. QED BY <3>1, <3>2
  <2>. QED BY <2>1, <2>2, <2>3, <2>4
<1>5. /\ Head(cands) \in tried /\ tried \in SUBSET Cloud!Domains
      /\ asked \in SUBSET Cloud!Domains /\ GoneOn
      /\ tried \cap Elsewhere = {} => tried \cup Cloud!ToSet(cands) = Regions
  BY <1>3 DEF CloudInv, CloudType, Trying
<1>6. SentOn(cloud', at)
  BY <1>1, <1>2 DEF SentOn, Said
<1>7. GoneOn'
  BY <1>1, <1>2, <1>5, <1>6, SentOnStays DEF GoneOn
<1>8. Trying'
  <2>1. cands' # <<>> /\ Head(cands') \in tried' /\ (attempt' = 0 => at' = Head(cands')) /\ attempt' = 0
    BY <1>1, <1>4
  <2>3. tried' \cup Cloud!ToSet(cands') = tried \cup Cloud!ToSet(cands)
    <3>1. at' \in Cloud!ToSet(cands')
      BY <1>4 DEF Cloud!ToSet
    <3>. QED BY <1>1, <1>4, <1>5, <3>1
  <2>4. tried' \cap Elsewhere = {} => tried' \cup Cloud!ToSet(cands') = Regions
    BY <1>1, <1>5, <2>3
  <2>. QED BY <2>1, <2>4 DEF Trying
<1>9. CloudType'
  BY <1>1, <1>2, <1>4 DEF CloudInv, CloudType
<1>10. CredsOK(cloud, stored)' /\ CredsOK(cloud, success)'
  BY <1>1, <1>2, CredsStay DEF CloudInv
<1>11. outcome' = Cloud!Pending' /\ Cloud!RegionsExhausted'
  BY <1>1, <1>3, DomainsAssumption DEF Cloud!Pending, Cloud!RegionsExhausted
<1>. QED BY <1>7, <1>8, <1>9, <1>10, <1>11 DEF CloudInv

\* Credentials are taken from the domain that gave them.
LEMMA SignedInStep ==
  ASSUME CloudInv, NEW answer \in Cloud!Answers, Cloud!SignedIn(answer)
  PROVE  CloudInv'
<1>. DEFINE creds == Cloud!Credentials(answer)
<1>1. Cloud!Answered(answer) /\ answer.status = 0 /\ answer.whole /\ Cloud!Accepted(creds)
  BY DEF Cloud!SignedIn
<1>2. /\ at \in Cloud!Domains /\ cloud' \in [Cloud!Domains -> Cloud!Answers \cup {None}]
      /\ cloud'[at] = answer
      /\ \A d \in Cloud!Domains : cloud[d] \in Cloud!Answers => cloud'[d] = cloud[d]
  BY <1>1, AnsweredEffect DEF CloudInv
<1>3. outcome = Cloud!Pending /\ CloudType /\ tried \in SUBSET Cloud!Domains
  BY <1>2, DomainsAssumption DEF CloudInv, CloudType
<1>4. CredsOK(cloud', creds)
  <2>1. creds.from = at /\ (answer.domain # None => creds.domain = answer.domain)
    BY DEF Cloud!Credentials
  <2>. HIDE DEF creds
  <2>. QED BY <1>1, <1>2, <2>1 DEF CredsOK, Said
<1>5. CredsOK(cloud', stored) /\ CredsOK(cloud', success)
  BY <1>2, CredsStay DEF CloudInv
<1>. HIDE DEF creds
<1>6. CASE stored' = creds /\ Cloud!End("ok", None) /\ UNCHANGED <<tried, success>>
  <2>1. CredsOK(cloud', stored') /\ CredsOK(cloud', success')
    BY <1>4, <1>5, <1>6
  <2>2. None # 1004
    BY DomainsAssumption
  <2>. QED BY <1>2, <1>3, <1>6, <2>1, <2>2, CallEnds
<1>7. CASE job.who = "probe" /\ Cloud!ProbeNotes(TRUE, creds)
  BY <1>2, <1>3, <1>4, <1>5, <1>7, ProbeNotesStep
<1>. QED BY <1>1, <1>6, <1>7 DEF Cloud!Accepted

\* A refusal ends the sign-in; with 1004 no candidate is left.
LEMMA RefusedStep ==
  ASSUME CloudInv, NEW answer \in Cloud!Answers, Cloud!Refused(answer)
  PROVE  CloudInv'
<1>1. PICK code : /\ Cloud!Answered(answer) /\ (answer.status = 1004 => Len(cands) = 1)
                  /\ Cloud!Rejected(code, IF answer.status = 0 THEN None ELSE answer.status)
  BY DEF Cloud!Refused
<1>2. /\ at \in Cloud!Domains /\ cloud' \in [Cloud!Domains -> Cloud!Answers \cup {None}]
      /\ \A d \in Cloud!Domains : cloud[d] \in Cloud!Answers => cloud'[d] = cloud[d]
  BY <1>1, AnsweredEffect DEF CloudInv
<1>3. at # None /\ outcome = Cloud!Pending /\ CloudType /\ cands \in Seq(Cloud!Domains)
  BY <1>2, DomainsAssumption DEF CloudInv, CloudType
<1>4. CredsOK(cloud', stored) /\ CredsOK(cloud', success)
  BY <1>2, CredsStay DEF CloudInv
<1>5. PICK status : Cloud!Rejected(code, status) /\ (status = 1004 => answer.status = 1004)
  BY <1>1, DomainsAssumption
<1>6. ASSUME Len(cands) = 1, tried \cap Elsewhere = {} PROVE tried = Regions
  <2>1. Cloud!ToSet(cands) = {Head(cands)}
    BY <1>3, <1>6 DEF Cloud!ToSet
  <2>2. Head(cands) \in tried /\ tried \cup Cloud!ToSet(cands) = Regions
    BY <1>3, <1>6 DEF CloudInv, Trying
  <2>. QED BY <2>1, <2>2
<1>7. status = 1004 /\ tried \cap Elsewhere = {} => tried = Regions
  BY <1>1, <1>5, <1>6
<1>. QED BY <1>2, <1>3, <1>4, <1>5, <1>7, RejectedStep

\* No answer ends it too.
LEMMA PostFailsStep ==
  ASSUME CloudInv, Cloud!PostFails
  PROVE  CloudInv'
<1>1. PICK code : at # None /\ Cloud!Rejected(code, None) /\ UNCHANGED cloud
  BY DEF Cloud!PostFails
<1>2. /\ outcome = Cloud!Pending /\ CloudType /\ None # 1004
      /\ cloud' \in [Cloud!Domains -> Cloud!Answers \cup {None}]
      /\ CredsOK(cloud', stored) /\ CredsOK(cloud', success)
  BY <1>1, DomainsAssumption DEF CloudInv, CloudType
<1>. QED BY <1>1, <1>2, RejectedStep

\* Nothing is asked or stored at first.
LEMMA CloudInit == Cloud!Init => CloudInv
<1>. SUFFICES ASSUME Cloud!Init PROVE CloudInv
  OBVIOUS
<1>1. /\ cloud = [d \in Cloud!Domains |-> None] /\ stored = None /\ job = Cloud!Idle /\ cands = <<>>
      /\ at = None /\ attempt = 0 /\ tried = {} /\ asked = {} /\ success = None /\ outcome = Cloud!Pending
  BY DEF Cloud!Init
<1>2. job \in Job /\ job.who # "probe" /\ cands \in Seq(Cloud!Domains)
  <2>1. <<>> \in Seq(Cloud!Domains)
    OBVIOUS
  <2>. QED BY <1>1, <2>1 DEF Cloud!Idle, Job
<1>3. CloudType /\ Trying /\ GoneOn
  BY <1>1, <1>2 DEF CloudType, Trying, GoneOn
<1>4. CredsOK(cloud, stored) /\ CredsOK(cloud, success)
  BY <1>1 DEF CredsOK
<1>5. Cloud!RegionsExhausted
  BY <1>1, DomainsAssumption DEF Cloud!RegionsExhausted, Cloud!Pending
<1>. QED BY <1>1, <1>3, <1>4, <1>5 DEF CloudInv

\* A step that leaves the sign-ins alone keeps their invariant.
LEMMA CloudKept ==
  ASSUME CloudInv, UNCHANGED cloudVars
  PROVE  CloudInv'
<1>1. UNCHANGED <<cloud, stored, job, cands, at, attempt, tried, asked, success, outcome>>
  BY DEF cloudVars
<1>2. CloudType' /\ Trying' /\ GoneOn'
  BY <1>1 DEF CloudInv, CloudType, Trying, GoneOn
<1>3. Cloud!RegionsExhausted' /\ Cloud!Pending' = Cloud!Pending
  BY <1>1 DEF CloudInv, Cloud!RegionsExhausted, Cloud!Pending
<1>. QED BY <1>1, <1>2, <1>3 DEF CloudInv

\* Every step of a sign-in.
LEMMA CloudNext ==
  ASSUME CloudInv, Cloud!Next
  PROVE  CloudInv'
<1>1. CASE \E domain \in Options :
             \/ Cloud!Login(domain)
             \/ \E guess \in Guesses, tryAll, write \in BOOLEAN : Cloud!Probe(domain, guess, tryAll, write)
  BY <1>1, LoginStep, ProbeCloudStep
<1>2. CASE Cloud!Post
  BY <1>2, RedirectedStep, NextRegionStep, SignedInStep, RefusedStep, PostFailsStep DEF Cloud!Post
<1>3. CASE Cloud!Rest
  BY <1>3, CloudKept DEF Cloud!Rest, Cloud!vars, cloudVars
<1>. QED BY <1>1, <1>2, <1>3 DEF Cloud!Next

\* It gives what the run checks.
LEMMA SignInsSound == CloudInv => SignInSound
<1>. SUFFICES ASSUME CloudInv
              PROVE  Cloud!StoredFromAccepting /\ Cloud!NoRefusalRetried /\ Cloud!RegionsExhausted
  BY DEF SignInSound
<1>1. Cloud!StoredFromAccepting
  BY DEF CloudInv, CredsOK, Said, Cloud!StoredFromAccepting
<1>2. Cloud!NoRefusalRetried
  BY DEF CloudInv, GoneOn, SentOn, Said, Cloud!NoRefusalRetried
<1>. QED BY <1>1, <1>2 DEF CloudInv

-----------------------------------------------------------------------------
(* Address ranges *)

\* How many addresses there are and how many share a prefix, and the first of these.
Size == 2^Width
Part(p) == 2^(Width - p)
First(base, p) == Part(p) * (base \div Part(p))
Half == 2^(Width - 1)
Prefixes == 0 .. Width

\* Powers of two divide each other, the sizes of the subnets too.
LEMMA Sizes ==
  ASSUME NEW p \in Prefixes
  PROVE  /\ Width \in Nat /\ Width - p \in Nat /\ Width - p <= Width
         /\ Size \in Nat \ {0} /\ Part(p) \in Nat \ {0} /\ Part(p) <= Size
         /\ \E x \in Nat \ {0} : Size = Part(p) * x
         /\ Half \in Nat \ {0} /\ Size = 2 * Half
         /\ p # 0 => \E x \in Nat \ {0} : Half = Part(p) * x
         /\ Cidrs!Words = 0 .. Size - 1
<1>. DEFINE h == Width - p
            v == Width - 1
<1>1. Width \in Nat /\ h \in Nat /\ h <= Width /\ v \in Nat /\ Width = v + 1 /\ (p # 0 => h <= v)
  BY WidthIsWord DEF Prefixes
<1>2. Cidrs!Words = 0 .. Size - 1
  BY DEF Cidrs!Words, Size
<1>. HIDE DEF h, v
<1>3. 2^Width \in Nat \ {0} /\ 2^h \in Nat \ {0} /\ 2^v \in Nat \ {0} /\ 2^Width = 2 * 2^v
  BY <1>1, PowerPositive, PowerStep
<1>4. Width - h \in Nat /\ 2^Width = 2^h * 2^(Width - h) /\ 2^h <= 2^Width
  BY <1>1, PowerSplit
<1>5. 2^(Width - h) \in Nat \ {0}
  BY <1>4, PowerPositive
<1>6. ASSUME p # 0 PROVE \E x \in Nat \ {0} : 2^v = 2^h * x
  <2>1. v - h \in Nat /\ 2^v = 2^h * 2^(v - h)
    BY <1>1, <1>6, PowerSplit
  <2>2. 2^(v - h) \in Nat \ {0}
    BY <2>1, PowerPositive
  <2>. QED BY <2>1, <2>2
<1>. QED BY <1>1, <1>2, <1>3, <1>4, <1>5, <1>6 DEF Size, Part, Half, h, v

\* The mask of a prefix is one block of ones at the top.
LEMMA MaskIs ==
  ASSUME NEW p \in Prefixes
  PROVE  Cidrs!Mask(p) = Size - Part(p)
<1>1. Size \in Nat \ {0} /\ Part(p) \in Nat \ {0} /\ Part(p) <= Size
  BY Sizes
<1>2. CASE p = 0
  <2>1. Part(p) = Size
    BY <1>2, WidthIsWord DEF Part, Size
  <2>. QED BY <1>1, <1>2, <2>1 DEF Cidrs!Mask
<1>3. CASE p # 0
  <2>1. Cidrs!Mask(p) = ((Size - 1) * Part(p)) % Size
    BY <1>3 DEF Cidrs!Mask, Cidrs!Unsigned, Size, Part
  <2>. DEFINE s == Size
              d == Part(p)
              n == (s - 1) * d
              q == d - 1
              r == s - d
  <2>2. n % s = r
    <3>. HIDE DEF s, d
    <3>1. s \in Nat \ {0} /\ d \in Nat \ {0} /\ d <= s
      BY <1>1 DEF s, d
    <3>2. s * d \in Int /\ n = s * d - d /\ s * q = s * d - s
      BY <3>1
    <3>3. n \in Int /\ q \in Int /\ r \in 0 .. s - 1 /\ n = s * q + r
      BY <3>1, <3>2
    <3>. HIDE DEF n, q, r
    <3>. QED BY <3>1, <3>3, DivUnique
  <2>. QED BY <2>1, <2>2
<1>. QED BY <1>2, <1>3

\* Making a signed word unsigned again restores it.
LEMMA SignUndone ==
  ASSUME NEW n \in 0 .. Size - 1
  PROVE  Cidrs!Unsigned(Cidrs!Signed(n)) = n
<1>1. Size \in Nat \ {0}
  BY Sizes, WidthIsWord DEF Prefixes
<1>. DEFINE s == Size
            m == Cidrs!Signed(n)
<1>2. \E q \in Int : m = s * q + n
  <2>1. m = n \/ m = n - s
    BY DEF Cidrs!Signed, Size
  <2>2. n = s * 0 + n /\ n - s = s * (-1) + n
    BY <1>1
  <2>. HIDE DEF s, m
  <2>. QED BY <2>1, <2>2
<1>3. PICK q \in Int : m = s * q + n
  BY <1>2
<1>4. s \in Nat \ {0} /\ n \in 0 .. s - 1
  BY <1>1
<1>5. Cidrs!Unsigned(m) = m % s
  BY DEF Cidrs!Unsigned, Size
<1>. HIDE DEF s, m
<1>6. m \in Int
  BY <1>3, <1>4
<1>7. m % s = n
  BY <1>3, <1>4, <1>6, DivUnique
<1>. QED BY <1>5, <1>7 DEF m

\* The addresses of a prefix lie within the words and, unless they are all, on one side
\* of the sign bit.
LEMMA FirstIs ==
  ASSUME NEW p \in Prefixes, NEW base \in 0 .. Size - 1
  PROVE  /\ base \div Part(p) \in Nat
         /\ First(base, p) \in Nat /\ First(base, p) + Part(p) <= Size
         /\ base \in First(base, p) .. First(base, p) + Part(p) - 1
         /\ p # 0 => First(base, p) >= Half \/ First(base, p) + Part(p) <= Half
         /\ p = 0 => First(base, p) = 0 /\ Part(p) = Size
<1>. DEFINE d == Part(p)
            q == base \div d
            n == First(base, p)
<1>1. Size \in Nat \ {0} /\ d \in Nat \ {0} /\ Half \in Nat \ {0}
  BY Sizes
<1>2. PICK x \in Nat \ {0} : Size = d * x
  BY Sizes
<1>3. p = 0 => d = Size
  BY WidthIsWord DEF Part, Size
<1>4. n = d * q
  BY DEF First
<1>5. ASSUME p # 0 PROVE \E y \in Nat \ {0} : Half = d * y
  BY <1>5, Sizes
<1>6. base \in Nat /\ base < Size
  BY <1>1
<1>. HIDE DEF d
<1>7. q \in Nat /\ base % d \in 0 .. d - 1 /\ base = d * q + (base % d)
  BY <1>1, <1>6, DivNat
<1>. HIDE DEF q, n
<1>8. n \in Nat /\ base \in n .. n + d - 1
  BY <1>1, <1>4, <1>6, <1>7
<1>9. ASSUME NEW y \in Nat, NEW z \in Nat, z < y PROVE d * z + d <= d * y
  <2>1. PICK u \in Nat : y = z + 1 + u
    <3>1. y - z - 1 \in Nat /\ y = z + 1 + (y - z - 1)
      BY <1>9
    <3>. QED BY <3>1
  <2>2. d * y = d * z + d + d * u /\ d * u \in Nat /\ d * z \in Nat
    BY <1>1, <2>1
  <2>. QED BY <1>1, <2>2
<1>10. n + d <= Size
  <2>1. ASSUME x <= q PROVE FALSE
    <3>1. d * x <= d * q /\ d * q \in Nat /\ d * x \in Nat
      <4>1. CASE x = q
        BY <1>1, <1>7, <4>1
      <4>2. CASE x < q
        <5>1. d * x + d <= d * q /\ d * q \in Nat /\ d * x \in Nat
          BY <1>1, <1>7, <1>9, <4>2
        <5>. QED BY <1>1, <5>1
      <4>. QED BY <1>7, <2>1, <4>1, <4>2
    <3>. QED BY <1>2, <1>6, <1>7, <3>1
  <2>2. q < x
    BY <1>7, <2>1
  <2>. QED BY <1>2, <1>4, <1>7, <1>9, <2>2
<1>11. ASSUME p # 0 PROVE n >= Half \/ n + d <= Half
  <2>1. PICK y \in Nat \ {0} : Half = d * y
    BY <1>5, <1>11
  <2>2. CASE q < y
    BY <1>4, <1>7, <1>9, <2>1, <2>2
  <2>3. CASE q = y
    BY <1>1, <1>4, <2>1, <2>3
  <2>4. CASE y < q
    <3>1. d * y + d <= d * q
      BY <1>7, <1>9, <2>4
    <3>. QED BY <1>1, <1>4, <1>8, <2>1, <3>1
  <2>. QED BY <1>7, <2>2, <2>3, <2>4
<1>12. p = 0 => n = 0 /\ d = Size
  <2>1. ASSUME p = 0, n # 0 PROVE FALSE
    BY <1>1, <1>3, <1>8, <1>10, <2>1
  <2>. QED BY <1>3, <2>1
<1>. QED BY <1>7, <1>8, <1>10, <1>11, <1>12 DEF d, q, n

\* The words of the model are those the lemmas are about.
LEMMA WordOfIs ==
  ASSUME NEW bits, bits \in SUBSET (0 .. Width - 1)
  PROVE  Cidrs!WordOf(bits) = Word(bits)
<1>1. bits \subseteq Nat /\ IsFiniteSet(bits)
  <2>. DEFINE all == 0 .. Width - 1
  <2>1. bits \subseteq all /\ IsFiniteSet(all) /\ all \subseteq Nat
    BY FS_Interval, WidthIsWord
  <2>. HIDE DEF all
  <2>. QED BY <2>1, FS_Subset
<1>2. SumFunctionOnSet([b \in bits |-> 2^b], bits) = Word(bits)
  BY <1>1, WordIs
<1>. DEFINE f == [b \in bits |-> 2^b]
<1>3. DOMAIN f = bits
  OBVIOUS
<1>4. Cidrs!WordOf(bits) = Cidrs!SumFunction(f)
  BY DEF Cidrs!WordOf
<1>. HIDE DEF f
<1>5. Cidrs!SumFunction(f) = SumFunctionOnSet(f, DOMAIN f)
  BY DEF Cidrs!SumFunction, Cidrs!SumFunctionOnSet, Cidrs!FoldFunctionOnSet, Cidrs!MapThenFoldSet,
         SumFunctionOnSet, FoldFunctionOnSet, MapThenFoldSet
<1>. QED BY <1>2, <1>3, <1>4, <1>5 DEF f

\* The network of an address is the first with its prefix, the broadcast address the last.
LEMMA EndsAre ==
  ASSUME NEW p \in Prefixes, NEW base \in 0 .. Size - 1
  PROVE  /\ Cidrs!Network(base, p) = Cidrs!Signed(First(base, p))
         /\ Cidrs!Broadcast(base, p) = Cidrs!Signed(First(base, p) + (Part(p) - 1))
<1>. DEFINE h == Width - p
            q == base \div 2^h
            n == 2^h * q
<1>1. Width \in Nat /\ h \in Nat /\ h <= Width /\ Size \in Nat \ {0} /\ Part(p) \in Nat \ {0}
  BY Sizes
<1>2. q \in Nat /\ n \in Nat /\ n + Part(p) <= Size /\ n = First(base, p) /\ Part(p) = 2^h
  BY FirstIs DEF First, Part
<1>3. base \in 0 .. 2^Width - 1
  BY DEF Size
<1>4. Cidrs!Mask(p) = 2^Width - 2^h
  BY MaskIs DEF Size, Part
<1>5. Cidrs!And(base, Cidrs!Mask(p)) = n
  <2>. DEFINE bits == {b \in 0 .. Width - 1 : BitAt(base, b) = 1 /\ BitAt(2^Width - 2^h, b) = 1}
  <2>1. Cidrs!And(base, Cidrs!Mask(p)) = Cidrs!WordOf(bits)
    BY <1>4 DEF Cidrs!And, Cidrs!Bit, BitAt
  <2>2. bits \in SUBSET (0 .. Width - 1)
    OBVIOUS
  <2>3. Word(bits) = n
    <3>. HIDE DEF h
    <3>. QED BY <1>1, <1>3, MaskedWord
  <2>. HIDE DEF bits, n
  <2>. QED BY <2>1, <2>2, <2>3, WordOfIs
<1>6. Cidrs!Network(base, p) = Cidrs!Signed(n)
  BY <1>5 DEF Cidrs!Network
<1>7. Cidrs!Unsigned(Cidrs!Network(base, p)) = n
  <2>1. n \in 0 .. Size - 1
    BY <1>1, <1>2
  <2>. HIDE DEF n
  <2>. QED BY <1>6, <2>1, SignUndone
<1>8. 2^Width - 1 - Cidrs!Mask(p) = 2^h - 1
  <2>1. 2^Width \in Nat /\ 2^h \in Nat
    BY <1>1, <1>2 DEF Size
  <2>. HIDE DEF h
  <2>. QED BY <1>4, <2>1
<1>9. Cidrs!Or(n, 2^h - 1) = n + (2^h - 1)
  <2>. DEFINE bits == {b \in 0 .. Width - 1 : BitAt(n, b) = 1 \/ BitAt(2^h - 1, b) = 1}
  <2>1. Cidrs!Or(n, 2^h - 1) = Cidrs!WordOf(bits)
    BY DEF Cidrs!Or, Cidrs!Bit, BitAt
  <2>2. bits \in SUBSET (0 .. Width - 1)
    OBVIOUS
  <2>3. n < 2^Width
    BY <1>1, <1>2 DEF Size
  <2>4. Word(bits) = n + (2^h - 1)
    <3>. HIDE DEF h, q
    <3>. QED BY <1>1, <1>2, <2>3, FilledWord
  <2>. HIDE DEF bits, n, h
  <2>. QED BY <2>1, <2>2, <2>4, WordOfIs
<1>10. Cidrs!Broadcast(base, p) = Cidrs!Signed(n + (2^h - 1))
  BY <1>7, <1>8, <1>9 DEF Cidrs!Broadcast
<1>. QED BY <1>2, <1>6, <1>10

\* What listing a CIDR gives: the addresses after the first one, without the last.
Listed(base, p) == [k \in 1 .. Part(p) - 2 |-> First(base, p) + k]

\* The list is that one for the prefixes with hosts, and empty for the others.
LEMMA ListIs ==
  ASSUME NEW p \in Prefixes, NEW base \in 0 .. Size - 1
  PROVE  Cidrs!ListHostsInCidr(base, p) = IF p \in 1 .. Width - 2 THEN Listed(base, p) ELSE <<>>
<1>. DEFINE n == First(base, p)
            d == Part(p)
            network == Cidrs!Network(base, p)
            count == Cidrs!Broadcast(base, p) - network - 1
<1>1. /\ Size \in Nat \ {0} /\ d \in Nat \ {0} /\ d <= Size /\ Half \in Nat \ {0} /\ Size = 2 * Half
      /\ n \in Nat /\ n + d <= Size
      /\ p # 0 => n >= Half \/ n + d <= Half
      /\ p = 0 => n = 0 /\ d = Size
  BY Sizes, FirstIs
<1>2. network = Cidrs!Signed(n) /\ Cidrs!Broadcast(base, p) = Cidrs!Signed(n + (d - 1))
  BY EndsAre
<1>3. Cidrs!ListHostsInCidr(base, p) =
        IF p >= Width - 1 \/ count < 0 THEN <<>> ELSE [k \in 1 .. count |-> Cidrs!Unsigned(network + k)]
  BY DEF Cidrs!ListHostsInCidr
<1>4. Width \in Nat /\ Width >= 2 /\ p \in 0 .. Width
  BY WidthIsWord DEF Prefixes
<1>. DEFINE signed(m) == IF m >= Half THEN m - Size ELSE m
<1>5. \A m : Cidrs!Signed(m) = signed(m)
  BY DEF Cidrs!Signed, Half, Size
<1>6. CASE p = 0
  <2>1. count = -2
    <3>1. n = 0 /\ d = Size
      BY <1>1, <1>6
    <3>2. signed(n) = 0 /\ signed(n + (d - 1)) = -1
      <4>. HIDE DEF n, d
      <4>. QED BY <1>1, <3>1
    <3>. HIDE DEF n, d, network
    <3>. QED BY <1>2, <1>5, <3>2
  <2>2. Cidrs!ListHostsInCidr(base, p) = <<>>
    <3>. HIDE DEF count, network
    <3>. QED BY <1>3, <2>1
  <2>. QED BY <1>6, <2>2
<1>7. CASE p \in 1 .. Width - 2
  <2>1. \A k \in 0 .. d - 1 : n + k \in 0 .. Size - 1 /\ signed(n + k) = signed(n) + k /\ signed(n) \in Int
    <3>. HIDE DEF n, d
    <3>. QED BY <1>1, <1>4, <1>7
  <2>2. count = d - 2
    <3>1. signed(n + (d - 1)) = signed(n) + (d - 1) /\ signed(n) \in Int /\ d \in Int
      <4>1. d - 1 \in 0 .. d - 1
        BY <1>1
      <4>. HIDE DEF n, d, signed
      <4>. QED BY <1>1, <2>1, <4>1
    <3>. HIDE DEF n, d, network, signed
    <3>2. count = signed(n) + (d - 1) - signed(n) - 1
      BY <1>2, <1>5, <3>1
    <3>. HIDE DEF count
    <3>. QED BY <3>1, <3>2
  <2>3. \A k \in 1 .. d - 2 : Cidrs!Unsigned(network + k) = n + k
    <3>1. ASSUME NEW k \in 1 .. d - 2 PROVE Cidrs!Unsigned(network + k) = n + k
      <4>1. k \in 0 .. d - 1
        BY <1>1
      <4>. DEFINE m == n + k
      <4>2. m \in 0 .. Size - 1 /\ Cidrs!Signed(m) = network + k
        <5>. HIDE DEF n, d, network, signed
        <5>. QED BY <1>2, <1>5, <2>1, <4>1
      <4>. HIDE DEF m, network
      <4>3. Cidrs!Unsigned(network + k) = m
        BY <4>2, SignUndone
      <4>. QED BY <4>3 DEF m
    <3>. QED BY <3>1
  <2>4. d >= 2
    <3>. DEFINE h == Width - p
                g == h - 1
    <3>1. h \in Nat /\ g \in Nat /\ h = g + 1 /\ d = 2^h
      BY <1>4, <1>7 DEF Part
    <3>. HIDE DEF h, g, d
    <3>2. d = 2 * 2^g /\ 2^g \in Nat \ {0}
      BY <3>1, PowerStep, PowerPositive
    <3>. QED BY <3>2
  <2>5. Cidrs!ListHostsInCidr(base, p) = [k \in 1 .. d - 2 |-> Cidrs!Unsigned(network + k)]
    <3>1. ~(p >= Width - 1 \/ d - 2 < 0)
      <4>. HIDE DEF d
      <4>. QED BY <1>1, <1>4, <1>7, <2>4
    <3>. HIDE DEF d, network, count
    <3>. QED BY <1>3, <2>2, <3>1
  <2>6. Cidrs!ListHostsInCidr(base, p) = [k \in 1 .. d - 2 |-> n + k]
    <3>. HIDE DEF d, network, n
    <3>. QED BY <2>3, <2>5
  <2>. QED BY <1>7, <2>6 DEF Listed
<1>8. CASE p >= Width - 1
  <2>1. Cidrs!ListHostsInCidr(base, p) = <<>>
    <3>. HIDE DEF count, network
    <3>. QED BY <1>3, <1>8
  <2>. QED BY <1>4, <1>8, <2>1
<1>. QED BY <1>4, <1>6, <1>7, <1>8

\* The addresses with a prefix are an interval.
LEMMA SubnetIs ==
  ASSUME NEW p \in Prefixes, NEW base \in 0 .. Size - 1
  PROVE  Cidrs!Subnet(base, p) = First(base, p) .. First(base, p) + Part(p) - 1
<1>. DEFINE d == Part(p)
            q == base \div d
            n == First(base, p)
<1>1. /\ Size \in Nat \ {0} /\ d \in Nat \ {0} /\ q \in Nat /\ n \in Nat /\ n + d <= Size
      /\ Cidrs!Words = 0 .. Size - 1
  BY Sizes, FirstIs
<1>2. n = d * q
  BY DEF First
<1>3. Cidrs!Subnet(base, p) = {m \in Cidrs!Words : m \div d = q}
  BY DEF Cidrs!Subnet, Part
<1>. HIDE DEF d, q, n
<1>4. ASSUME NEW m \in 0 .. Size - 1, m \div d = q PROVE m \in n .. n + d - 1
  <2>1. m \in Nat
    BY <1>1
  <2>2. m % d \in 0 .. d - 1 /\ m = d * q + (m % d)
    BY <1>1, <1>4, <2>1, DivNat
  <2>. QED BY <1>1, <1>2, <2>2
<1>5. ASSUME NEW m \in n .. n + d - 1 PROVE m \in 0 .. Size - 1 /\ m \div d = q
  <2>. DEFINE r == m - n
  <2>1. m \in Int /\ r \in 0 .. d - 1 /\ m = d * q + r /\ m \in 0 .. Size - 1
    BY <1>1, <1>2
  <2>. HIDE DEF r
  <2>. QED BY <1>1, <2>1, DivUnique
<1>6. Cidrs!Subnet(base, p) = n .. n + d - 1
  BY <1>1, <1>3, <1>4, <1>5
<1>. QED BY <1>6 DEF n, d

\* The hosts listed for a CIDR are its subnet without both ends, in ascending order.
LEMMA HostsExact ==
  ASSUME NEW p \in 1 .. Width - 2, NEW base \in 0 .. Size - 1, NEW S, S = Cidrs!Subnet(base, p)
  PROVE  /\ Cidrs!Range(Listed(base, p)) = S \ Cidrs!Extremes(S)
         /\ \A k \in 1 .. Len(Listed(base, p)) - 1 : Listed(base, p)[k] < Listed(base, p)[k + 1]
<1>. DEFINE n == First(base, p)
            d == Part(p)
            c == d - 2
            list == [k \in 1 .. c |-> n + k]
<1>0. p \in Prefixes
  BY WidthIsWord DEF Prefixes
<1>1. d \in Nat \ {0} /\ n \in Nat /\ S = n .. n + d - 1 /\ list = Listed(base, p)
  BY <1>0, Sizes, FirstIs, SubnetIs DEF Listed
<1>2. c \in Nat
  <2>. DEFINE h == Width - p
              g == h - 1
  <2>1. h \in Nat /\ g \in Nat /\ h = g + 1 /\ d = 2^h
    BY WidthIsWord DEF Part
  <2>. HIDE DEF h, g, d
  <2>2. d = 2 * 2^g /\ 2^g \in Nat \ {0}
    BY <2>1, PowerStep, PowerPositive
  <2>. QED BY <2>2
<1>. HIDE DEF n, d
<1>3. Cidrs!Extremes(S) = {n, n + d - 1}
  <2>1. n \in S /\ n + d - 1 \in S /\ \A m \in S : n <= m /\ m <= n + d - 1 /\ m \in Int
    BY <1>1
  <2>2. ASSUME NEW m \in S, (\A x \in S : m <= x) \/ (\A x \in S : x <= m) PROVE m \in {n, n + d - 1}
    BY <1>1, <2>1, <2>2
  <2>. QED BY <2>1, <2>2 DEF Cidrs!Extremes
<1>4. S \ Cidrs!Extremes(S) = n + 1 .. n + c
  BY <1>1, <1>2, <1>3
<1>5. DOMAIN list = 1 .. c /\ Len(list) = c /\ \A k \in 1 .. c : list[k] = n + k
  <2>1. list \in Seq(Int)
    BY <1>1, <1>2
  <2>. HIDE DEF c
  <2>. QED BY <1>2, <2>1
<1>. HIDE DEF c, list
<1>6. Cidrs!Range(list) = n + 1 .. n + c
  <2>1. ASSUME NEW m \in n + 1 .. n + c PROVE \E k \in 1 .. c : m = n + k
    <3>1. m - n \in 1 .. c /\ m = n + (m - n)
      BY <1>1, <1>2
    <3>. QED BY <3>1
  <2>2. Cidrs!Range(list) = {list[k] : k \in 1 .. c}
    BY <1>5 DEF Cidrs!Range
  <2>3. \A k \in 1 .. c : n + k \in n + 1 .. n + c
    BY <1>1, <1>2
  <2>4. {list[k] : k \in 1 .. c} = {n + k : k \in 1 .. c}
    BY <1>5
  <2>5. {n + k : k \in 1 .. c} = n + 1 .. n + c
    <3>. DEFINE J == n + 1 .. n + c
    <3>. HIDE DEF J
    <3>1. (\A m \in J : \E k \in 1 .. c : m = n + k) /\ (\A k \in 1 .. c : n + k \in J)
      BY <2>1, <2>3 DEF J
    <3>2. {n + k : k \in 1 .. c} = J
      BY <3>1
    <3>. QED BY <3>2 DEF J
  <2>. QED BY <2>2, <2>4, <2>5
<1>7. \A k \in 1 .. Len(list) - 1 : list[k] < list[k + 1]
  BY <1>1, <1>2, <1>5
<1>. QED BY <1>1, <1>4, <1>6, <1>7

\* The loop over the bits of a netmask, as the function the model defines.
Begin == [bits |-> 0, zero |-> FALSE, bad |-> FALSE]
Round(f, mask, k) == IF k = 0 THEN Begin ELSE Cidrs!ScanBit(f[k - 1], Cidrs!Bit(mask, Width - k))
IsScan(f, mask, n) == f = [k \in 0 .. n |-> Round(f, mask, k)]

\* Each of its values is the one its round gives.
LEMMA ScanAt ==
  ASSUME NEW f, NEW mask, NEW n \in Nat, IsScan(f, mask, n), NEW k \in 0 .. n
  PROVE  f[k] = Round(f, mask, k)
<1>. DEFINE body(j) == Round(f, mask, j)
<1>1. f = [j \in 0 .. n |-> body(j)]
  BY DEF IsScan
<1>. HIDE DEF body
<1>2. f[k] = body(k)
  BY <1>1
<1>. QED BY <1>2 DEF body

\* There is such a function: each one can be continued by a round.
LEMMA ScanExists ==
  ASSUME NEW mask, NEW n0 \in Nat
  PROVE  \E f : IsScan(f, mask, n0)
<1>. DEFINE B == {n \in Nat : ~\E f : IsScan(f, mask, n)}
<1>1. ASSUME B # {} PROVE FALSE
  <2>1. PICK n \in B : \A m \in B : n <= m
    <3>1. B \subseteq Nat
      OBVIOUS
    <3>. HIDE DEF B
    <3>. QED BY <1>1, <3>1, LeastNat
  <2>2. n \in Nat /\ ~\E f : IsScan(f, mask, n)
    OBVIOUS
  <2>3. CASE n = 0
    <3>. DEFINE g == [k \in 0 .. n |-> Begin]
    <3>1. \A k \in 0 .. n : Round(g, mask, k) = Begin
      BY <2>3 DEF Round
    <3>2. IsScan(g, mask, n)
      BY <3>1 DEF IsScan
    <3>. QED BY <2>2, <3>2
  <2>4. CASE n # 0
    <3>. DEFINE m == n - 1
    <3>1. m \in Nat /\ ~(n <= m) /\ n = m + 1
      BY <2>2, <2>4
    <3>2. m \notin B
      BY <2>1, <3>1
    <3>3. PICK f : IsScan(f, mask, m)
      BY <3>1, <3>2
    <3>. DEFINE g == [k \in 0 .. n |-> IF k = n THEN Round(f, mask, n) ELSE f[k]]
    <3>. HIDE DEF m
    <3>4. \A k \in 0 .. m : g[k] = f[k]
      BY <3>1
    <3>5. ASSUME NEW k \in 0 .. n PROVE g[k] = Round(g, mask, k)
      <4>1. Round(g, mask, k) = Round(f, mask, k)
        <5>1. CASE k = 0
          BY <5>1 DEF Round
        <5>2. CASE k # 0
          <6>1. k - 1 \in 0 .. m
            BY <3>1, <5>2
          <6>2. g[k - 1] = f[k - 1]
            BY <3>4, <6>1
          <6>. HIDE DEF g
          <6>. QED BY <5>2, <6>2 DEF Round
        <5>. QED BY <5>1, <5>2
      <4>2. CASE k = n
        <5>1. g[k] = Round(f, mask, n)
          BY <4>2
        <5>. HIDE DEF g
        <5>. QED BY <4>1, <4>2, <5>1
      <4>3. CASE k # n
        <5>1. k \in 0 .. m
          BY <3>1, <4>3
        <5>2. g[k] = f[k]
          BY <3>4, <5>1
        <5>3. f[k] = Round(f, mask, k)
          BY <3>1, <3>3, <5>1, ScanAt
        <5>. HIDE DEF g
        <5>. QED BY <4>1, <5>2, <5>3
      <4>. QED BY <4>2, <4>3
    <3>6. IsScan(g, mask, n)
      <4>1. g = [k \in 0 .. n |-> g[k]]
        OBVIOUS
      <4>. HIDE DEF g
      <4>. QED BY <3>5, <4>1 DEF IsScan
    <3>. QED BY <2>2, <3>6
  <2>. QED BY <2>3, <2>4
<1>2. n0 \notin B
  BY <1>1
<1>. QED BY <1>2

\* What the loop knows after k rounds, of the top k bits: how many ones they begin with,
\* that a zero follows, and whether there is a one below it.
Top(mask, c) == \A b \in Width - c .. Width - 1 : BitAt(mask, b) = 1
ScanOK(acc, mask, k) ==
  /\ acc \in [bits : 0 .. k, zero : BOOLEAN, bad : BOOLEAN]
  /\ Top(mask, acc.bits)
  /\ ~acc.zero => acc.bits = k /\ ~acc.bad
  /\ acc.zero => acc.bits < k /\ BitAt(mask, Width - 1 - acc.bits) # 1
  /\ ~acc.bad => \A b \in Width - k .. Width - 1 - acc.bits : BitAt(mask, b) # 1
  /\ acc.bad => \E b \in 0 .. Width - 1 - acc.bits : BitAt(mask, b) = 1

\* A round keeps it.
LEMMA RoundKeeps ==
  ASSUME NEW mask, NEW k \in 1 .. Width, NEW acc, ScanOK(acc, mask, k - 1)
  PROVE  ScanOK(Cidrs!ScanBit(acc, BitAt(mask, Width - k)), mask, k)
<1>. DEFINE bit == BitAt(mask, Width - k)
            new == Cidrs!ScanBit(acc, bit)
<1>. SUFFICES ScanOK(new, mask, k)
  OBVIOUS
<1>0. Width \in Nat
  BY WidthIsWord
<1>1. /\ acc \in [bits : 0 .. k - 1, zero : BOOLEAN, bad : BOOLEAN] /\ Top(mask, acc.bits)
      /\ ~acc.zero => acc.bits = k - 1 /\ ~acc.bad
      /\ acc.zero => acc.bits < k - 1 /\ BitAt(mask, Width - 1 - acc.bits) # 1
      /\ ~acc.bad => \A b \in Width - (k - 1) .. Width - 1 - acc.bits : BitAt(mask, b) # 1
      /\ acc.bad => \E b \in 0 .. Width - 1 - acc.bits : BitAt(mask, b) = 1
  BY DEF ScanOK
<1>2. CASE acc.bad
  <2>1. new = acc
    BY <1>2 DEF Cidrs!ScanBit
  <2>2. ScanOK(acc, mask, k)
    BY <1>0, <1>1, <1>2 DEF ScanOK
  <2>. QED BY <2>1, <2>2
<1>3. CASE ~acc.bad /\ bit = 1 /\ acc.zero
  <2>1. new = [acc EXCEPT !.bad = TRUE]
    BY <1>3 DEF Cidrs!ScanBit
  <2>2. new \in [bits : 0 .. k, zero : BOOLEAN, bad : BOOLEAN]
        /\ new.bits = acc.bits /\ new.zero /\ new.bad
    <3>. HIDE DEF new, bit
    <3>1. acc.bits \in 0 .. k /\ acc.zero = TRUE
      BY <1>0, <1>1, <1>3
    <3>2. new = [bits |-> acc.bits, zero |-> TRUE, bad |-> TRUE]
      BY <1>1, <2>1, <3>1
    <3>. QED BY <3>1, <3>2
  <2>3. Width - k \in 0 .. Width - 1 - acc.bits
    BY <1>0, <1>1, <1>3
  <2>. HIDE DEF new
  <2>. QED BY <1>1, <1>3, <2>2, <2>3 DEF ScanOK
<1>4. CASE ~acc.bad /\ bit = 1 /\ ~acc.zero
  <2>1. new = [acc EXCEPT !.bits = acc.bits + 1]
    BY <1>4 DEF Cidrs!ScanBit
  <2>2. new \in [bits : 0 .. k, zero : BOOLEAN, bad : BOOLEAN]
        /\ new.bits = k /\ ~new.zero /\ ~new.bad
    <3>. HIDE DEF new, bit
    <3>. QED BY <1>0, <1>1, <1>4, <2>1
  <2>3. Top(mask, k)
    <3>1. ASSUME NEW b \in Width - k .. Width - 1 PROVE BitAt(mask, b) = 1
      <4>1. CASE b = Width - k
        BY <1>4, <4>1
      <4>2. CASE b # Width - k
        <5>1. b \in Width - acc.bits .. Width - 1
          BY <1>0, <1>1, <1>4, <4>2
        <5>. QED BY <1>1, <5>1 DEF Top
      <4>. QED BY <4>1, <4>2
    <3>. QED BY <3>1 DEF Top
  <2>4. Width - k .. Width - 1 - k = {}
    BY <1>0
  <2>. HIDE DEF new
  <2>. QED BY <2>2, <2>3, <2>4 DEF ScanOK
<1>5. CASE ~acc.bad /\ bit # 1
  <2>1. new = [acc EXCEPT !.zero = TRUE]
    BY <1>5 DEF Cidrs!ScanBit
  <2>2. new \in [bits : 0 .. k, zero : BOOLEAN, bad : BOOLEAN]
        /\ new.bits = acc.bits /\ new.zero /\ ~new.bad
    <3>. HIDE DEF new, bit
    <3>1. acc.bits \in 0 .. k /\ acc.bad = FALSE
      BY <1>0, <1>1, <1>5
    <3>2. new = [bits |-> acc.bits, zero |-> TRUE, bad |-> FALSE]
      BY <1>1, <2>1, <3>1
    <3>. QED BY <3>1, <3>2
  <2>3. \A b \in Width - k .. Width - 1 - acc.bits : BitAt(mask, b) # 1
    <3>1. ASSUME NEW b \in Width - k .. Width - 1 - acc.bits PROVE BitAt(mask, b) # 1
      <4>1. CASE b = Width - k
        BY <1>5, <4>1
      <4>2. CASE b # Width - k
        <5>1. b \in Width - (k - 1) .. Width - 1 - acc.bits
          BY <1>0, <1>1, <4>2
        <5>. QED BY <1>1, <1>5, <5>1
      <4>. QED BY <4>1, <4>2
    <3>. QED BY <3>1
  <2>4. acc.bits < k /\ BitAt(mask, Width - 1 - acc.bits) # 1
    <3>1. CASE acc.zero
      BY <1>0, <1>1, <3>1
    <3>2. CASE ~acc.zero
      <4>1. acc.bits = k - 1 /\ Width - 1 - acc.bits = Width - k
        BY <1>0, <1>1, <3>2
      <4>. QED BY <1>0, <1>5, <4>1
    <3>. QED BY <3>1, <3>2
  <2>. HIDE DEF new
  <2>. QED BY <1>1, <2>2, <2>3, <2>4 DEF ScanOK
<1>. QED BY <1>2, <1>3, <1>4, <1>5

\* So it holds at the end.
LEMMA ScanKnows ==
  ASSUME NEW mask, NEW f, IsScan(f, mask, Width)
  PROVE  ScanOK(f[Width], mask, Width)
<1>. DEFINE B == {k \in 0 .. Width : ~ScanOK(f[k], mask, k)}
<1>0. Width \in Nat
  BY WidthIsWord
<1>1. ASSUME B # {} PROVE FALSE
  <2>1. PICK k \in B : \A m \in B : k <= m
    <3>1. B \subseteq Nat
      BY <1>0
    <3>. HIDE DEF B
    <3>. QED BY <1>1, <3>1, LeastNat
  <2>2. k \in 0 .. Width /\ ~ScanOK(f[k], mask, k)
    OBVIOUS
  <2>3. f[k] = Round(f, mask, k)
    BY <1>0, <2>2, ScanAt
  <2>4. CASE k = 0
    <3>1. f[k] = Begin
      BY <2>3, <2>4 DEF Round
    <3>2. Begin \in [bits : 0 .. 0, zero : BOOLEAN, bad : BOOLEAN] /\ Begin.bits = 0 /\ ~Begin.zero /\ ~Begin.bad
      BY DEF Begin
    <3>3. Top(mask, 0) /\ Width - 0 .. Width - 1 - 0 = {}
      BY <1>0 DEF Top
    <3>4. ScanOK(Begin, mask, 0)
      BY <3>2, <3>3 DEF ScanOK
    <3>. QED BY <2>2, <2>4, <3>1, <3>4
  <2>5. CASE k # 0
    <3>1. k \in 1 .. Width /\ k - 1 \in 0 .. Width /\ ~(k <= k - 1)
      BY <1>0, <2>2, <2>5
    <3>2. k - 1 \notin B
      BY <2>1, <3>1
    <3>3. ScanOK(f[k - 1], mask, k - 1)
      BY <3>1, <3>2
    <3>4. f[k] = Cidrs!ScanBit(f[k - 1], BitAt(mask, Width - k))
      BY <2>3, <2>5 DEF Round, Cidrs!Bit, BitAt
    <3>5. ScanOK(Cidrs!ScanBit(f[k - 1], BitAt(mask, Width - k)), mask, k)
      <4>. DEFINE acc == f[k - 1]
      <4>1. ScanOK(acc, mask, k - 1)
        BY <3>3
      <4>. HIDE DEF acc
      <4>2. ScanOK(Cidrs!ScanBit(acc, BitAt(mask, Width - k)), mask, k)
        BY <3>1, <4>1, RoundKeeps
      <4>. QED BY <4>2 DEF acc
    <3>. QED BY <2>2, <3>4, <3>5
  <2>. QED BY <2>4, <2>5
<1>2. Width \notin B
  BY <1>1
<1>. QED BY <1>0, <1>2

\* netmaskToPrefix finds the prefix that has the mask, and throws if there is none.
LEMMA PrefixIs ==
  ASSUME NEW mask \in 0 .. Size - 1
  PROVE  \/ /\ Cidrs!NetmaskToPrefix(mask) \in Prefixes
            /\ Cidrs!Mask(Cidrs!NetmaskToPrefix(mask)) = mask
         \/ /\ Cidrs!NetmaskToPrefix(mask) = None
            /\ \A p \in Prefixes : Cidrs!Mask(p) # mask
<1>. DEFINE f == CHOOSE g : IsScan(g, mask, Width)
            acc == f[Width]
<1>0. Width \in Nat /\ Size \in Nat \ {0}
  BY WidthIsWord, Sizes DEF Prefixes
<1>1. IsScan(f, mask, Width)
  BY <1>0, ScanExists
<1>2. Cidrs!NetmaskToPrefix(mask) = IF acc.bad THEN None ELSE acc.bits
  BY DEF Cidrs!NetmaskToPrefix, IsScan, Round, Begin
<1>. HIDE DEF f
<1>3. ScanOK(acc, mask, Width)
  BY <1>1, ScanKnows
<1>. HIDE DEF acc
<1>4. ASSUME NEW p \in Prefixes
      PROVE  /\ Cidrs!Mask(p) = 2^Width - 2^(Width - p) /\ Cidrs!Mask(p) \in 0 .. Size - 1
             /\ \A b \in 0 .. Width - 1 : BitAt(Cidrs!Mask(p), b) = 1 <=> Width - p <= b
  <2>. DEFINE h == Width - p
  <2>1. h \in Nat /\ h <= Width /\ Part(p) \in Nat \ {0} /\ Part(p) <= Size /\ Cidrs!Mask(p) = Size - Part(p)
    BY Sizes, MaskIs
  <2>2. Cidrs!Mask(p) = 2^Width - 2^h
    BY <2>1 DEF Size, Part
  <2>. HIDE DEF h
  <2>3. \A b \in Nat : BitAt(2^Width - 2^h, b) = 1 <=> h <= b /\ b < Width
    BY <1>0, <2>1, BlockBits
  <2>4. \A b \in 0 .. Width - 1 : BitAt(Cidrs!Mask(p), b) = 1 <=> h <= b
    BY <1>0, <2>2, <2>3
  <2>. QED BY <1>0, <2>1, <2>2, <2>4 DEF h
<1>5. CASE ~acc.bad
  <2>. DEFINE c == acc.bits
              m == Cidrs!Mask(c)
  <2>1. c \in Prefixes /\ Cidrs!NetmaskToPrefix(mask) = c
    BY <1>2, <1>3, <1>5 DEF ScanOK, Prefixes
  <2>2. ASSUME NEW b \in 0 .. Width - 1 PROVE BitAt(mask, b) = 1 <=> Width - c <= b
    <3>1. CASE Width - c <= b
      <4>1. b \in Width - c .. Width - 1
        BY <1>0, <2>1, <3>1 DEF Prefixes
      <4>. QED BY <1>3, <3>1, <4>1 DEF ScanOK, Top
    <3>2. CASE ~(Width - c <= b)
      <4>1. b \in Width - Width .. Width - 1 - c
        BY <1>0, <2>1, <3>2 DEF Prefixes
      <4>. QED BY <1>3, <1>5, <3>2, <4>1 DEF ScanOK
    <3>. QED BY <3>1, <3>2
  <2>3. m \in 0 .. Size - 1 /\ \A b \in 0 .. Width - 1 : BitAt(m, b) = 1 <=> Width - c <= b
    BY <1>4, <2>1
  <2>4. m \in 0 .. 2^Width - 1 /\ mask \in 0 .. 2^Width - 1
        /\ \A b \in 0 .. Width - 1 : BitAt(m, b) = 1 <=> BitAt(mask, b) = 1
    BY <2>2, <2>3 DEF Size
  <2>5. m = mask
    <3>. HIDE DEF m
    <3>. QED BY <1>0, <2>4, SameBits
  <2>. QED BY <2>1, <2>5
<1>6. CASE acc.bad
  <2>1. Cidrs!NetmaskToPrefix(mask) = None
    BY <1>2, <1>6
  <2>. DEFINE c == acc.bits
  <2>2. c \in 0 .. Width /\ c < Width /\ BitAt(mask, Width - 1 - c) # 1
        /\ \E b \in 0 .. Width - 1 - c : BitAt(mask, b) = 1
    BY <1>3, <1>6 DEF ScanOK
  <2>3. PICK b \in 0 .. Width - 1 - c : BitAt(mask, b) = 1
    BY <2>2
  <2>. HIDE DEF c
  <2>4. ASSUME NEW p \in Prefixes, Cidrs!Mask(p) = mask PROVE FALSE
    <3>1. Width - 1 - c \in 0 .. Width - 1 /\ b \in 0 .. Width - 1
      BY <1>0, <2>2
    <3>2. Width - p <= b /\ ~(Width - p <= Width - 1 - c)
      BY <1>4, <2>2, <2>3, <2>4, <3>1
    <3>. QED BY <1>0, <2>2, <3>2 DEF Prefixes
  <2>. QED BY <2>1, <2>4
<1>. QED BY <1>3, <1>5, <1>6 DEF ScanOK

\* What is asked is a CIDR or an interface, and the answer is what the code computes.
Asks == [kind : {"cidr"}, base : Cidrs!Words, prefix : Prefixes]
          \cup [kind : {"iface"}, address : Cidrs!Words, mask : Cidrs!Words]

CidrInv ==
  /\ input \in Asks
  /\ \/ output = None
     \/ /\ input.kind = "cidr"
        /\ output = [kind |-> "hosts", hosts |-> Cidrs!ListHostsInCidr(input.base, input.prefix)]
     \/ /\ input.kind = "iface"
        /\ output = Cidrs!SuggestCidr(input.address, input.mask)

\* A suggestion is a CIDR whose base is the first address of the interface's network.
LEMMA SuggestionIs ==
  ASSUME NEW a \in Cidrs!Words, NEW mask \in Cidrs!Words
  PROVE  \/ \E p \in Prefixes :
              /\ Cidrs!Mask(p) = mask /\ First(a, p) \in Cidrs!Words
              /\ Cidrs!SuggestCidr(a, mask) = [kind |-> "cidr", base |-> First(a, p), prefix |-> p]
         \/ /\ \A p \in Prefixes : Cidrs!Mask(p) # mask
            /\ Cidrs!SuggestCidr(a, mask) = [kind |-> "skipped"]
<1>. DEFINE p == Cidrs!NetmaskToPrefix(mask)
<1>0. Cidrs!Words = 0 .. Size - 1 /\ Size \in Nat \ {0}
  BY Sizes, WidthIsWord DEF Prefixes
<1>1. \/ p \in Prefixes /\ Cidrs!Mask(p) = mask
      \/ p = None /\ \A x \in Prefixes : Cidrs!Mask(x) # mask
  BY <1>0, PrefixIs
<1>2. Cidrs!SuggestCidr(a, mask) =
        IF p = None
        THEN [kind |-> "skipped"]
        ELSE [kind |-> "cidr", base |-> Cidrs!Unsigned(Cidrs!Network(a, p)), prefix |-> p]
  BY DEF Cidrs!SuggestCidr
<1>. HIDE DEF p
<1>3. CASE p \in Prefixes /\ Cidrs!Mask(p) = mask
  <2>1. p # None
    BY <1>3, NoneAssumption, WidthIsWord DEF Prefixes
  <2>2. Part(p) \in Nat \ {0} /\ First(a, p) \in Nat /\ First(a, p) + Part(p) <= Size
    BY <1>0, <1>3, Sizes, FirstIs
  <2>3. First(a, p) \in 0 .. Size - 1
    BY <1>0, <2>2
  <2>4. Cidrs!Unsigned(Cidrs!Network(a, p)) = First(a, p)
    <3>1. Cidrs!Network(a, p) = Cidrs!Signed(First(a, p))
      BY <1>0, <1>3, EndsAre
    <3>. QED BY <2>3, <3>1, SignUndone
  <2>. QED BY <1>0, <1>2, <1>3, <2>1, <2>3, <2>4
<1>4. CASE p = None /\ \A x \in Prefixes : Cidrs!Mask(x) # mask
  BY <1>2, <1>4
<1>. QED BY <1>1, <1>3, <1>4

\* Any question may be asked first.
LEMMA CidrInit == Cidrs!Init => CidrInv
BY DEF Cidrs!Init, CidrInv, Asks, Prefixes

\* A step that leaves the ranges alone keeps their invariant.
LEMMA CidrKept ==
  ASSUME CidrInv, UNCHANGED rangeVars
  PROVE  CidrInv'
<1>1. input' = input /\ output' = output
  BY DEF rangeVars
<1>. QED BY <1>1 DEF CidrInv, Asks

\* Every step for the ranges.
LEMMA CidrNext ==
  ASSUME CidrInv, Cidrs!Next
  PROVE  CidrInv'
<1>0. input \in Asks
  BY DEF CidrInv
<1>1. CASE Cidrs!List
  <2>1. input' = input /\ input.kind = "cidr"
        /\ output' = [kind |-> "hosts", hosts |-> Cidrs!ListHostsInCidr(input.base, input.prefix)]
    BY <1>1 DEF Cidrs!List
  <2>. QED BY <1>0, <2>1 DEF CidrInv
<1>2. CASE Cidrs!Suggest
  <2>1. input' = input /\ input.kind = "iface" /\ output' = Cidrs!SuggestCidr(input.address, input.mask)
    BY <1>2 DEF Cidrs!Suggest
  <2>. QED BY <1>0, <2>1 DEF CidrInv
<1>3. CASE Cidrs!ScanSuggestion
  <2>1. output # None /\ output.kind = "cidr" /\ input' = output /\ output' = None
    BY <1>3 DEF Cidrs!ScanSuggestion
  <2>2. input.kind = "iface" /\ output = Cidrs!SuggestCidr(input.address, input.mask)
    BY <2>1 DEF CidrInv
  <2>3. input.address \in Cidrs!Words /\ input.mask \in Cidrs!Words
    BY <1>0, <2>2 DEF Asks
  <2>. DEFINE a == input.address
              mask == input.mask
  <2>4. \/ \E p \in Prefixes : /\ First(a, p) \in Cidrs!Words
                               /\ output = [kind |-> "cidr", base |-> First(a, p), prefix |-> p]
        \/ output = [kind |-> "skipped"]
    <3>1. a \in Cidrs!Words /\ mask \in Cidrs!Words /\ output = Cidrs!SuggestCidr(a, mask)
      BY <2>2, <2>3
    <3>. HIDE DEF a, mask
    <3>. QED BY <3>1, SuggestionIs
  <2>5. output \in Asks
    <3>. HIDE DEF a, mask
    <3>1. output # [kind |-> "skipped"]
      BY <2>1
    <3>2. PICK p \in Prefixes : /\ First(a, p) \in Cidrs!Words
                                /\ output = [kind |-> "cidr", base |-> First(a, p), prefix |-> p]
      BY <2>4, <3>1
    <3>3. output \in [kind : {"cidr"}, base : Cidrs!Words, prefix : Prefixes]
      BY <3>2
    <3>. QED BY <3>3 DEF Asks
  <2>. QED BY <2>1, <2>5 DEF CidrInv
<1>4. CASE Cidrs!Rest
  BY <1>4, CidrKept DEF Cidrs!Rest, Cidrs!vars, rangeVars
<1>. QED BY <1>1, <1>2, <1>3, <1>4 DEF Cidrs!Next

\* The invariant gives what a run checks of the ranges.
LEMMA RangesAreExact == CidrInv => RangesExact
<1>. SUFFICES ASSUME CidrInv PROVE Cidrs!HostsAreSubnet /\ Cidrs!SuggestionIsOwnNetwork
  BY DEF RangesExact
<1>0. Cidrs!Words = 0 .. Size - 1 /\ Size \in Nat \ {0} /\ input \in Asks
  BY Sizes, WidthIsWord DEF Prefixes, CidrInv
<1>1. Cidrs!HostsAreSubnet
  <2>1. SUFFICES ASSUME output # None, output.kind = "hosts"
                 PROVE  IF input.prefix \in 1 .. Width - 2
                        THEN /\ Cidrs!Range(output.hosts) = Cidrs!Subnet(input.base, input.prefix)
                                  \ Cidrs!Extremes(Cidrs!Subnet(input.base, input.prefix))
                             /\ \A k \in 1 .. Len(output.hosts) - 1 : output.hosts[k] < output.hosts[k + 1]
                        ELSE output.hosts = <<>>
    BY DEF Cidrs!HostsAreSubnet
  <2>2. input.kind = "cidr" /\ output.hosts = Cidrs!ListHostsInCidr(input.base, input.prefix)
    <3>1. CASE input.kind = "cidr"
               /\ output = [kind |-> "hosts", hosts |-> Cidrs!ListHostsInCidr(input.base, input.prefix)]
      BY <3>1
    <3>2. CASE input.kind = "iface" /\ output = Cidrs!SuggestCidr(input.address, input.mask)
      BY <2>1, <3>2 DEF Cidrs!SuggestCidr
    <3>. QED BY <2>1, <3>1, <3>2 DEF CidrInv
  <2>. DEFINE p == input.prefix
              base == input.base
              S == Cidrs!Subnet(base, p)
  <2>3. p \in Prefixes /\ base \in 0 .. Size - 1
    BY <1>0, <2>2 DEF Asks
  <2>. HIDE DEF p, base
  <2>4. Cidrs!ListHostsInCidr(base, p) = IF p \in 1 .. Width - 2 THEN Listed(base, p) ELSE <<>>
    BY <2>3, ListIs
  <2>5. ASSUME p \in 1 .. Width - 2
        PROVE  /\ Cidrs!Range(Listed(base, p)) = S \ Cidrs!Extremes(S)
               /\ \A k \in 1 .. Len(Listed(base, p)) - 1 : Listed(base, p)[k] < Listed(base, p)[k + 1]
    BY <2>3, <2>5, HostsExact
  <2>6. output.hosts = IF p \in 1 .. Width - 2 THEN Listed(base, p) ELSE <<>>
    BY <2>2, <2>4 DEF p, base
  <2>7. IF p \in 1 .. Width - 2
        THEN /\ Cidrs!Range(output.hosts) = S \ Cidrs!Extremes(S)
             /\ \A k \in 1 .. Len(output.hosts) - 1 : output.hosts[k] < output.hosts[k + 1]
        ELSE output.hosts = <<>>
    BY <2>5, <2>6
  <2>. QED BY <2>7 DEF p, base
<1>2. Cidrs!SuggestionIsOwnNetwork
  <2>1. SUFFICES ASSUME input.kind = "iface", output # None
                 PROVE  \/ /\ output.kind = "cidr"
                           /\ Cidrs!Mask(output.prefix) = input.mask
                           /\ input.address \in Cidrs!Subnet(output.base, output.prefix)
                        \/ /\ output.kind = "skipped"
                           /\ \A prefix \in 0 .. Width : Cidrs!Mask(prefix) # input.mask
    BY DEF Cidrs!SuggestionIsOwnNetwork
  <2>. DEFINE a == input.address
              mask == input.mask
  <2>2. a \in Cidrs!Words /\ mask \in Cidrs!Words /\ output = Cidrs!SuggestCidr(a, mask)
    BY <1>0, <2>1 DEF Asks, CidrInv
  <2>. HIDE DEF a, mask
  <2>3. CASE \E p \in Prefixes :
               /\ Cidrs!Mask(p) = mask /\ First(a, p) \in Cidrs!Words
               /\ Cidrs!SuggestCidr(a, mask) = [kind |-> "cidr", base |-> First(a, p), prefix |-> p]
    <3>1. PICK p \in Prefixes :
               /\ Cidrs!Mask(p) = mask /\ First(a, p) \in Cidrs!Words
               /\ Cidrs!SuggestCidr(a, mask) = [kind |-> "cidr", base |-> First(a, p), prefix |-> p]
      BY <2>3
    <3>2. output.kind = "cidr" /\ output.prefix = p /\ output.base = First(a, p)
      BY <2>2, <3>1
    <3>3. a \in Cidrs!Subnet(First(a, p), p)
      <4>. DEFINE d == Part(p)
                  q == a \div d
                  n == First(a, p)
      <4>1. n \in 0 .. Size - 1 /\ n = d * q
        BY <1>0, <3>1 DEF First
      <4>2. d \in Nat \ {0} /\ q \in Nat /\ 0 \in 0 .. d - 1
        <5>1. d \in Nat \ {0}
          BY Sizes
        <5>2. a \in 0 .. Size - 1
          BY <1>0, <2>2
        <5>3. q \in Nat
          BY <5>2, FirstIs
        <5>. QED BY <5>1, <5>3
      <4>3. Cidrs!Subnet(n, p) = {m \in Cidrs!Words : m \div d = n \div d}
        BY DEF Cidrs!Subnet, Part
      <4>4. n \div d = q
        <5>. HIDE DEF n, d, q
        <5>1. n \in Int /\ n = d * q + 0
          BY <1>0, <4>1, <4>2
        <5>. QED BY <4>2, <5>1, DivUnique
      <4>. QED BY <2>2, <4>3, <4>4
    <3>4. output.kind = "cidr" /\ Cidrs!Mask(output.prefix) = mask /\ a \in Cidrs!Subnet(output.base, output.prefix)
      BY <3>1, <3>2, <3>3
    <3>. QED BY <3>4 DEF a, mask
  <2>4. CASE /\ \A p \in Prefixes : Cidrs!Mask(p) # mask
             /\ Cidrs!SuggestCidr(a, mask) = [kind |-> "skipped"]
    <3>1. output.kind = "skipped"
      BY <2>2, <2>4
    <3>2. \A prefix \in 0 .. Width : Cidrs!Mask(prefix) # input.mask
      BY <2>4 DEF Prefixes, mask
    <3>. QED BY <3>1, <3>2
  <2>. QED BY <2>2, <2>3, <2>4, SuggestionIs
<1>. QED BY <1>1, <1>2

-----------------------------------------------------------------------------
(* All four *)

NetworkInv == CloudInv /\ ScanInv /\ CidrInv /\ ServeInv

\* It holds at the start and every step keeps it.
LEMMA NetworkInvariant == Spec => []NetworkInv
<1>1. Init => NetworkInv
  BY CloudInit, ScanInit, CidrInit, ServeInit DEF Init, NetworkInv
<1>2. ASSUME NetworkInv, [Next]_vars PROVE NetworkInv'
  <2>0. CloudInv /\ ScanInv /\ CidrInv /\ ServeInv
    BY <1>2 DEF NetworkInv
  <2>1. CASE Cloud!Next /\ UNCHANGED <<scanVars, rangeVars, serveVars>>
    BY <2>0, <2>1, CloudNext, ScanKept, CidrKept, ServeKept DEF NetworkInv
  <2>2. CASE Scan!Next /\ UNCHANGED <<cloudVars, rangeVars, serveVars>>
    BY <2>0, <2>2, CloudKept, ScanNext, CidrKept, ServeKept DEF NetworkInv
  <2>3. CASE Cidrs!Next /\ UNCHANGED <<cloudVars, scanVars, serveVars>>
    BY <2>0, <2>3, CloudKept, ScanKept, CidrNext, ServeKept DEF NetworkInv
  <2>4. CASE Serve!Next /\ UNCHANGED <<cloudVars, scanVars, rangeVars>>
    BY <2>0, <2>4, CloudKept, ScanKept, CidrKept, ServeNext DEF NetworkInv
  <2>5. CASE UNCHANGED <<cloudVars, scanVars, rangeVars, serveVars>>
    BY <2>0, <2>5, CloudKept, ScanKept, CidrKept, ServeKept DEF NetworkInv
  <2>. QED BY <1>2, <2>1, <2>2, <2>3, <2>4, <2>5 DEF Next, vars
<1>. QED BY <1>1, <1>2, PTL DEF Spec

\* For any domains, redirects and options: credentials are stored only from a domain that
\* accepted the account, a refusal is not retried elsewhere, and a sign-in that fails for
\* its region has asked all four.
THEOREM SignInAlwaysSound == Spec => []SignInSound
<1>1. NetworkInv => SignInSound
  BY SignInsSound DEF NetworkInv
<1>. QED BY <1>1, NetworkInvariant, PTL

\* For any number of devices, addresses and workers: no address is asked twice at a time
\* or falls between two workers, and a scan reports a device exactly where it answered.
THEOREM ScanAlwaysExact == Spec => []ScanExact
<1>1. NetworkInv => ScanExact
  BY ScansExact DEF NetworkInv
<1>. QED BY <1>1, NetworkInvariant, PTL

\* For words of any width, 32 bits among them: listing a CIDR gives its subnet without both
\* ends on either side of the sign bit, and the suggested CIDR is the network of the
\* interface, or none where no prefix has its netmask.
THEOREM RangesAlwaysExact == Spec => []RangesExact
<1>1. NetworkInv => RangesExact
  BY RangesAreExact DEF NetworkInv
<1>. QED BY <1>1, NetworkInvariant, PTL

\* For any number of processes, ports and restarts: a process at rest serves its port
\* and, unless restarts overlapped, listens on that port's path, and a file left behind
\* keeps no later start from listening.
THEOREM SocketsAlwaysUsable == Spec => []SocketsUsable
<1>1. NetworkInv => SocketsUsable
  BY ServeUsable DEF NetworkInv
<1>. QED BY <1>1, NetworkInvariant, PTL

=============================================================================
