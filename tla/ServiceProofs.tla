--------------------------- MODULE ServiceProofs ---------------------------
(***************************************************************************)
(* Any number of bin/service commands keep the types of their state; one   *)
(* at a time keeps the server and its pid file together, for any number of *)
(* processes, edits and crashes.                                           *)
(***************************************************************************)
EXTENDS Service, FiniteSetTheorems, TLAPS

-----------------------------------------------------------------------------
(* Types, for any number of commands.                                       *)

CommandTypes ==
    /\ pidfile \in Pids \cup {NoPid}
    /\ opc \in [Operators -> {"idle", "spawn", "write", "remove",
                              "remove and start", "sleep"}]
    /\ opid \in [Operators -> Pids \cup {NoPid}]
    /\ said \in [Operators -> {"nothing", "already running!", "failed to start",
                    "started", "not running", "stopped", "reloaded", "failed to reload"}]

ProcTypes == proc \in [Pids -> {"unused", "booting", "ready", "serving", "dead"}]

ServerTypes ==
    /\ killed \subseteq Pids
    /\ hup \subseteq Pids
    /\ config \in 1 .. MaxConfig
    /\ globals \in [Pids -> 0 .. MaxConfig]
    /\ used \in [Pids -> 0 .. MaxConfig]
    /\ crashes \in 0 .. MaxCrashes

LEMMA TypeParts == TypeOK <=> CommandTypes /\ ProcTypes /\ ServerTypes
BY DEF TypeOK, CommandTypes, ProcTypes, ServerTypes

\* The steps of a command.
LEMMA CommandStep ==
    ASSUME CommandTypes, ProcTypes, ServerTypes, NEW o \in Operators,
           Start(o) \/ Stop(o) \/ Restart(o) \/ Reload(o)
    PROVE  CommandTypes' /\ ProcTypes' /\ ServerTypes'
<1> USE DEF CommandTypes, ProcTypes, ServerTypes, Goto, Say, Stage, serverVars
<1>1. CASE Stat(o) \/ SpawnFails(o)
  BY <1>1 DEF Stat, SpawnFails
<1>2. CASE Spawn(o)
  <2>1. PICK p \in Pids : /\ proc' = [proc EXCEPT ![p] = "booting"]
                          /\ opid' = [opid EXCEPT ![o] = p]
    BY <1>2 DEF Spawn
  <2>2. opc' = [opc EXCEPT ![o] = "write"] /\ UNCHANGED <<pidfile, said, serverVars>>
    BY <1>2 DEF Spawn
  <2> QED BY ONLY <2>1, <2>2, CommandTypes, ProcTypes, ServerTypes
<1>3. CASE WritePid(o)
  BY <1>3 DEF WritePid
<1>4. ASSUME NEW next \in {"idle", "sleep"}, NotRunning(o, next)
      PROVE  CommandTypes' /\ ProcTypes' /\ ServerTypes'
  BY <1>4 DEF NotRunning
<1>5. ASSUME NEW next \in {"remove", "remove and start"}, Terminate(o, next)
      PROVE  CommandTypes' /\ ProcTypes' /\ ServerTypes'
  BY <1>5 DEF Terminate
<1>6. ASSUME NEW step, NEW next \in {"idle", "sleep"}, Remove(o, step, next)
      PROVE  CommandTypes' /\ ProcTypes' /\ ServerTypes'
  BY <1>6 DEF Remove
<1>7. CASE Reload(o)
  BY <1>7, ZenonT(40) DEF Reload
<1> QED BY <1>1, <1>2, <1>3, <1>4, <1>5, <1>6, <1>7 DEF Start, Stop, Restart

\* The steps of a server and of its configuration.
LEMMA ServerStep ==
    ASSUME ProcTypes, ServerTypes,
           \/ \E p \in Pids : Boot(p) \/ Listen(p) \/ HandleHup(p) \/ Die(p) \/ Crash(p)
           \/ EditConfig
    PROVE  ProcTypes' /\ ServerTypes' /\ UNCHANGED <<pidfile, opc, opid, said>>
<1> USE BoundAssumption DEF ProcTypes, ServerTypes, Stage, serverVars
<1>1. ASSUME NEW p \in Pids, Boot(p)
      PROVE  ProcTypes' /\ ServerTypes' /\ UNCHANGED <<pidfile, opc, opid, said>>
  BY <1>1 DEF Boot
<1>2. ASSUME NEW p \in Pids, Listen(p)
      PROVE  ProcTypes' /\ ServerTypes' /\ UNCHANGED <<pidfile, opc, opid, said>>
  BY <1>2 DEF Listen
<1>3. ASSUME NEW p \in Pids, HandleHup(p)
      PROVE  ProcTypes' /\ ServerTypes' /\ UNCHANGED <<pidfile, opc, opid, said>>
  BY <1>3 DEF HandleHup
<1>4. ASSUME NEW p \in Pids, Die(p)
      PROVE  ProcTypes' /\ ServerTypes' /\ UNCHANGED <<pidfile, opc, opid, said>>
  BY <1>4 DEF Die
<1>5. ASSUME NEW p \in Pids, Crash(p)
      PROVE  ProcTypes' /\ ServerTypes' /\ UNCHANGED <<pidfile, opc, opid, said>>
  BY <1>5 DEF Crash
<1>6. CASE EditConfig
  BY <1>6 DEF EditConfig
<1> QED BY <1>1, <1>2, <1>3, <1>4, <1>5, <1>6

LEMMA TypeStep == TypeOK /\ [Next]_svVars => TypeOK'
<1> SUFFICES ASSUME TypeOK, [Next]_svVars PROVE CommandTypes' /\ ProcTypes' /\ ServerTypes'
  BY DEF TypeOK, CommandTypes, ProcTypes, ServerTypes
<1>0. CommandTypes /\ ProcTypes /\ ServerTypes
  BY TypeParts
<1>1. ASSUME UNCHANGED <<pidfile, opc, opid, said>> PROVE CommandTypes'
  BY <1>0, <1>1 DEF CommandTypes
<1>2. CASE UNCHANGED svVars
  BY <1>0, <1>2 DEF svVars, CommandTypes, ProcTypes, ServerTypes
<1> QED BY <1>0, <1>1, <1>2, CommandStep, ServerStep DEF Next

\* However many commands run at once, the pid file names a process or is not
\* there, and every command is at one of its steps.
THEOREM ServiceTypes == Spec => []TypeOK
<1>1. Init => TypeOK
  BY BoundAssumption DEF Init, TypeOK
<1> QED BY <1>1, TypeStep, PTL DEF Spec

-----------------------------------------------------------------------------
(* One command at a time.                                                   *)

\* A server that nobody told to stop.
Wanted(p) == Alive(p) /\ p \notin killed

\* Between two steps of the command o, the server is the one in the pid file or
\* the one whose pid the command is about to write there.
ManagedInv(o) ==
    /\ \A p \in Pids : Wanted(p) =>
         pidfile = p \/ (opc[o] = "write" /\ opid[o] = p)
    /\ opc[o] \in {"spawn", "write"} => pidfile = NoPid
    /\ opc[o] = "write" => opid[o] \in Pids
    /\ opc[o] \in {"remove", "remove and start"} =>
         pidfile \in Pids /\ ~Wanted(pidfile)

\* The pid file, the commands and the stages keep their types.
Shapes ==
    /\ pidfile \in Pids \cup {NoPid}
    /\ opc \in [Operators -> {"idle", "spawn", "write", "remove",
                              "remove and start", "sleep"}]
    /\ opid \in [Operators -> Pids \cup {NoPid}]
    /\ proc \in [Pids -> {"unused", "booting", "ready", "serving", "dead"}]

\* No step of the only command, or of a server, parts them.
LEMMA ManagedStep ==
    ASSUME NEW o, Operators = {o}, Shapes, ManagedInv(o), [Next]_svVars
    PROVE  Shapes' /\ ManagedInv(o)'
<1> USE PidAssumption
    DEF Shapes, ManagedInv, Wanted, Alive, Goto, Say, Stage, serverVars
<1>1. CASE Stat(o)
  BY <1>1 DEF Stat
<1>2. CASE Spawn(o)
  <2> PICK p \in Pids : /\ proc[p] = "unused"
                        /\ proc' = [proc EXCEPT ![p] = "booting"]
                        /\ opid' = [opid EXCEPT ![o] = p]
    BY <1>2 DEF Spawn
  <2>1. pidfile' = pidfile /\ killed' = killed /\ opc' = [opc EXCEPT ![o] = "write"]
    BY <1>2 DEF Spawn
  <2>2. opc[o] = "spawn" /\ o \in Operators
    BY <1>2 DEF Spawn
  <2>3. Shapes'
    BY <2>1, <2>2
  <2>4. \A q \in Pids : Wanted(q)' => q = p
    BY <2>1, <2>2
  <2> QED BY <2>1, <2>2, <2>3, <2>4
<1>3. CASE SpawnFails(o)
  BY <1>3 DEF SpawnFails
<1>4. CASE WritePid(o)
  BY <1>4 DEF WritePid
<1>5. ASSUME NEW next \in {"idle", "sleep"}, NotRunning(o, next)
      PROVE  Shapes' /\ ManagedInv(o)'
  BY <1>5 DEF NotRunning
<1>6. ASSUME NEW next \in {"remove", "remove and start"}, Terminate(o, next)
      PROVE  Shapes' /\ ManagedInv(o)'
  BY <1>6 DEF Terminate
<1>7. ASSUME NEW step \in {"remove", "remove and start"},
             NEW next \in {"idle", "sleep"}, Remove(o, step, next)
      PROVE  Shapes' /\ ManagedInv(o)'
  BY <1>7 DEF Remove
<1>8. CASE Reload(o)
  BY <1>8 DEF Reload
<1>9. ASSUME NEW p \in Pids, Boot(p) \/ Listen(p) \/ HandleHup(p)
      PROVE  Shapes' /\ ManagedInv(o)'
  <2>1. CASE Boot(p)
    BY <2>1 DEF Boot
  <2>2. CASE Listen(p)
    BY <2>2 DEF Listen
  <2>3. CASE HandleHup(p)
    BY <2>3 DEF HandleHup
  <2> QED BY ONLY <1>9, <2>1, <2>2, <2>3
<1>10. ASSUME NEW p \in Pids, Die(p) \/ Crash(p)
       PROVE  Shapes' /\ ManagedInv(o)'
  <2>1. CASE Die(p)
    BY <2>1 DEF Die
  <2>2. CASE Crash(p)
    BY <2>2 DEF Crash
  <2> QED BY ONLY <1>10, <2>1, <2>2
<1>11. CASE EditConfig \/ UNCHANGED svVars
  BY <1>11 DEF EditConfig, svVars
<1> QED
  BY <1>1, <1>2, <1>3, <1>4, <1>5, <1>6, <1>7, <1>8, <1>9, <1>10, <1>11
     DEF Next, Start, Stop, Restart

\* The invariant holds throughout when o is the only command.
LEMMA ManagedAlways ==
    ASSUME NEW CONSTANT o, Operators = {o}
    PROVE  Spec => [](Shapes /\ ManagedInv(o))
<1>1. Init => Shapes /\ ManagedInv(o)
  BY DEF Init, Shapes, ManagedInv, Wanted, Alive
<1>2. (Shapes /\ ManagedInv(o)) /\ [Next]_svVars => (Shapes /\ ManagedInv(o))'
  BY ManagedStep
<1> QED BY <1>1, <1>2, PTL DEF Spec

\* When one command runs at a time, stop and reload always reach the server.
THEOREM OneCommandManages ==
    ASSUME NEW CONSTANT o, Operators = {o}
    PROVE  Spec => []ServerIsManaged
<1>1. ManagedInv(o) => ServerIsManaged
  BY DEF ManagedInv, Wanted, ServerIsManaged, Quiescent
<1> QED BY <1>1, ManagedAlways, PTL

\* When one command runs at a time, there is never a second server that nobody
\* told to stop.
THEOREM OneCommandOneServer ==
    ASSUME NEW CONSTANT o, Operators = {o}
    PROVE  Spec => []OneLiveServer
<1>1. ManagedInv(o) => OneLiveServer
  <2> SUFFICES ASSUME ManagedInv(o) PROVE OneLiveServer
    OBVIOUS
  <2> DEFINE S == {p \in Pids : Alive(p) /\ p \notin killed}
  <2>1. \A p, q \in S : p = q
    BY PidAssumption DEF ManagedInv, Wanted
  <2>2. S = {} \/ \E p \in S : S = {p}
    BY <2>1
  <2> HIDE DEF S
  <2>3. Cardinality(S) <= 1
    <3>1. CASE S = {}
      BY <3>1, FS_EmptySet
    <3>2. ASSUME NEW p \in S, S = {p} PROVE Cardinality(S) <= 1
      <4>1. Cardinality({p}) = 1
        BY FS_Singleton
      <4> QED BY <3>2, <4>1
    <3> QED BY <2>2, <3>1, <3>2
  <2> QED BY <2>3 DEF OneLiveServer, S
<1> QED BY <1>1, ManagedAlways, PTL
=============================================================================
