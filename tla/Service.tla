------------------------------ MODULE Service ------------------------------
(***************************************************************************)
(* The service manager (src/cmd/service/main.go) and the life of the       *)
(* server it starts, signals and stops (src/cmd/druid-insight/main.go).    *)
(*                                                                         *)
(* Commands are separate processes that share nothing but the pid file and *)
(* the signals they send; each of their system calls is a step.  A server  *)
(* boots (loads its configuration, starts the workers, registers handlers  *)
(* that capture the configuration), then listens for SIGHUP, then binds    *)
(* its port.  Pids are not reused.                                         *)
(***************************************************************************)
EXTENDS Naturals, FiniteSets

CONSTANTS
    Operators,      \* concurrent invocations of bin/service
    Pids,           \* processes that may be started
    NoPid,          \* the pid file does not exist
    MaxConfig,      \* bound on edits of config.yaml and druid.yaml
    BadConfigs,     \* the edits that do not parse
    SlowTerm,       \* TRUE: a process may outlive SIGTERM by more than a second
    MaxCrashes      \* bound on servers that die by themselves

ASSUME PidAssumption == NoPid \notin Pids
ASSUME BoundAssumption == MaxConfig \in Nat \ {0} /\ MaxCrashes \in Nat
ASSUME SwitchAssumption == SlowTerm \in BOOLEAN /\ BadConfigs \subseteq 2 .. MaxConfig

VARIABLES
    pidfile,        \* content of pid/druid-insight.pid
    opc, opid,      \* operator -> next step, the pid in its hands
    said,           \* operator -> the last line it printed
    proc,           \* pid -> stage of the server
    killed, hup,    \* servers with a SIGTERM, a SIGHUP on its way
    config,         \* the version of the files
    globals, used,  \* server -> version in its globals, in its handlers
    crashes

svVars == <<pidfile, opc, opid, said, proc, killed, hup, config, globals, used, crashes>>
serverVars == <<killed, hup, config, globals, used, crashes>>

Alive(p) == proc[p] \in {"booting", "ready", "serving"}

Init ==
    /\ pidfile = NoPid
    /\ opc = [o \in Operators |-> "idle"]
    /\ opid = [o \in Operators |-> NoPid]
    /\ said = [o \in Operators |-> "nothing"]
    /\ proc = [p \in Pids |-> "unused"]
    /\ killed = {}
    /\ hup = {}
    /\ config = 1
    /\ globals = [p \in Pids |-> 0]
    /\ used = [p \in Pids |-> 0]
    /\ crashes = 0

Goto(o, step) == opc' = [opc EXCEPT ![o] = step]
Say(o, line) == said' = [said EXCEPT ![o] = line]
Stage(p, stage) == proc' = [proc EXCEPT ![p] = stage]

-----------------------------------------------------------------------------
(* bin/service start                                                        *)

\* Seeded fault: start does not look at the pid file.
StatIgnored(o) ==
    /\ opc[o] \in {"idle", "sleep"}
    /\ Goto(o, "spawn")
    /\ UNCHANGED <<pidfile, opid, said, proc, serverVars>>

\* os.Stat(pidFile); also the second half of restart, after its sleep.
Stat(o) ==
    /\ opc[o] \in {"idle", "sleep"}
    /\ \/ pidfile # NoPid /\ Say(o, "already running!") /\ Goto(o, "idle")
       \/ pidfile = NoPid /\ Goto(o, "spawn") /\ UNCHANGED said
    /\ UNCHANGED <<pidfile, opid, proc, serverVars>>

\* exec.Command(binFile).Start()
Spawn(o) ==
    /\ opc[o] = "spawn"
    /\ \E p \in Pids :
        /\ proc[p] = "unused"
        /\ Stage(p, "booting")
        /\ opid' = [opid EXCEPT ![o] = p]
    /\ Goto(o, "write")
    /\ UNCHANGED <<pidfile, said, serverVars>>

\* The process cannot be started: os.Exit(1).
SpawnFails(o) ==
    /\ opc[o] = "spawn"
    /\ Say(o, "failed to start")
    /\ Goto(o, "idle")
    /\ UNCHANGED <<pidfile, opid, proc, serverVars>>

\* Seeded fault: the file is written before the pid is known.
WriteNothing(o) ==
    /\ opc[o] = "write"
    /\ pidfile' = ""
    /\ Say(o, "started")
    /\ Goto(o, "idle")
    /\ UNCHANGED <<opid, proc, serverVars>>

\* os.WriteFile(pidFile, pid)
WritePid(o) ==
    /\ opc[o] = "write"
    /\ pidfile' = opid[o]
    /\ Say(o, "started")
    /\ Goto(o, "idle")
    /\ UNCHANGED <<opid, proc, serverVars>>

-----------------------------------------------------------------------------
(* bin/service stop and restart                                             *)

\* readPID; without a pid file stop ends here and restart goes on.
NotRunning(o, next) ==
    /\ opc[o] = "idle"
    /\ pidfile = NoPid
    /\ Say(o, "not running")
    /\ Goto(o, next)
    /\ UNCHANGED <<pidfile, opid, proc, serverVars>>

\* syscall.Kill(pid, SIGTERM): the server has no handler for it.
Terminate(o, next) ==
    /\ opc[o] = "idle"
    /\ pidfile # NoPid
    /\ opid' = [opid EXCEPT ![o] = pidfile]
    /\ \/ ~Alive(pidfile) /\ UNCHANGED <<proc, killed>>
       \/ Alive(pidfile) /\ ~SlowTerm /\ Stage(pidfile, "dead") /\ UNCHANGED killed
       \/ Alive(pidfile) /\ SlowTerm /\ killed' = killed \cup {pidfile} /\ UNCHANGED proc
    /\ Goto(o, next)
    /\ UNCHANGED <<pidfile, said, hup, config, globals, used, crashes>>

\* os.Remove(pidFile), whatever the file holds by now and whether or not the
\* signal was delivered.
Remove(o, step, next) ==
    /\ opc[o] = step
    /\ pidfile' = NoPid
    /\ Say(o, "stopped")
    /\ Goto(o, next)
    /\ UNCHANGED <<opid, proc, serverVars>>

Stop(o) == NotRunning(o, "idle") \/ Terminate(o, "remove") \/ Remove(o, "remove", "idle")

Restart(o) ==
    NotRunning(o, "sleep") \/ Terminate(o, "remove and start")
        \/ Remove(o, "remove and start", "sleep")

(* bin/service reload: before the server has called signal.Notify a SIGHUP  *)
(* has its default effect, which is to end the process.                     *)
Reload(o) ==
    /\ opc[o] = "idle"
    /\ \/ pidfile = NoPid /\ Say(o, "not running") /\ UNCHANGED <<proc, hup>>
       \/ pidfile # NoPid /\ ~Alive(pidfile) /\ Say(o, "failed to reload")
          /\ UNCHANGED <<proc, hup>>
       \/ pidfile # NoPid /\ Alive(pidfile) /\ Say(o, "reloaded")
          /\ IF proc[pidfile] = "booting"
             THEN Stage(pidfile, "dead") /\ UNCHANGED hup
             ELSE hup' = hup \cup {pidfile} /\ UNCHANGED proc
    /\ UNCHANGED <<pidfile, opc, opid, killed, config, globals, used, crashes>>

-----------------------------------------------------------------------------
(* The server.                                                              *)

\* loadEverything; the workers and the handlers are given the pointers it
\* loaded; signal.Notify.
Boot(p) ==
    /\ proc[p] = "booting"
    /\ IF config \in BadConfigs
       THEN Stage(p, "dead") /\ UNCHANGED <<globals, used>>
       ELSE /\ Stage(p, "ready")
            /\ globals' = [globals EXCEPT ![p] = config]
            /\ used' = [used EXCEPT ![p] = config]
    /\ UNCHANGED <<pidfile, opc, opid, said, killed, hup, config, crashes>>

\* api.StartServer: the port is free, or log.Fatal.
Listen(p) ==
    /\ proc[p] = "ready"
    /\ Stage(p, IF \E q \in Pids : proc[q] = "serving" THEN "dead" ELSE "serving")
    /\ UNCHANGED <<pidfile, opc, opid, said, serverVars>>

\* The SIGHUP goroutine: loadEverything assigns the globals, which nobody
\* reads any more, or dies of a file that does not parse.
HandleHup(p) ==
    /\ p \in hup
    /\ Alive(p)
    /\ hup' = hup \ {p}
    /\ IF config \in BadConfigs
       THEN Stage(p, "dead") /\ UNCHANGED globals
       ELSE globals' = [globals EXCEPT ![p] = config] /\ UNCHANGED proc
    /\ UNCHANGED <<pidfile, opc, opid, said, killed, config, used, crashes>>

\* SIGTERM takes its effect at last.
Die(p) ==
    /\ p \in killed
    /\ Alive(p)
    /\ Stage(p, "dead")
    /\ UNCHANGED <<pidfile, opc, opid, said, serverVars>>

\* A panic of a worker, log.Fatal, kill -9: the pid file stays.
Crash(p) ==
    /\ crashes < MaxCrashes
    /\ Alive(p)
    /\ Stage(p, "dead")
    /\ crashes' = crashes + 1
    /\ UNCHANGED <<pidfile, opc, opid, said, killed, hup, config, globals, used>>

EditConfig ==
    /\ config < MaxConfig
    /\ config' = config + 1
    /\ UNCHANGED <<pidfile, opc, opid, said, proc, killed, hup, globals, used, crashes>>

Start(o) == Stat(o) \/ Spawn(o) \/ SpawnFails(o) \/ WritePid(o)

Next ==
    \/ \E o \in Operators : Start(o) \/ Stop(o) \/ Restart(o) \/ Reload(o)
    \/ \E p \in Pids : Boot(p) \/ Listen(p) \/ HandleHup(p) \/ Die(p) \/ Crash(p)
    \/ EditConfig

Spec == Init /\ [][Next]_svVars

-----------------------------------------------------------------------------
(* Properties.                                                              *)

\* The types of the pid file, the commands and the servers.
TypeOK ==
    /\ pidfile \in Pids \cup {NoPid}
    /\ opc \in [Operators -> {"idle", "spawn", "write", "remove",
                              "remove and start", "sleep"}]
    /\ opid \in [Operators -> Pids \cup {NoPid}]
    /\ said \in [Operators -> {"nothing", "already running!", "failed to start",
                    "started", "not running", "stopped", "reloaded", "failed to reload"}]
    /\ proc \in [Pids -> {"unused", "booting", "ready", "serving", "dead"}]
    /\ killed \subseteq Pids
    /\ hup \subseteq Pids
    /\ config \in 1 .. MaxConfig
    /\ globals \in [Pids -> 0 .. MaxConfig]
    /\ used \in [Pids -> 0 .. MaxConfig]
    /\ crashes \in 0 .. MaxCrashes

Quiescent == \A o \in Operators : opc[o] = "idle"

\* When no command is under way, a server that was not told to stop is the one
\* the pid file names: stop and reload reach it.  One command at a time, over
\* crashes, early reloads, bad configurations and slow deaths.
ServerIsManaged ==
    Quiescent => \A p \in Pids : Alive(p) /\ p \notin killed => pidfile = p

\* At no moment are there two servers that nobody told to stop.
OneLiveServer ==
    Cardinality({p \in Pids : Alive(p) /\ p \notin killed}) <= 1

\* A server that has handled "Reloading configs..." works with the reloaded
\* configuration.
ReloadTakesEffect ==
    \A p \in Pids : Alive(p) /\ proc[p] # "booting" => used[p] = globals[p]
=============================================================================
