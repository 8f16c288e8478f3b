----------------------------- MODULE ConfigFiles -----------------------------
(***************************************************************************)
(* users.yaml and druid.yaml, and who rewrites them while a person edits   *)
(* them: userctl add and disable (src/cmd/userctl/main.go) and             *)
(* datasource-sync (src/cmd/datasource-sync/main.go).                      *)
(*                                                                         *)
(* A command reads a file, waits (for a password, for Druid), and writes   *)
(* the whole file back: os.WriteFile opens it, which empties it, and then  *)
(* writes.  Several commands may be under way, and each may be killed      *)
(* between any two steps.  They are run in the project root, where they    *)
(* read and write the same files; the restart of the server that loads     *)
(* the files is in module Session.                                         *)
(*                                                                         *)
(* Users are numbered in the order in which the file lists them, and have  *)
(* names that are no fields of an account.  An account is abstracted to    *)
(* its presence and the layout of its access rights, a field of druid.yaml *)
(* to whether it is there and reserved.  A killed write leaves nothing, a  *)
(* part that loads, or a part that does not.  That a part or a change of a *)
(* file that did not load happens to load is left out.                     *)
(***************************************************************************)
EXTENDS Naturals

CONSTANTS
    Commands,       \* processes that may run userctl or datasource-sync, once each
    Users, Fields,
    HandWritten,    \* the texts of users.yaml to begin with
    MaxMinute, MaxEdits, MaxKills

\* The values in the access rights of a user: none, on the line of their field, or
\* below it as a list, one line "- <value>" each.
Layouts == {"none", "inline", "list"}

\* users.yaml: the users it lists, those it has a line "# <user>:" for, whether
\* blank lines separate them, and how it gives their access rights.
UserTexts == [listed : SUBSET Users, off : SUBSET Users, spaced : BOOLEAN,
              access : [Users -> Layouts]]

ASSUME ConfigAssumption ==
    /\ Users \subseteq Nat
    /\ HandWritten \subseteq UserTexts
    /\ MaxMinute \in Nat /\ MaxEdits \in Nat /\ MaxKills \in Nat

\* druid.yaml.
Schemas == [fields : [Fields -> {"none", "open", "reserved"}]]

\* A text of which only the entries of some users are there.
Only(text, ls) ==
    [text EXCEPT !.listed = ls, !.access = [u \in Users |-> IF u \in ls THEN @[u] ELSE "none"]]

\* A file that is not there, is empty, or does not load.
Absent == "absent"
Empty == "empty"
Broken == "broken"

Text(content) == [whole |-> TRUE, content |-> content]
Other(how) == [whole |-> FALSE, how |-> how]

VARIABLES
    users, druid,   \* the two files
    mtime,          \* the minute of the last change of druid.yaml
    minute,
    archives,       \* minute -> archives/druid.yaml.<minute>
    edits, kills,
    \* per command
    pc,
    job,            \* what it is about: a user, or the columns Druid has
    drops,          \* the users it comments out
    loaded,         \* what it read
    slot,           \* the minute its backup is named after
    \* history
    overtaken,      \* commands whose file changed after they read it
    late,           \* commands whose file, or its backup, changed after they made one
    added,          \* users whose add was acknowledged and that must be there
    hidden,         \* fields reserved by hand that must stay so
    replaced        \* contents of druid.yaml a command replaced

files == <<users, druid, mtime, archives>>
counters == <<minute, edits, kills>>
commands == <<pc, job, drops, loaded, slot>>
history == <<overtaken, late, added, hidden, replaced>>
configVars == <<files, counters, commands, history>>

UserSteps == {"prompt", "userTruncate", "userWrite"}
SyncSteps == {"sync", "backup", "copy", "syncTruncate", "syncWrite"}

Init ==
    /\ users \in {Text(x) : x \in HandWritten} \cup {Other(Absent), Other(Empty)}
    /\ druid \in {Text([fields |-> fs]) : fs \in [Fields -> {"none", "open"}]}
    /\ mtime = 0
    /\ minute = 0
    /\ archives = [m \in 0 .. MaxMinute |-> Other(Absent)]
    /\ edits = 0
    /\ kills = 0
    /\ pc = [c \in Commands |-> "idle"]
    /\ job = [c \in Commands |-> {}]
    /\ drops = [c \in Commands |-> {}]
    /\ loaded = [c \in Commands |-> Other(Absent)]
    /\ slot = [c \in Commands |-> 0]
    /\ overtaken = {}
    /\ late = {}
    /\ added = {}
    /\ hidden = {}
    /\ replaced = {}

Goto(c, step) == pc' = [pc EXCEPT ![c] = step]

Give(f, c, x) == [f EXCEPT ![c] = x]

\* The commands that are at work on a file.
OnUsers == {c \in Commands : pc[c] \in UserSteps}
OnDruid == {c \in Commands : pc[c] \in SyncSteps}

Listed(file) == IF file.whole THEN file.content.listed ELSE {}

\* Two writes into one emptied file: the later one may leave the end of the
\* longer one standing.
Written(file, results) ==
    results \cup IF file = Other(Empty) THEN {} ELSE {Other(Broken)}

-----------------------------------------------------------------------------
(* userctl.                                                                 *)

\* LoadUsers and the check for the name.  An absent file counts as no users.
AddUser(c, u) ==
    /\ pc[c] = "idle"
    /\ job' = Give(job, c, {u})
    /\ loaded' = Give(loaded, c, users)
    /\ IF users = Other(Broken) \/ u \in Listed(users)
       THEN Goto(c, "done")
       ELSE Goto(c, "prompt")
    /\ UNCHANGED <<files, counters, drops, slot, history>>

\* A file without users, but for an absent one, leaves the map nil.
NoMap(file) == file # Other(Absent) /\ Listed(file) = {}

\* The password and the question are answered, or not.  The assignment to a nil
\* map panics.
Prompted(c) ==
    /\ pc[c] = "prompt"
    /\ \/ Goto(c, "done")
       \/ ~NoMap(loaded[c]) /\ Goto(c, "userTruncate")
    /\ UNCHANGED <<files, counters, job, drops, loaded, slot, history>>

\* The users whose lines disable comments out: the user and those below, down to a
\* blank line or a line that begins with "-", as no other line ends an entry.
Hit(text, u) ==
    {v \in text.listed :
        /\ u \in text.listed
        /\ \/ v = u
           \/ /\ v > u
              /\ ~text.spaced
              /\ \A w \in text.listed : u <= w /\ w < v => text.access[w] # "list"}

\* disableUser up to the write.  It works on the lines, whether they load or not.
\* Indented lines become "#   <user>:", so that only a line "# <user>:" that was
\* there before makes it write.
DisableUser(c, u) ==
    /\ pc[c] = "idle"
    /\ loaded' = Give(loaded, c, users)
    /\ \/ /\ users.whole /\ u \in users.content.off
          /\ drops' = Give(drops, c, Hit(users.content, u))
          /\ Goto(c, "userTruncate")
       \/ /\ users = Other(Broken)
          /\ UNCHANGED drops
          /\ Goto(c, "userTruncate")
       \/ /\ users.whole => u \notin users.content.off
          /\ UNCHANGED drops
          /\ Goto(c, "done")
    /\ UNCHANGED <<files, counters, job, slot, history>>

\* WriteFile, the open.
UserTruncate(c) ==
    /\ pc[c] = "userTruncate"
    /\ Goto(c, "userWrite")
    /\ users' = Other(Empty)
    /\ overtaken' = overtaken \cup (OnUsers \ {c})
    /\ UNCHANGED <<druid, mtime, archives, counters, job, drops, loaded, slot, late, added, hidden, replaced>>

\* Seeded fault: what the file held is not written back.
OnlyNew(c) ==
    [listed |-> job[c], off |-> {}, spaced |-> FALSE, access |-> [u \in Users |-> "none"]]

\* saveUsers: the YAML of what was read and the new user, without comments and
\* layout; values are listed.
Marshalled(c) ==
    [listed |-> Listed(loaded[c]) \cup job[c], off |-> {}, spaced |-> FALSE,
     access |-> [u \in Users |-> IF u \in Listed(loaded[c]) /\ loaded[c].content.access[u] # "none"
                                 THEN "list" ELSE "none"]]

\* What a userctl writes, if it loads: disable keeps the text.
Output(c) ==
    IF job[c] = {} THEN Only(loaded[c].content, loaded[c].content.listed \ drops[c])
    ELSE Marshalled(c)

\* disable leaves the values of one it comments out: at the first the entry ended.
ValuesLeft(c) == \E v \in drops[c] : loaded[c].content.access[v] = "list"

\* They go on with the list of the user above, if that user's entry ends in one.
Joinable(c) ==
    LET above == {v \in Output(c).listed : \A d \in drops[c] : v < d} IN
    \E w \in above : Output(c).access[w] = "list" /\ \A v \in above : v <= w

\* The files a userctl may write.  Values without a field do not load.  Values that
\* join a list do if they are as far indented and no field comes twice.
Results(c) ==
    IF job[c] # {} THEN {Text(Output(c))}
    ELSE IF ~loaded[c].whole THEN {Other(Broken)}
    ELSE IF ~ValuesLeft(c) THEN {Text(Output(c))}
    ELSE IF Joinable(c) THEN {Text(Output(c)), Other(Broken)}
    ELSE {Other(Broken)}

\* WriteFile, the write, and "User added".
UserWrite(c) ==
    /\ pc[c] = "userWrite"
    /\ Goto(c, "done")
    /\ users' \in Written(users, Results(c))
    /\ overtaken' = overtaken \cup (OnUsers \ {c})
    /\ added' = IF ~users'.whole THEN {}
                ELSE job[c] \cup IF c \in overtaken THEN added \cap Listed(users')
                                                   ELSE added \ drops[c]
    /\ UNCHANGED <<druid, mtime, archives, counters, job, drops, loaded, slot, late, hidden, replaced>>

-----------------------------------------------------------------------------
(* datasource-sync.                                                         *)

\* LoadDruidConfig.  Without a host, as in an empty file, the call fails.
SyncLoad(c) ==
    /\ pc[c] = "idle"
    /\ loaded' = Give(loaded, c, druid)
    /\ Goto(c, IF druid.whole THEN "sync" ELSE "done")
    /\ UNCHANGED <<files, counters, job, drops, slot, history>>

\* Seeded fault: every column is entered, whether the field is there or not.
MergeAll(schema, columns) ==
    [fields |-> [f \in Fields |-> IF f \in columns THEN "open" ELSE schema.fields[f]]]

\* A column without a field gets one that is not reserved.
Merge(schema, columns) ==
    [fields |-> [f \in Fields |->
        IF f \in columns /\ schema.fields[f] = "none" THEN "open" ELSE schema.fields[f]]]

\* Druid answers with the columns, or the call, the decoding or the merge fails
\* (a datasource without one of its two maps panics), or it was a dry run.
SyncAnswered(c) ==
    /\ pc[c] = "sync"
    /\ \/ Goto(c, "done") /\ UNCHANGED job
       \/ \E columns \in SUBSET Fields :
             /\ \E f \in columns : loaded[c].content.fields[f] = "none"
             /\ job' = Give(job, c, columns)
             /\ Goto(c, "backup")
    /\ UNCHANGED <<files, counters, drops, loaded, slot, history>>

\* Seeded fault: the copy is named after the minute that follows.
BackupStatNext(c) ==
    /\ pc[c] = "backup"
    /\ slot' = Give(slot, c, mtime + 1)
    /\ Goto(c, "copy")
    /\ UNCHANGED <<files, counters, job, drops, loaded, history>>

\* backupFile names the copy after the last change of the file, as of now.
BackupStat(c) ==
    /\ pc[c] = "backup"
    /\ slot' = Give(slot, c, mtime)
    /\ Goto(c, "copy")
    /\ UNCHANGED <<files, counters, job, drops, loaded, history>>

\* Seeded fault: a backup that is there is not replaced.
KeepOld(c) == IF archives[slot[c]].whole THEN archives[slot[c]] ELSE druid

\* os.Create and io.Copy.
Copied(c) == druid

\* What c overwrites in archives/, and the commands whose backup that was.
Overwritten(c) == {archives[slot[c]]} \ {archives'[slot[c]]}
Robbed(c) == {d \in Commands \ {c} : slot[d] = slot[c] /\ Overwritten(c) # {}}

BackupCopy(c) ==
    /\ pc[c] = "copy"
    /\ archives' = [archives EXCEPT ![slot[c]] = Copied(c)]
    /\ late' = (late \ {c}) \cup Robbed(c)
    /\ replaced' = replaced \ Overwritten(c)
    /\ Goto(c, "syncTruncate")
    /\ UNCHANGED <<users, druid, mtime, counters, job, drops, loaded, slot, overtaken, added, hidden>>

SyncTruncate(c) ==
    /\ pc[c] = "syncTruncate"
    /\ Goto(c, "syncWrite")
    /\ druid' = Other(Empty)
    /\ mtime' = minute
    /\ replaced' = IF druid.whole /\ c \notin late THEN replaced \cup {druid} ELSE replaced
    /\ overtaken' = overtaken \cup (OnDruid \ {c})
    /\ late' = late \cup (OnDruid \ {c})
    /\ UNCHANGED <<users, archives, counters, job, drops, loaded, slot, added, hidden>>

SyncWrite(c) ==
    /\ pc[c] = "syncWrite"
    /\ Goto(c, "done")
    /\ druid' \in Written(druid, {Text(Merge(loaded[c].content, job[c]))})
    /\ mtime' = minute
    /\ hidden' = IF ~druid'.whole THEN {}
                 ELSE IF c \in overtaken
                 THEN hidden \cap {f \in Fields : druid'.content.fields[f] = "reserved"}
                 ELSE hidden
    /\ overtaken' = overtaken \cup (OnDruid \ {c})
    /\ late' = late \cup (OnDruid \ {c})
    /\ UNCHANGED <<users, archives, counters, job, drops, loaded, slot, added, replaced>>

-----------------------------------------------------------------------------
(* The world.                                                               *)

\* The parts of what a userctl writes that load.
Parts(c) ==
    IF job[c] = {} /\ ~loaded[c].whole THEN {}
    ELSE {Text(Only(Output(c), ls)) : ls \in SUBSET Output(c).listed}

\* kill, or a crash of the machine: a write leaves what was there, all of it, a
\* part that loads or one that does not; a copy, all or nothing that helps.
Kill(c) ==
    /\ kills < MaxKills
    /\ kills' = kills + 1
    /\ pc[c] \in UserSteps \cup SyncSteps
    /\ Goto(c, "done")
    /\ IF pc[c] = "userWrite"
       THEN /\ users' \in {users, Other(Broken)} \cup Parts(c)
            /\ added' = {}
            /\ overtaken' = overtaken \cup (OnUsers \ {c})
       ELSE UNCHANGED <<users, added>>
    /\ IF pc[c] = "syncWrite"
       THEN /\ druid' \in {druid, Other(Broken)} \cup
                  {Text([fields |-> [f \in Fields |->
                      IF f \in fs THEN Merge(loaded[c].content, job[c]).fields[f] ELSE "none"]]) :
                          fs \in SUBSET Fields}
            /\ mtime' = minute
            /\ hidden' = {}
            /\ overtaken' = overtaken \cup (OnDruid \ {c})
       ELSE UNCHANGED <<druid, mtime, hidden>>
    /\ pc[c] \notin {"userWrite", "syncWrite"} => UNCHANGED overtaken
    /\ IF pc[c] = "copy"
       THEN archives' \in {archives, [archives EXCEPT ![slot[c]] = Other(Broken)]}
       ELSE UNCHANGED archives
    /\ replaced' = replaced \ Overwritten(c)
    /\ late' = late \cup Robbed(c) \cup IF pc[c] = "syncWrite" THEN OnDruid \ {c} ELSE {}
    /\ UNCHANGED <<minute, edits, job, drops, loaded, slot>>

\* An entry in users.yaml with its access rights given one way or another.
Entered(text, u) ==
    {[text EXCEPT !.listed = @ \cup {u}, !.access[u] = how] : how \in Layouts}

\* An editor that loads and saves in one go: a user is entered, commented out
\* by hand or restored, the access rights changed, or a file repaired.
EditUsers(u) ==
    /\ edits < MaxEdits
    /\ edits' = edits + 1
    /\ users' \in IF users.whole
                  THEN {Text(x) : x \in Entered(users.content, u) \cup
                            {[Only(users.content, users.content.listed \ {u}) EXCEPT !.off = @ \cup {u}]}}
                  ELSE {Text(x) : x \in Entered([listed |-> {}, off |-> {}, spaced |-> TRUE,
                                                access |-> [v \in Users |-> "none"]], u)}
    /\ added' = added \cap Listed(users')
    /\ overtaken' = overtaken \cup OnUsers
    /\ UNCHANGED <<druid, mtime, archives, minute, kills, commands, late, hidden, replaced>>

\* A field is reserved, opened or removed.
EditDruid(f) ==
    /\ edits < MaxEdits
    /\ edits' = edits + 1
    /\ druid.whole
    /\ \E how \in {"none", "open", "reserved"} \ {druid.content.fields[f]} :
          /\ druid' = Text([druid.content EXCEPT !.fields[f] = how])
          /\ hidden' = IF how = "reserved" THEN hidden \cup {f} ELSE hidden \ {f}
    /\ mtime' = minute
    /\ overtaken' = overtaken \cup OnDruid
    /\ late' = late \cup OnDruid
    /\ UNCHANGED <<users, archives, minute, kills, commands, added, replaced>>

Tick ==
    /\ minute < MaxMinute
    /\ minute' = minute + 1
    /\ UNCHANGED <<files, edits, kills, commands, history>>

Next ==
    \/ \E c \in Commands :
        \/ \E u \in Users : AddUser(c, u) \/ DisableUser(c, u)
        \/ Prompted(c) \/ UserTruncate(c) \/ UserWrite(c)
        \/ SyncLoad(c) \/ SyncAnswered(c) \/ BackupStat(c) \/ BackupCopy(c)
        \/ SyncTruncate(c) \/ SyncWrite(c)
        \/ Kill(c)
    \/ \E u \in Users : EditUsers(u)
    \/ \E f \in Fields : EditDruid(f)
    \/ Tick

Spec == Init /\ [][Next]_configVars

-----------------------------------------------------------------------------
(* Properties.                                                              *)

Files(content) == {Text(x) : x \in content} \cup {Other(how) : how \in {Absent, Empty, Broken}}
UserFiles == Files(UserTexts)
SchemaFiles == Files(Schemas)

\* Type invariant: the files, what the commands read of them, and the archives,
\* none of which is dated later than now.
TypeOK ==
    /\ users \in UserFiles
    /\ druid \in SchemaFiles
    /\ mtime \in 0 .. minute
    /\ minute \in 0 .. MaxMinute
    /\ archives \in [0 .. MaxMinute -> SchemaFiles]
    /\ edits \in 0 .. MaxEdits
    /\ kills \in 0 .. MaxKills
    /\ pc \in [Commands -> {"idle", "done"} \cup UserSteps \cup SyncSteps]
    /\ job \in [Commands -> (SUBSET Users) \cup (SUBSET Fields)]
    /\ drops \in [Commands -> SUBSET Users]
    /\ loaded \in [Commands -> UserFiles \cup SchemaFiles]
    /\ slot \in [Commands -> 0 .. MaxMinute]
    /\ overtaken \subseteq Commands
    /\ late \subseteq Commands
    /\ added \subseteq Users
    /\ hidden \subseteq Fields
    /\ replaced \subseteq SchemaFiles

\* A user whose add was acknowledged can log in from then on, through adds,
\* disables and panics of others.  What ends it: an edit by hand; a disable of the
\* user or of one above; a command that read the file before the user was written;
\* a killed write; and, for all users, those above included, a file that does not
\* load: a disable writes one when it leaves the values of whom it comments out, and
\* two writes at once may.
AddedStays ==
    (\A c \in Commands : pc[c] # "userWrite") => added \subseteq Listed(users)

\* A field that was reserved by hand stays so through every synchronisation,
\* whatever was done to the file while Druid was asked.  What ends it: an edit
\* by hand, a synchronisation that read the file before it was reserved, and a
\* killed write.
ReservedStays ==
    druid.whole => \A f \in hidden : druid.content.fields[f] = "reserved"

\* Whatever a synchronisation replaces is in archives/, an edit made while it
\* asked Druid included, until a backup is made of another content of the same
\* minute.  (An edit between backup and write is not: late.)
ReplacedIsArchived ==
    \A file \in replaced : \E m \in 0 .. MaxMinute : archives[m] = file
=============================================================================
