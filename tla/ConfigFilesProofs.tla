------------------------- MODULE ConfigFilesProofs -------------------------
(***************************************************************************)
(* Theorems about the two configuration files, for any number of commands, *)
(* users and fields, any number of edits and of commands killed.           *)
(***************************************************************************)
EXTENDS ConfigFiles, TLAPS

USE DEF UserFiles, SchemaFiles

\* What a command carries from one step to the next.
JobOf(c) ==
    /\ pc[c] = "idle" => job[c] = {}
    /\ pc[c] \in UserSteps => loaded[c] \in Files(UserTexts) /\ job[c] \in SUBSET Users
    /\ pc[c] = "prompt" => job[c] # {}
    /\ pc[c] \in {"userTruncate", "userWrite"} => loaded[c] # Other(Empty)
    /\ pc[c] \in SyncSteps => loaded[c] \in {Text(schema) : schema \in Schemas}
    /\ pc[c] \in SyncSteps \ {"sync"} => job[c] \in SUBSET Fields

TypeInv == TypeOK /\ \A c \in Commands : JobOf(c)

\* An emptied file is somebody's who will write it, or nobody's any more; a
\* command whose file did not change after it read it will write no user out of it.
UsersInv ==
    /\ users # Other(Empty) => added \subseteq Listed(users)
    /\ users = Other(Empty) => added = {} \/ \E c \in Commands : pc[c] = "userWrite"
    /\ \A c \in Commands \ overtaken :
         /\ pc[c] \in {"prompt", "userTruncate"} => loaded[c] = users
         /\ pc[c] = "userWrite" => added \subseteq Listed(loaded[c])

Reserved(file) == {f \in Fields : file.content.fields[f] = "reserved"}

\* A synchronisation whose file did not change after it read it knows every
\* reserved field.
DruidInv ==
    /\ druid.whole => hidden \subseteq Reserved(druid)
    /\ \A c \in Commands \ overtaken :
         /\ pc[c] \in SyncSteps \ {"syncWrite"} => loaded[c] = druid
         /\ pc[c] = "syncWrite" => hidden \subseteq Reserved(loaded[c])

\* A synchronisation that is not late has the file as it is now in the archives.
ArchiveInv ==
    /\ ReplacedIsArchived
    /\ \A c \in Commands \ late :
         pc[c] = "syncTruncate" /\ druid.whole => archives[slot[c]] = druid

-----------------------------------------------------------------------------
(* Types.                                                                   *)

\* A file is text, or one of three things that are not.
LEMMA FileCases ==
    ASSUME NEW C, NEW file
    PROVE  /\ file \in Files(C) <=> \/ file.whole /\ file = Text(file.content) /\ file.content \in C
                                    \/ file \in {Other(Absent), Other(Empty), Other(Broken)}
           /\ \A x : Text(x).whole /\ Text(x).content = x
           /\ \A how : ~Other(how).whole
           /\ Other(Empty) # Other(Broken) /\ Other(Empty) # Other(Absent)
           /\ \A x, how : Text(x) # Other(how)
BY DEF Files, Text, Other, Absent, Empty, Broken

\* Who is listed is a user.
LEMMA ListedType ==
    ASSUME NEW file \in Files(UserTexts)
    PROVE  Listed(file) \in SUBSET Users
<1>1. CASE file.whole
  <2>1. file.content \in UserTexts
    BY <1>1, FileCases
  <2> QED BY <1>1, <2>1 DEF Listed, UserTexts
<1>2. CASE ~file.whole
  BY <1>2 DEF Listed
<1> QED BY <1>1, <1>2

\* A part of a text is one.
LEMMA OnlyType ==
    ASSUME NEW text \in UserTexts, NEW ls \in SUBSET Users
    PROVE  Only(text, ls) \in UserTexts /\ Only(text, ls).listed = ls
<1>1. [u \in Users |-> IF u \in ls THEN text.access[u] ELSE "none"] \in [Users -> Layouts]
  BY DEF UserTexts, Layouts
<1> QED BY <1>1 DEF Only, UserTexts

\* An entry is made in a text.
LEMMA EnteredType ==
    ASSUME NEW text \in UserTexts, NEW u \in Users
    PROVE  Entered(text, u) \subseteq UserTexts
<1> SUFFICES ASSUME NEW how \in Layouts
             PROVE  [text EXCEPT !.listed = @ \cup {u}, !.access[u] = how] \in UserTexts
  BY DEF Entered
<1>1. [text.access EXCEPT ![u] = how] \in [Users -> Layouts]
  BY DEF UserTexts
<1> QED BY <1>1 DEF UserTexts

\* What userctl writes is the text of a users file.
LEMMA OutputType ==
    ASSUME TypeInv, NEW c \in Commands, pc[c] \in {"userTruncate", "userWrite"},
           job[c] # {} \/ loaded[c].whole
    PROVE  Output(c) \in UserTexts
<1>1. /\ loaded[c] \in Files(UserTexts) /\ job[c] \in SUBSET Users
  BY DEF TypeInv, JobOf, UserSteps
<1>2. CASE job[c] = {}
  <2>1. loaded[c].content \in UserTexts
    BY <1>1, <1>2, FileCases
  <2>2. loaded[c].content.listed \ drops[c] \in SUBSET Users
    BY <2>1 DEF UserTexts
  <2> QED BY <1>2, <2>1, <2>2, OnlyType DEF Output
<1>3. CASE job[c] # {}
  <2>1. Listed(loaded[c]) \in SUBSET Users
    BY <1>1, ListedType
  <2>2. \A b \in BOOLEAN : (IF b THEN "list" ELSE "none") \in Layouts
    BY DEF Layouts
  <2> QED BY <1>1, <1>3, <2>1, <2>2 DEF Output, Marshalled, UserTexts, Layouts
<1> QED BY <1>2, <1>3

\* It is this text or a file that does not load.
LEMMA ResultCases ==
    ASSUME NEW c \in Commands, NEW file \in Results(c)
    PROVE  \/ file = Text(Output(c)) /\ (job[c] # {} \/ loaded[c].whole)
           \/ file = Other(Broken)
BY DEF Results

\* What datasource-sync writes is a schema.
LEMMA MergeType ==
    ASSUME NEW schema \in Schemas, NEW columns
    PROVE  Merge(schema, columns) \in Schemas
BY DEF Merge, Schemas

\* A file that is whole has a content of its kind, a schema fields.
LEMMA WholeFiles ==
    ASSUME TypeInv
    PROVE  /\ users.whole => users.content \in UserTexts
           /\ druid.whole => /\ druid.content \in Schemas
                             /\ druid \in {Text(schema) : schema \in Schemas}
           /\ \A c \in Commands : pc[c] \in SyncSteps =>
                loaded[c].whole /\ loaded[c].content \in Schemas
<1>1. users \in Files(UserTexts) /\ druid \in Files(Schemas)
  BY DEF TypeInv, TypeOK
<1>2. \A x, y : Text(x).whole /\ Text(x).content = x /\ ~Other(y).whole
  BY DEF Text, Other
<1>3. users.whole => users.content \in UserTexts
  BY <1>1, <1>2 DEF Files
<1>4. druid.whole => druid.content \in Schemas /\ druid \in {Text(schema) : schema \in Schemas}
  BY <1>1, <1>2 DEF Files
<1>5. \A c \in Commands : pc[c] \in SyncSteps =>
        loaded[c].whole /\ loaded[c].content \in Schemas
  BY <1>2 DEF TypeInv, JobOf
<1> QED BY <1>3, <1>4, <1>5

CommandTypes ==
    /\ pc \in [Commands -> {"idle", "done"} \cup UserSteps \cup SyncSteps]
    /\ job \in [Commands -> (SUBSET Users) \cup (SUBSET Fields)]
    /\ drops \in [Commands -> SUBSET Users]
    /\ loaded \in [Commands -> Files(UserTexts) \cup Files(Schemas)]
    /\ slot \in [Commands -> 0 .. MaxMinute]

FileTypes ==
    /\ users \in Files(UserTexts)
    /\ druid \in Files(Schemas)
    /\ mtime \in 0 .. minute
    /\ archives \in [0 .. MaxMinute -> Files(Schemas)]

CounterTypes ==
    /\ minute \in 0 .. MaxMinute
    /\ edits \in 0 .. MaxEdits
    /\ kills \in 0 .. MaxKills

HistoryTypes ==
    /\ overtaken \subseteq Commands
    /\ late \subseteq Commands
    /\ added \subseteq Users
    /\ hidden \subseteq Fields
    /\ replaced \subseteq Files(Schemas)

LEMMA TypeParts ==
    TypeOK <=> CommandTypes /\ FileTypes /\ CounterTypes /\ HistoryTypes
BY DEF TypeOK, CommandTypes, FileTypes, CounterTypes, HistoryTypes

\* The steps of one command leave what the others carry.
LEMMA CommandStep ==
    ASSUME TypeInv, NEW c \in Commands,
           \/ \E u \in Users : AddUser(c, u) \/ DisableUser(c, u)
           \/ Prompted(c) \/ UserTruncate(c) \/ UserWrite(c)
           \/ SyncLoad(c) \/ SyncAnswered(c) \/ BackupStat(c) \/ BackupCopy(c)
           \/ SyncTruncate(c) \/ SyncWrite(c)
           \/ Kill(c)
    PROVE  CommandTypes' /\ \A d \in Commands : JobOf(d)'
<1> SUFFICES CommandTypes' /\ JobOf(c)' /\
             \A d \in Commands \ {c} : pc'[d] = pc[d] /\ job'[d] = job[d] /\ loaded'[d] = loaded[d]
  BY DEF TypeInv, JobOf
<1>0. CommandTypes /\ JobOf(c) /\ mtime \in 0 .. minute /\ minute \in 0 .. MaxMinute
  BY DEF TypeInv, TypeOK, CommandTypes
<1> USE DEF Goto, Give, CommandTypes, files, counters, history
<1>1. ASSUME NEW u \in Users, AddUser(c, u)
      PROVE  CommandTypes' /\ JobOf(c)' /\
             \A d \in Commands \ {c} : pc'[d] = pc[d] /\ job'[d] = job[d] /\ loaded'[d] = loaded[d]
  <2>1. users \in Files(UserTexts)
    BY DEF TypeInv, TypeOK
  <2> QED BY <1>0, <1>1, <2>1 DEF AddUser, JobOf, UserSteps, SyncSteps
<1>2. ASSUME NEW u \in Users, DisableUser(c, u)
      PROVE  CommandTypes' /\ JobOf(c)' /\
             \A d \in Commands \ {c} : pc'[d] = pc[d] /\ job'[d] = job[d] /\ loaded'[d] = loaded[d]
  <2>1. users \in Files(UserTexts)
    BY DEF TypeInv, TypeOK
  <2>2. users.whole => Hit(users.content, u) \in SUBSET Users
    BY WholeFiles DEF Hit, UserTexts
  <2>3. users.whole \/ users = Other(Broken) => users # Other(Empty)
    BY DEF Other, Empty, Broken
  <2>4. UNCHANGED <<job, slot>> /\ loaded' = [loaded EXCEPT ![c] = users] /\ pc[c] = "idle"
    BY <1>2 DEF DisableUser
  <2>5. \/ users.whole /\ pc' = [pc EXCEPT ![c] = "userTruncate"]
                       /\ drops' = [drops EXCEPT ![c] = Hit(users.content, u)]
        \/ users = Other(Broken) /\ pc' = [pc EXCEPT ![c] = "userTruncate"] /\ UNCHANGED drops
        \/ pc' = [pc EXCEPT ![c] = "done"] /\ UNCHANGED drops
    BY <1>2 DEF DisableUser
  <2>6. CommandTypes'
    BY <1>0, <2>1, <2>2, <2>4, <2>5 DEF UserSteps
  <2>7. JobOf(c)'
    BY <1>0, <2>1, <2>3, <2>4, <2>5 DEF JobOf, UserSteps, SyncSteps
  <2> QED BY <2>4, <2>5, <2>6, <2>7
<1>3. ASSUME Prompted(c) PROVE CommandTypes' /\ JobOf(c)'
  <2>1. NoMap(Other(Empty))
    BY DEF NoMap, Listed, Other, Empty, Absent
  <2> QED BY <1>0, <1>3, <2>1 DEF Prompted, JobOf, UserSteps, SyncSteps
<1>4. ASSUME UserTruncate(c) \/ UserWrite(c) PROVE CommandTypes' /\ JobOf(c)'
  BY <1>0, <1>4 DEF UserTruncate, UserWrite, JobOf, UserSteps, SyncSteps
<1>5. ASSUME SyncLoad(c)
      PROVE  CommandTypes' /\ JobOf(c)'
  <2>1. druid \in Files(Schemas) /\ (druid.whole => druid \in {Text(schema) : schema \in Schemas})
    BY WholeFiles DEF TypeInv, TypeOK
  <2> QED BY <1>0, <1>5, <2>1 DEF SyncLoad, JobOf, UserSteps, SyncSteps
<1>6. ASSUME SyncAnswered(c) PROVE CommandTypes' /\ JobOf(c)'
  <2>1. CASE pc' = [pc EXCEPT ![c] = "done"] /\ UNCHANGED <<job, drops, loaded, slot>>
    BY <1>0, <2>1 DEF JobOf, UserSteps, SyncSteps
  <2>2. CASE \E columns \in SUBSET Fields :
               /\ job' = [job EXCEPT ![c] = columns]
               /\ pc' = [pc EXCEPT ![c] = "backup"]
               /\ pc[c] = "sync"
               /\ UNCHANGED <<drops, loaded, slot>>
    BY <1>0, <2>2 DEF JobOf, UserSteps, SyncSteps
  <2> QED BY <1>6, <2>1, <2>2 DEF SyncAnswered
<1>7. ASSUME BackupStat(c) PROVE CommandTypes' /\ JobOf(c)'
  <2>1. mtime \in 0 .. MaxMinute
    BY <1>0, ConfigAssumption
  <2>2. /\ slot' = [slot EXCEPT ![c] = mtime] /\ pc[c] = "backup"
        /\ pc' = [pc EXCEPT ![c] = "copy"] /\ UNCHANGED <<job, drops, loaded>>
    BY <1>7 DEF BackupStat
  <2> QED BY <1>0, <2>1, <2>2 DEF JobOf, UserSteps, SyncSteps
<1>8. ASSUME BackupCopy(c) \/ SyncTruncate(c) \/ SyncWrite(c) \/ Kill(c)
      PROVE  CommandTypes' /\ JobOf(c)'
  <2>1. /\ UNCHANGED <<job, drops, loaded, slot>>
        /\ \/ pc' = [pc EXCEPT ![c] = "done"]
           \/ pc[c] = "copy" /\ pc' = [pc EXCEPT ![c] = "syncTruncate"]
           \/ pc[c] = "syncTruncate" /\ pc' = [pc EXCEPT ![c] = "syncWrite"]
    BY <1>8 DEF BackupCopy, SyncTruncate, SyncWrite, Kill
  <2> QED BY <1>0, <2>1 DEF JobOf, UserSteps, SyncSteps
<1>9. ASSUME \/ Prompted(c) \/ UserTruncate(c) \/ UserWrite(c)
             \/ SyncLoad(c) \/ SyncAnswered(c) \/ BackupStat(c) \/ BackupCopy(c)
             \/ SyncTruncate(c) \/ SyncWrite(c) \/ Kill(c)
      PROVE  \A d \in Commands \ {c} : pc'[d] = pc[d] /\ job'[d] = job[d] /\ loaded'[d] = loaded[d]
  BY <1>0, <1>9 DEF Prompted, UserTruncate, UserWrite, SyncLoad, SyncAnswered, BackupStat,
     BackupCopy, SyncTruncate, SyncWrite, Kill
<1> QED BY <1>1, <1>2, <1>3, <1>4, <1>5, <1>6, <1>7, <1>8, <1>9

\* Whatever writes a file writes one of its kind.
LEMMA FileStep ==
    ASSUME TypeInv, [Next]_configVars
    PROVE  FileTypes' /\ HistoryTypes'
<1>0. /\ FileTypes /\ HistoryTypes /\ minute \in 0 .. MaxMinute /\ slot \in [Commands -> 0 .. MaxMinute]
      /\ \A x \in UserTexts : Text(x) \in Files(UserTexts)
      /\ \A x \in Schemas : Text(x) \in Files(Schemas)
      /\ \A C : Other(Absent) \in Files(C) /\ Other(Empty) \in Files(C) /\ Other(Broken) \in Files(C)
  BY DEF Files, TypeInv, TypeOK, FileTypes, HistoryTypes
<1> USE ConfigAssumption DEF FileTypes, HistoryTypes, files, history
<1>1. ASSUME NEW c \in Commands, NEW u \in Users, AddUser(c, u) \/ DisableUser(c, u)
      PROVE  FileTypes' /\ HistoryTypes'
  BY <1>0, <1>1 DEF AddUser, DisableUser, counters
<1>2. ASSUME NEW c \in Commands,
             Prompted(c) \/ SyncLoad(c) \/ SyncAnswered(c) \/ BackupStat(c)
      PROVE  FileTypes' /\ HistoryTypes'
  BY <1>0, <1>2 DEF Prompted, SyncLoad, SyncAnswered, BackupStat, counters
<1>3. ASSUME NEW c \in Commands, UserTruncate(c) PROVE FileTypes' /\ HistoryTypes'
  BY <1>0, <1>3 DEF UserTruncate, OnUsers, counters
<1>5. ASSUME NEW c \in Commands, UserWrite(c) PROVE FileTypes' /\ HistoryTypes'
  <2>1. job[c] # {} \/ loaded[c].whole => Output(c) \in UserTexts
    BY <1>5, OutputType DEF UserWrite
  <2>2. users' \in Files(UserTexts)
    <3>1. users' \in Results(c) \/ users' = Other(Broken)
      BY <1>5 DEF UserWrite, Written
    <3> QED BY <1>0, <2>1, <3>1, ResultCases
  <2>3. added' \subseteq Users
    <3>1. job[c] \in SUBSET Users
      BY <1>5 DEF UserWrite, TypeInv, JobOf, UserSteps
    <3> QED BY <1>0, <1>5, <3>1 DEF UserWrite
  <2>4. overtaken' \subseteq Commands
    BY <1>0, <1>5 DEF UserWrite, OnUsers
  <2> QED BY <1>0, <1>5, <2>2, <2>3, <2>4 DEF UserWrite, counters
<1>9. ASSUME NEW c \in Commands, BackupCopy(c) PROVE FileTypes' /\ HistoryTypes'
  <2>1. archives' \in [0 .. MaxMinute -> Files(Schemas)]
    BY <1>0, <1>9 DEF BackupCopy, Copied
  <2>2. late' \subseteq Commands /\ replaced' \subseteq Files(Schemas)
    BY <1>0, <1>9 DEF BackupCopy, Robbed
  <2> QED BY <1>0, <1>9, <2>1, <2>2 DEF BackupCopy, counters
<1>10. ASSUME NEW c \in Commands, SyncTruncate(c) PROVE FileTypes' /\ HistoryTypes'
  <2>1. druid' \in Files(Schemas) /\ replaced' \subseteq Files(Schemas)
    BY <1>0, <1>10 DEF SyncTruncate
  <2>2. overtaken' \subseteq Commands /\ late' \subseteq Commands
    BY <1>0, <1>10 DEF SyncTruncate, OnDruid
  <2> QED BY <1>0, <1>10, <2>1, <2>2 DEF SyncTruncate, counters
<1>11. ASSUME NEW c \in Commands, SyncWrite(c) PROVE FileTypes' /\ HistoryTypes'
  <2>1. loaded[c].content \in Schemas
    BY <1>11, WholeFiles DEF SyncWrite, SyncSteps
  <2>2. druid' \in Files(Schemas)
    BY <1>0, <1>11, <2>1, MergeType DEF SyncWrite, Written
  <2>3. hidden' \subseteq Fields
    BY <1>0, <1>11 DEF SyncWrite
  <2>4. overtaken' \subseteq Commands /\ late' \subseteq Commands
    BY <1>0, <1>11 DEF SyncWrite, OnDruid
  <2> QED BY <1>0, <1>11, <2>2, <2>3, <2>4 DEF SyncWrite, counters
<1>12. ASSUME NEW c \in Commands, Kill(c) PROVE FileTypes' /\ HistoryTypes'
  <2>1. users' \in Files(UserTexts) /\ added' \subseteq Users
    <3>1. CASE pc[c] = "userWrite"
      <4>1. Parts(c) \subseteq Files(UserTexts)
        <5>1. CASE job[c] = {} /\ ~loaded[c].whole
          BY <5>1 DEF Parts
        <5>2. CASE job[c] # {} \/ loaded[c].whole
          <6>1. Output(c) \in UserTexts
            BY <3>1, <5>2, OutputType
          <6>2. \A ls \in SUBSET Output(c).listed : Only(Output(c), ls) \in UserTexts
            BY <6>1, OnlyType DEF UserTexts
          <6>3. Parts(c) = {Text(Only(Output(c), ls)) : ls \in SUBSET Output(c).listed}
            BY <5>2 DEF Parts
          <6> QED BY <1>0, <6>2, <6>3
        <5> QED BY <5>1, <5>2
      <4>2. users' \in {users, Other(Broken)} \cup Parts(c)
        BY <1>12, <3>1 DEF Kill
      <4>3. added' = {}
        BY <1>12, <3>1 DEF Kill
      <4> QED BY <1>0, <4>1, <4>2, <4>3
    <3>2. CASE pc[c] # "userWrite"
      BY <1>0, <1>12, <3>2 DEF Kill
    <3> QED BY <3>1, <3>2
  <2>2. druid' \in Files(Schemas) /\ hidden' \subseteq Fields /\ mtime' \in 0 .. minute
    <3>1. CASE pc[c] = "syncWrite"
      <4>1. loaded[c].content \in Schemas
        BY <3>1, WholeFiles DEF SyncSteps
      <4>2. Merge(loaded[c].content, job[c]) \in Schemas
        BY <4>1, MergeType
      <4> DEFINE part(fs) == [fields |-> [f \in Fields |->
                     IF f \in fs THEN Merge(loaded[c].content, job[c]).fields[f] ELSE "none"]]
      <4>3. \A fs \in SUBSET Fields : part(fs) \in Schemas
        BY <4>2 DEF Schemas
      <4>4. druid' \in {druid, Other(Broken)} \cup {Text(part(fs)) : fs \in SUBSET Fields}
        BY <1>12, <3>1 DEF Kill
      <4>5. hidden' = {} /\ mtime' = minute
        BY <1>12, <3>1 DEF Kill
      <4> HIDE DEF part
      <4> QED BY <1>0, <4>3, <4>4, <4>5
    <3>2. CASE pc[c] # "syncWrite"
      BY <1>0, <1>12, <3>2 DEF Kill
    <3> QED BY <3>1, <3>2
  <2>3. overtaken' \subseteq Commands /\ late' \subseteq Commands
    BY <1>0, <1>12 DEF Kill, OnUsers, OnDruid, Robbed
  <2>4. archives' \in [0 .. MaxMinute -> Files(Schemas)]
    <3>1. archives' \in {archives, [archives EXCEPT ![slot[c]] = Other(Broken)]}
      BY <1>12 DEF Kill
    <3> QED BY <1>0, <3>1
  <2>5. replaced' \subseteq Files(Schemas)
    BY <1>0, <1>12 DEF Kill
  <2>6. UNCHANGED minute
    BY <1>12 DEF Kill
  <2> QED BY <2>1, <2>2, <2>3, <2>4, <2>5, <2>6
<1>13. ASSUME NEW u \in Users, EditUsers(u) PROVE FileTypes' /\ HistoryTypes'
  <2>1. users' \in Files(UserTexts)
    <3> DEFINE without == Only(users.content, users.content.listed \ {u})
               bare == [listed |-> {}, off |-> {}, spaced |-> TRUE,
                        access |-> [v \in Users |-> "none"]]
    <3>1. CASE users.whole
      <4>1. users.content \in UserTexts
        BY <3>1, WholeFiles
      <4>2. without \in UserTexts
        <5>1. users.content.listed \ {u} \in SUBSET Users
          BY <4>1 DEF UserTexts
        <5> QED BY <4>1, <5>1, OnlyType
      <4>3. [without EXCEPT !.off = @ \cup {u}] \in UserTexts
        <5> HIDE DEF without
        <5> QED BY <4>2 DEF UserTexts
      <4>4. Entered(users.content, u) \subseteq UserTexts
        BY <4>1, EnteredType
      <4>5. users' \in {Text(x) : x \in Entered(users.content, u) \cup
                                       {[without EXCEPT !.off = @ \cup {u}]}}
        BY <1>13, <3>1 DEF EditUsers
      <4> HIDE DEF without
      <4> QED BY <1>0, <4>3, <4>4, <4>5
    <3>2. CASE ~users.whole
      <4>1. bare \in UserTexts
        BY DEF UserTexts, Layouts
      <4>2. Entered(bare, u) \subseteq UserTexts
        BY <4>1, EnteredType
      <4>3. users' \in {Text(x) : x \in Entered(bare, u)}
        BY <1>13, <3>2 DEF EditUsers
      <4> HIDE DEF bare
      <4> QED BY <1>0, <4>2, <4>3
    <3> QED BY <3>1, <3>2
  <2>2. overtaken' \subseteq Commands /\ added' \subseteq Users
    BY <1>0, <1>13 DEF EditUsers, OnUsers
  <2> QED BY <1>0, <1>13, <2>1, <2>2 DEF EditUsers
<1>14. ASSUME NEW f \in Fields, EditDruid(f) PROVE FileTypes' /\ HistoryTypes'
  <2>1. druid' \in Files(Schemas) /\ hidden' \subseteq Fields
    <3>1. druid.whole /\ druid.content \in Schemas
      BY <1>14, WholeFiles DEF EditDruid
    <3>2. \A how \in {"none", "open", "reserved"} : [druid.content EXCEPT !.fields[f] = how] \in Schemas
      BY <3>1 DEF Schemas
    <3> QED BY <1>0, <1>14, <3>2 DEF EditDruid
  <2>2. overtaken' \subseteq Commands /\ late' \subseteq Commands
    BY <1>0, <1>14 DEF EditDruid, OnDruid
  <2> QED BY <1>0, <1>14, <2>1, <2>2 DEF EditDruid
<1>15. CASE Tick
  BY <1>0, <1>15 DEF Tick
<1>16. CASE UNCHANGED configVars
  BY <1>0, <1>16 DEF configVars, counters
<1> QED
  BY <1>1, <1>2, <1>3, <1>5, <1>9, <1>10, <1>11, <1>12, <1>13, <1>14, <1>15, <1>16 DEF Next

LEMMA TypeStep ==
    ASSUME TypeInv, [Next]_configVars
    PROVE  TypeInv'
<1>1. FileTypes' /\ HistoryTypes'
  BY FileStep
<1>2. CounterTypes'
  <2>1. CounterTypes
    BY TypeParts DEF TypeInv
  <2>2. ASSUME NEW c \in Commands, Kill(c) PROVE CounterTypes'
    BY <2>1, <2>2, ConfigAssumption DEF CounterTypes, Kill
  <2>3. ASSUME NEW u \in Users, EditUsers(u) PROVE CounterTypes'
    BY <2>1, <2>3, ConfigAssumption DEF CounterTypes, EditUsers
  <2>4. ASSUME NEW f \in Fields, EditDruid(f) PROVE CounterTypes'
    BY <2>1, <2>4, ConfigAssumption DEF CounterTypes, EditDruid
  <2>5. CASE Tick
    BY <2>1, <2>5, ConfigAssumption DEF CounterTypes, Tick
  <2>6. CASE UNCHANGED counters
    BY <2>1, <2>6 DEF CounterTypes, counters
  <2> QED BY <2>2, <2>3, <2>4, <2>5, <2>6 DEF Next, configVars, AddUser, DisableUser,
             Prompted, UserTruncate, UserWrite, SyncLoad, SyncAnswered, BackupStat,
             BackupCopy, SyncTruncate, SyncWrite
<1>3. CommandTypes' /\ \A c \in Commands : JobOf(c)'
  <2>1. CASE UNCHANGED commands
    BY <2>1, TypeParts DEF commands, CommandTypes, TypeInv, JobOf
  <2>2. Tick \/ UNCHANGED configVars \/ (\E u \in Users : EditUsers(u)) \/ (\E f \in Fields : EditDruid(f))
           => UNCHANGED commands
    BY DEF Tick, configVars, EditUsers, EditDruid
  <2> QED BY <2>1, <2>2, CommandStep DEF Next
<1>4. TypeOK'
  BY <1>1, <1>2, <1>3 DEF TypeOK, CommandTypes, FileTypes, CounterTypes, HistoryTypes
<1> QED BY <1>3, <1>4 DEF TypeInv

LEMMA TypeInvariant == Spec => []TypeInv
<1>1. Init => TypeInv
  <2> SUFFICES ASSUME Init PROVE TypeInv
    OBVIOUS
  <2>1. users \in Files(UserTexts)
    <3>1. \A x \in HandWritten : Text(x) \in Files(UserTexts)
      BY ConfigAssumption DEF Files
    <3>2. Other(Absent) \in Files(UserTexts) /\ Other(Empty) \in Files(UserTexts)
      BY DEF Files
    <3> QED BY <3>1, <3>2 DEF Init
  <2>2. druid \in Files(Schemas)
    <3>1. \A fs \in [Fields -> {"none", "open"}] : Text([fields |-> fs]) \in Files(Schemas)
      BY DEF Schemas, Files
    <3>2. druid \in {Text([fields |-> fs]) : fs \in [Fields -> {"none", "open"}]}
      BY DEF Init
    <3> QED BY <3>1, <3>2
  <2>3. \A C : Other(Absent) \in Files(C)
    BY DEF Files
  <2>4. TypeOK
    BY <2>1, <2>2, <2>3, ConfigAssumption DEF Init, TypeOK
  <2>5. \A c \in Commands : JobOf(c)
    BY DEF Init, JobOf, UserSteps, SyncSteps
  <2> QED BY <2>4, <2>5 DEF TypeInv
<1>2. TypeInv /\ [Next]_configVars => TypeInv'
  BY TypeStep
<1> QED BY <1>1, <1>2, PTL DEF Spec

\* The files keep the forms that the commands can read or find broken, and no
\* change of druid.yaml is dated later than now.
THEOREM ConfigTypes == Spec => []TypeOK
<1>1. TypeInv => TypeOK
  BY DEF TypeInv
<1> QED BY <1>1, TypeInvariant, PTL

-----------------------------------------------------------------------------
(* The users.                                                               *)

\* The steps of the other commands leave the users' file, and the jobs on it.
LEMMA OtherFileStep ==
    ASSUME TypeInv, UsersInv,
           \/ \E c \in Commands : SyncLoad(c) \/ SyncAnswered(c) \/ BackupStat(c)
                                  \/ BackupCopy(c) \/ SyncTruncate(c) \/ SyncWrite(c)
           \/ \E f \in Fields : EditDruid(f)
           \/ Tick
           \/ UNCHANGED configVars
    PROVE  UsersInv'
<1> DEFINE Left ==
      /\ UNCHANGED <<users, added>>
      /\ overtaken \subseteq overtaken'
      /\ \A c \in Commands : pc'[c] \in UserSteps \/ pc[c] \in UserSteps =>
            pc'[c] = pc[c] /\ loaded'[c] = loaded[c]
<1> USE DEF Goto, Give, files, counters, commands, history, UserSteps
<1>0. /\ pc \in [Commands -> {"idle", "done"} \cup UserSteps \cup SyncSteps]
      /\ loaded \in [Commands -> Files(UserTexts) \cup Files(Schemas)]
  BY DEF TypeInv, TypeOK
<1>1. ASSUME NEW c \in Commands,
             \/ SyncLoad(c) \/ SyncAnswered(c) \/ BackupStat(c)
             \/ BackupCopy(c) \/ SyncTruncate(c) \/ SyncWrite(c)
      PROVE  Left
  <2>1. /\ pc[c] \notin UserSteps
        /\ \E step \in {"done"} \cup SyncSteps : pc' = [pc EXCEPT ![c] = step]
    BY <1>1 DEF SyncLoad, SyncAnswered, BackupStat, BackupCopy, SyncTruncate, SyncWrite, SyncSteps
  <2>2. /\ loaded' = loaded \/ loaded' = [loaded EXCEPT ![c] = druid]
        /\ UNCHANGED <<users, added>>
        /\ overtaken \subseteq overtaken'
    BY <1>1 DEF SyncLoad, SyncAnswered, BackupStat, BackupCopy, SyncTruncate, SyncWrite
  <2> QED BY <1>0, <2>1, <2>2 DEF SyncSteps
<1>2. ASSUME NEW f \in Fields, EditDruid(f) PROVE Left
  BY <1>2 DEF EditDruid
<1>3. ASSUME Tick PROVE Left
  BY <1>3 DEF Tick
<1>4. ASSUME UNCHANGED configVars PROVE Left
  BY <1>4 DEF configVars
<1>5. Left
  BY <1>1, <1>2, <1>3, <1>4
<1> QED BY <1>5 DEF UsersInv

\* What userctl writes lists whom it added, and whom it read and does not drop.
LEMMA OutputLists ==
    ASSUME TypeInv, NEW c \in Commands, pc[c] \in {"userTruncate", "userWrite"}
    PROVE  /\ job[c] # {} => Output(c).listed = Listed(loaded[c]) \cup job[c]
           /\ job[c] = {} /\ loaded[c].whole => Output(c).listed = Listed(loaded[c]) \ drops[c]
<1>1. CASE job[c] = {} /\ loaded[c].whole
  <2>1. loaded[c] \in Files(UserTexts)
    BY <1>1 DEF TypeInv, JobOf, UserSteps
  <2>2. loaded[c].content \in UserTexts
    BY <1>1, <2>1, FileCases
  <2>3. loaded[c].content.listed \ drops[c] \in SUBSET Users
    BY <2>2 DEF UserTexts
  <2> QED BY <1>1, <2>2, <2>3, OnlyType DEF Output, Listed
<1>2. CASE job[c] # {}
  BY <1>2 DEF Output, Marshalled
<1> QED BY <1>1, <1>2

LEMMA UsersStep ==
    ASSUME TypeInv, UsersInv, [Next]_configVars
    PROVE  UsersInv'
<1> USE DEF Goto, Give, files, counters, history
<1>0. /\ pc \in [Commands -> {"idle", "done"} \cup UserSteps \cup SyncSteps]
      /\ loaded \in [Commands -> Files(UserTexts) \cup Files(Schemas)]
      /\ \A x, y : Text(x).whole /\ ~Other(y).whole /\ Text(x) # Other(y) /\ Text(x).content = x
      /\ Other(Empty) # Other(Broken)
  BY DEF TypeInv, TypeOK, Text, Other, Empty, Broken
<1>1. ASSUME NEW c \in Commands, NEW u \in Users, AddUser(c, u) \/ DisableUser(c, u) PROVE UsersInv'
  BY <1>0, <1>1 DEF AddUser, DisableUser, UsersInv
<1>2. ASSUME NEW c \in Commands, Prompted(c) PROVE UsersInv'
  BY <1>0, <1>2 DEF Prompted, UsersInv
<1>3. ASSUME NEW c \in Commands, UserTruncate(c) PROVE UsersInv'
  <2>1. /\ users' = Other(Empty) /\ UNCHANGED <<added, loaded>>
        /\ pc' = [pc EXCEPT ![c] = "userWrite"] /\ pc[c] = "userTruncate"
        /\ overtaken' = overtaken \cup (OnUsers \ {c})
    BY <1>3 DEF UserTruncate, commands
  <2>2. c \notin overtaken => added \subseteq Listed(loaded[c])
    <3>1. loaded[c] # Other(Empty)
      BY <2>1 DEF TypeInv, JobOf
    <3> QED BY <2>1, <3>1 DEF UsersInv
  <2> QED BY <1>0, <2>1, <2>2 DEF UsersInv, OnUsers, UserSteps
<1>4. ASSUME NEW c \in Commands, UserWrite(c) PROVE UsersInv'
  <2>1. /\ UNCHANGED loaded
        /\ pc' = [pc EXCEPT ![c] = "done"] /\ pc[c] = "userWrite"
        /\ overtaken' = overtaken \cup (OnUsers \ {c})
        /\ \/ users' = Text(Output(c)) /\ (job[c] # {} \/ loaded[c].whole)
           \/ users' = Other(Broken)
    <3>1. users' \in Results(c) \/ users' = Other(Broken)
      BY <1>4 DEF UserWrite, Written
    <3> QED BY <1>4, <3>1, ResultCases DEF UserWrite, commands
  <2>2. added' \subseteq Listed(users')
    <3>1. CASE ~users'.whole
      BY <1>4, <3>1 DEF UserWrite
    <3>2. CASE users'.whole
      <4>1. Listed(users') = Output(c).listed
        BY <1>0, <2>1, <3>2 DEF Listed
      <4>2. job[c] \subseteq Output(c).listed
        BY <2>1, OutputLists
      <4>3. c \in overtaken => added' = job[c] \cup (added \cap Listed(users'))
        BY <1>4, <3>2 DEF UserWrite
      <4>4. c \notin overtaken => added' = job[c] \cup (added \ drops[c])
        BY <1>4, <3>2 DEF UserWrite
      <4>5. c \notin overtaken => added \subseteq Listed(loaded[c])
        BY <2>1 DEF UsersInv
      <4>6. c \notin overtaken => added \ drops[c] \subseteq Output(c).listed
        <5>1. CASE job[c] = {}
          BY <1>0, <2>1, <3>2, <4>5, <5>1, OutputLists
        <5>2. CASE job[c] # {}
          BY <2>1, <4>5, <5>2, OutputLists
        <5> QED BY <5>1, <5>2
      <4> QED BY <4>1, <4>2, <4>3, <4>4, <4>6
    <3> QED BY <3>1, <3>2
  <2>3. users' # Other(Empty)
    BY <1>0, <2>1
  <2> QED BY <1>0, <2>1, <2>2, <2>3 DEF UsersInv, OnUsers, UserSteps
<1>5. ASSUME NEW c \in Commands, Kill(c) PROVE UsersInv'
  <2>1. UNCHANGED loaded /\ pc' = [pc EXCEPT ![c] = "done"]
    BY <1>5 DEF Kill
  <2>2. CASE pc[c] = "userWrite"
    <3>1. added' = {} /\ overtaken' = overtaken \cup (OnUsers \ {c})
      BY <1>5, <2>2 DEF Kill
    <3> QED BY <1>0, <2>1, <3>1 DEF UsersInv, OnUsers, UserSteps
  <2>3. CASE pc[c] # "userWrite"
    <3>1. UNCHANGED <<users, added>> /\ overtaken \subseteq overtaken'
      BY <1>5, <2>3 DEF Kill
    <3> QED BY <1>0, <2>1, <2>3, <3>1 DEF UsersInv
  <2> QED BY <2>2, <2>3
<1>6. ASSUME NEW u \in Users, EditUsers(u) PROVE UsersInv'
  <2>1. /\ UNCHANGED <<pc, loaded>> /\ overtaken' = overtaken \cup OnUsers
        /\ added' \subseteq Listed(users') /\ added' \subseteq added
    BY <1>6 DEF EditUsers, commands
  <2>2. users' # Other(Empty)
    BY <1>0, <1>6 DEF EditUsers
  <2> QED BY <1>0, <2>1, <2>2 DEF UsersInv, OnUsers, UserSteps
<1> QED BY <1>1, <1>2, <1>3, <1>4, <1>5, <1>6, OtherFileStep DEF Next

\* A user whose add was acknowledged stays in the file through the adds, the
\* disables and the panics of others, unless the file is edited by hand, the
\* user or one above is disabled, a command had read the file before, a write is
\* killed, or a disable or two writes at once leave a file that does not load.
THEOREM AddedUserStays == Spec => []AddedStays
<1>1. Init => UsersInv
  BY DEF Init, UsersInv, Text, Other, Empty, Absent
<1>2. TypeInv /\ UsersInv /\ [Next]_configVars => UsersInv'
  BY UsersStep
<1>3. UsersInv => AddedStays
  BY DEF UsersInv, AddedStays
<1> QED BY <1>1, <1>2, <1>3, TypeInvariant, PTL DEF Spec

-----------------------------------------------------------------------------
(* The schema.                                                              *)

\* The steps of userctl leave the schema, its archives, and the jobs on them.
LEMMA OtherSchemaStep ==
    ASSUME TypeInv,
           \/ \E c \in Commands : \/ \E u \in Users : AddUser(c, u) \/ DisableUser(c, u)
                                  \/ Prompted(c) \/ UserTruncate(c) \/ UserWrite(c)
           \/ \E u \in Users : EditUsers(u)
           \/ Tick
           \/ UNCHANGED configVars
    PROVE  /\ UNCHANGED <<druid, archives, slot, hidden, late, replaced>>
           /\ overtaken \subseteq overtaken'
           /\ \A c \in Commands : pc'[c] \in SyncSteps =>
                 pc'[c] = pc[c] /\ loaded'[c] = loaded[c]
<1> DEFINE Left ==
      /\ UNCHANGED <<druid, archives, slot, hidden, late, replaced>>
      /\ overtaken \subseteq overtaken'
      /\ \A c \in Commands : pc'[c] \in SyncSteps => pc'[c] = pc[c] /\ loaded'[c] = loaded[c]
<1> USE DEF Goto, Give, files, counters, commands, history, SyncSteps
<1>0. /\ pc \in [Commands -> {"idle", "done"} \cup UserSteps \cup SyncSteps]
      /\ loaded \in [Commands -> Files(UserTexts) \cup Files(Schemas)]
  BY DEF TypeInv, TypeOK
<1>1. ASSUME NEW c \in Commands, NEW u \in Users, AddUser(c, u) \/ DisableUser(c, u) PROVE Left
  <2>1. /\ \E step \in {"done", "prompt", "userTruncate"} : pc' = [pc EXCEPT ![c] = step]
        /\ loaded' = [loaded EXCEPT ![c] = users]
        /\ UNCHANGED <<druid, archives, slot, hidden, late, replaced, overtaken>>
    BY <1>1 DEF AddUser, DisableUser
  <2> QED BY <1>0, <2>1
<1>2. ASSUME NEW c \in Commands, Prompted(c) \/ UserTruncate(c) \/ UserWrite(c) PROVE Left
  <2>1. /\ \E step \in {"done", "userTruncate", "userWrite"} : pc' = [pc EXCEPT ![c] = step]
        /\ UNCHANGED <<druid, archives, slot, hidden, late, replaced, loaded>>
        /\ overtaken \subseteq overtaken'
    BY <1>2 DEF Prompted, UserTruncate, UserWrite
  <2> QED BY <1>0, <2>1
<1>3. ASSUME NEW u \in Users, EditUsers(u) PROVE Left
  BY <1>3 DEF EditUsers
<1>4. CASE Tick \/ UNCHANGED configVars
  BY <1>4 DEF Tick, configVars
<1> QED BY <1>1, <1>2, <1>3, <1>4

\* A merge opens fields, and takes the reservation of none away.
LEMMA MergeReserves ==
    ASSUME NEW schema, NEW columns
    PROVE  Reserved(Text(schema)) = Reserved(Text(Merge(schema, columns)))
BY DEF Reserved, Text, Merge

LEMMA DruidStep ==
    ASSUME TypeInv, DruidInv, [Next]_configVars
    PROVE  DruidInv'
<1> USE DEF Goto, Give, files, counters, history
<1>0. /\ pc \in [Commands -> {"idle", "done"} \cup UserSteps \cup SyncSteps]
      /\ loaded \in [Commands -> Files(UserTexts) \cup Files(Schemas)]
      /\ \A x, y : Text(x).whole /\ ~Other(y).whole /\ Text(x).content = x
      /\ \A c \in Commands : pc[c] \in SyncSteps => loaded[c].whole
  BY WholeFiles DEF TypeInv, TypeOK, Text, Other
<1>1. ASSUME NEW c \in Commands, SyncLoad(c) PROVE DruidInv'
  <2>1. /\ UNCHANGED <<druid, hidden, overtaken>> /\ loaded' = [loaded EXCEPT ![c] = druid]
        /\ pc' = [pc EXCEPT ![c] = IF druid.whole THEN "sync" ELSE "done"]
    BY <1>1 DEF SyncLoad
  <2> QED BY <1>0, <2>1 DEF DruidInv, Reserved, SyncSteps
<1>2. ASSUME NEW c \in Commands, SyncAnswered(c) \/ BackupStat(c) \/ BackupCopy(c) PROVE DruidInv'
  <2>1. /\ UNCHANGED <<druid, hidden, overtaken, loaded>>
        /\ pc[c] \in SyncSteps \ {"syncWrite"}
        /\ \E step \in {"done", "backup", "copy", "syncTruncate"} : pc' = [pc EXCEPT ![c] = step]
    BY <1>2 DEF SyncAnswered, BackupStat, BackupCopy, SyncSteps
  <2> QED BY <1>0, <2>1 DEF DruidInv, Reserved, SyncSteps
<1>3. ASSUME NEW c \in Commands, SyncTruncate(c) PROVE DruidInv'
  <2>1. /\ druid' = Other(Empty) /\ UNCHANGED <<hidden, loaded>>
        /\ pc' = [pc EXCEPT ![c] = "syncWrite"] /\ pc[c] = "syncTruncate"
        /\ overtaken' = overtaken \cup (OnDruid \ {c})
    BY <1>3 DEF SyncTruncate
  <2>2. c \notin overtaken => hidden \subseteq Reserved(loaded[c])
    BY <1>0, <2>1 DEF DruidInv, SyncSteps
  <2> QED BY <1>0, <2>1, <2>2 DEF DruidInv, OnDruid, SyncSteps, Reserved
<1>4. ASSUME NEW c \in Commands, SyncWrite(c) PROVE DruidInv'
  <2>1. /\ UNCHANGED loaded
        /\ pc' = [pc EXCEPT ![c] = "done"] /\ pc[c] = "syncWrite"
        /\ overtaken' = overtaken \cup (OnDruid \ {c})
        /\ druid' = Text(Merge(loaded[c].content, job[c])) \/ druid' = Other(Broken)
    BY <1>4 DEF SyncWrite, Written
  <2>2. druid'.whole => hidden' \subseteq Reserved(druid')
    <3>1. ASSUME druid'.whole, c \in overtaken PROVE hidden' \subseteq Reserved(druid')
      BY <1>4, <3>1 DEF SyncWrite, Reserved
    <3>2. ASSUME druid'.whole, c \notin overtaken PROVE hidden' \subseteq Reserved(druid')
      <4>1. hidden' = hidden /\ hidden \subseteq Reserved(loaded[c])
        BY <1>4, <2>1, <3>2 DEF SyncWrite, DruidInv
      <4>2. Reserved(loaded[c]) = Reserved(Text(loaded[c].content))
        BY <1>0 DEF Reserved
      <4> QED BY <1>0, <2>1, <3>2, <4>1, <4>2, MergeReserves
    <3> QED BY <3>1, <3>2
  <2> QED BY <1>0, <2>1, <2>2 DEF DruidInv, OnDruid, SyncSteps, Reserved
<1>5. ASSUME NEW c \in Commands, Kill(c) PROVE DruidInv'
  <2>1. UNCHANGED loaded /\ pc' = [pc EXCEPT ![c] = "done"]
    BY <1>5 DEF Kill
  <2>2. CASE pc[c] = "syncWrite"
    <3>1. hidden' = {} /\ overtaken' = overtaken \cup (OnDruid \ {c})
      BY <1>5, <2>2 DEF Kill
    <3> QED BY <1>0, <2>1, <3>1 DEF DruidInv, OnDruid, SyncSteps
  <2>3. CASE pc[c] # "syncWrite"
    <3>1. UNCHANGED <<druid, hidden>> /\ overtaken \subseteq overtaken'
      BY <1>5, <2>3 DEF Kill
    <3> QED BY <1>0, <2>1, <2>3, <3>1 DEF DruidInv, Reserved, SyncSteps
  <2> QED BY <2>2, <2>3
<1>6. ASSUME NEW f \in Fields, EditDruid(f) PROVE DruidInv'
  <2>1. /\ UNCHANGED <<pc, loaded>> /\ overtaken' = overtaken \cup OnDruid /\ druid.whole
    BY <1>6 DEF EditDruid, commands
  <2>2. hidden' \subseteq Reserved(druid')
    <3>1. druid.content \in Schemas
      BY <2>1, WholeFiles
    <3>2. hidden \subseteq Reserved(druid) /\ hidden \subseteq Fields
      BY <2>1 DEF DruidInv, TypeInv, TypeOK
    <3>3. PICK how \in {"none", "open", "reserved"} \ {druid.content.fields[f]} :
             /\ druid' = Text([druid.content EXCEPT !.fields[f] = how])
             /\ hidden' = IF how = "reserved" THEN hidden \cup {f} ELSE hidden \ {f}
      BY <1>6 DEF EditDruid
    <3>4. /\ druid'.content.fields[f] = how
          /\ \A g \in Fields \ {f} : druid'.content.fields[g] = druid.content.fields[g]
      BY <1>0, <3>1, <3>3 DEF Schemas
    <3> QED BY <3>2, <3>3, <3>4 DEF Reserved
  <2> QED BY <1>0, <2>1, <2>2 DEF DruidInv, OnDruid, SyncSteps
<1>7. CASE \/ \E c \in Commands : \/ \E u \in Users : AddUser(c, u) \/ DisableUser(c, u)
                                 \/ Prompted(c) \/ UserTruncate(c) \/ UserWrite(c)
           \/ \E u \in Users : EditUsers(u)
           \/ Tick
           \/ UNCHANGED configVars
  BY <1>7, OtherSchemaStep DEF DruidInv, Reserved, SyncSteps
<1> QED BY <1>1, <1>2, <1>3, <1>4, <1>5, <1>6, <1>7 DEF Next

\* A field that was reserved by hand stays so through every synchronisation that
\* read the file since, however the commands and the edits interleave, unless
\* the file is edited by hand or a write is killed.
THEOREM ReservedFieldStays == Spec => []ReservedStays
<1>1. Init => DruidInv
  BY DEF Init, DruidInv, SyncSteps
<1>2. TypeInv /\ DruidInv /\ [Next]_configVars => DruidInv'
  BY DruidStep
<1>3. DruidInv => ReservedStays
  BY DEF DruidInv, ReservedStays, Reserved
<1> QED BY <1>1, <1>2, <1>3, TypeInvariant, PTL DEF Spec

-----------------------------------------------------------------------------
(* The archives.                                                            *)

\* A step that writes one archive at most, and forgets what it overwrites there,
\* keeps what was replaced in the archives, and the backups of those not robbed.
LEMMA OneArchive ==
    ASSUME TypeInv, ArchiveInv, NEW c \in Commands,
           archives' \in [0 .. MaxMinute -> Files(Schemas)],
           \A m \in 0 .. MaxMinute : m # slot[c] => archives'[m] = archives[m],
           replaced' = replaced \ Overwritten(c)
    PROVE  /\ ReplacedIsArchived'
           /\ \A d \in Commands \ {c} : d \notin late \cup Robbed(c)
                 /\ pc[d] = "syncTruncate" /\ druid.whole => archives'[slot[d]] = druid
<1>1. slot \in [Commands -> 0 .. MaxMinute]
  BY DEF TypeInv, TypeOK
<1>2. ReplacedIsArchived'
  <2> SUFFICES ASSUME NEW file \in replaced'
               PROVE  \E m \in 0 .. MaxMinute : archives'[m] = file
    BY DEF ReplacedIsArchived
  <2>1. PICK m \in 0 .. MaxMinute : archives[m] = file
    BY DEF ArchiveInv, ReplacedIsArchived
  <2>2. file \notin Overwritten(c)
    OBVIOUS
  <2>3. archives'[m] = file
    BY <2>1, <2>2 DEF Overwritten
  <2> QED BY <2>3
<1>3. ASSUME NEW d \in Commands \ {c}, d \notin late, d \notin Robbed(c),
             pc[d] = "syncTruncate", druid.whole
      PROVE  archives'[slot[d]] = druid
  <2>1. archives[slot[d]] = druid
    BY <1>3 DEF ArchiveInv
  <2>2. slot[d] = slot[c] => archives'[slot[c]] = archives[slot[c]]
    BY <1>3 DEF Robbed, Overwritten
  <2> QED BY <1>1, <2>1, <2>2
<1> QED BY <1>2, <1>3

LEMMA ArchiveStep ==
    ASSUME TypeInv, ArchiveInv, [Next]_configVars
    PROVE  ArchiveInv'
<1> USE DEF Goto, Give, files, counters, history
<1>0. /\ pc \in [Commands -> {"idle", "done"} \cup UserSteps \cup SyncSteps]
      /\ slot \in [Commands -> 0 .. MaxMinute]
      /\ archives \in [0 .. MaxMinute -> Files(Schemas)]
      /\ late \subseteq Commands
      /\ \A y : ~Other(y).whole
      /\ ReplacedIsArchived
  BY DEF TypeInv, TypeOK, ArchiveInv, Other
<1>1. ASSUME NEW c \in Commands, SyncLoad(c) \/ SyncAnswered(c) \/ BackupStat(c) PROVE ArchiveInv'
  <2>1. /\ UNCHANGED <<druid, archives, late, replaced>>
        /\ \E step \in {"sync", "done", "backup", "copy"} : pc' = [pc EXCEPT ![c] = step]
        /\ \A d \in Commands \ {c} : slot'[d] = slot[d]
    BY <1>0, <1>1 DEF SyncLoad, SyncAnswered, BackupStat
  <2> QED BY <1>0, <2>1 DEF ArchiveInv, ReplacedIsArchived
<1>2. ASSUME NEW c \in Commands, BackupCopy(c) PROVE ArchiveInv'
  <2>1. /\ archives' = [archives EXCEPT ![slot[c]] = druid]
        /\ late' = (late \ {c}) \cup Robbed(c)
        /\ replaced' = replaced \ Overwritten(c)
        /\ pc' = [pc EXCEPT ![c] = "syncTruncate"]
        /\ UNCHANGED <<druid, slot>>
    BY <1>2 DEF BackupCopy, Copied
  <2>2. archives' \in [0 .. MaxMinute -> Files(Schemas)]
    BY <1>0, <2>1 DEF TypeInv, TypeOK
  <2>3. \A m \in 0 .. MaxMinute : m # slot[c] => archives'[m] = archives[m]
    BY <1>0, <2>1
  <2>4. archives'[slot'[c]] = druid'
    BY <1>0, <2>1
  <2>5. /\ ReplacedIsArchived'
        /\ \A d \in Commands \ {c} : d \notin late \cup Robbed(c)
              /\ pc[d] = "syncTruncate" /\ druid.whole => archives'[slot[d]] = druid
    BY <2>1, <2>2, <2>3, OneArchive
  <2> QED BY <1>0, <2>1, <2>4, <2>5 DEF ArchiveInv
<1>3. ASSUME NEW c \in Commands, SyncTruncate(c) PROVE ArchiveInv'
  <2>1. /\ druid' = Other(Empty) /\ UNCHANGED archives
        /\ replaced' = IF druid.whole /\ c \notin late THEN replaced \cup {druid} ELSE replaced
        /\ pc[c] = "syncTruncate"
    BY <1>3 DEF SyncTruncate
  <2>2. druid.whole /\ c \notin late => archives[slot[c]] = druid
    BY <2>1 DEF ArchiveInv
  <2>3. ReplacedIsArchived'
    BY <1>0, <2>1, <2>2 DEF ReplacedIsArchived
  <2> QED BY <1>0, <2>1, <2>3 DEF ArchiveInv
<1>4. ASSUME NEW c \in Commands, SyncWrite(c) PROVE ArchiveInv'
  <2>1. /\ UNCHANGED <<archives, replaced, slot>> /\ pc' = [pc EXCEPT ![c] = "done"]
        /\ late' = late \cup (OnDruid \ {c})
    BY <1>4 DEF SyncWrite
  <2> QED BY <1>0, <2>1 DEF ArchiveInv, ReplacedIsArchived, OnDruid, SyncSteps
<1>5. ASSUME NEW c \in Commands, Kill(c) PROVE ArchiveInv'
  <2>1. /\ replaced' = replaced \ Overwritten(c) /\ UNCHANGED slot
        /\ late' = late \cup Robbed(c) \cup IF pc[c] = "syncWrite" THEN OnDruid \ {c} ELSE {}
        /\ pc' = [pc EXCEPT ![c] = "done"]
    BY <1>5 DEF Kill
  <2>2. archives' \in {archives, [archives EXCEPT ![slot[c]] = Other(Broken)]}
    BY <1>5 DEF Kill
  <2>3. Other(Broken) \in Files(Schemas)
    BY DEF Files
  <2>4. archives' \in [0 .. MaxMinute -> Files(Schemas)]
    BY <1>0, <2>2, <2>3
  <2>5. \A m \in 0 .. MaxMinute : m # slot[c] => archives'[m] = archives[m]
    BY <1>0, <2>2
  <2>6. /\ ReplacedIsArchived'
        /\ \A d \in Commands \ {c} : d \notin late \cup Robbed(c)
              /\ pc[d] = "syncTruncate" /\ druid.whole => archives'[slot[d]] = druid
    BY <2>1, <2>4, <2>5, OneArchive
  <2>7. pc[c] = "syncWrite" \/ UNCHANGED druid
    BY <1>5 DEF Kill
  <2> QED BY <1>0, <2>1, <2>6, <2>7 DEF ArchiveInv, OnDruid, SyncSteps
<1>6. ASSUME NEW f \in Fields, EditDruid(f) PROVE ArchiveInv'
  <2>1. UNCHANGED <<archives, replaced, slot, pc>> /\ late' = late \cup OnDruid
    BY <1>6 DEF EditDruid, commands
  <2> QED BY <1>0, <2>1 DEF ArchiveInv, ReplacedIsArchived, OnDruid, SyncSteps
<1>7. CASE \/ \E c \in Commands : \/ \E u \in Users : AddUser(c, u) \/ DisableUser(c, u)
                                 \/ Prompted(c) \/ UserTruncate(c) \/ UserWrite(c)
           \/ \E u \in Users : EditUsers(u)
           \/ Tick
           \/ UNCHANGED configVars
  BY <1>7, OtherSchemaStep DEF ArchiveInv, ReplacedIsArchived, SyncSteps
<1> QED BY <1>1, <1>2, <1>3, <1>4, <1>5, <1>6, <1>7 DEF Next

\* What a synchronisation replaced is in the archives until a backup of another
\* content takes the name of the same minute; an edit made while it asked Druid
\* is there too.
THEOREM ReplacedStaysArchived == Spec => []ReplacedIsArchived
<1>1. Init => ArchiveInv
  BY DEF Init, ArchiveInv, ReplacedIsArchived
<1>2. TypeInv /\ ArchiveInv /\ [Next]_configVars => ArchiveInv'
  BY ArchiveStep
<1>3. ArchiveInv => ReplacedIsArchived
  BY DEF ArchiveInv
<1> QED BY <1>1, <1>2, <1>3, TypeInvariant, PTL DEF Spec
=============================================================================
