------------------------- MODULE KeyRotationProofs -------------------------
(***************************************************************************)
(* TLAPS proofs about KeyRotation, for any aliases, commands and bounds.   *)
(***************************************************************************)
EXTENDS KeyRotation, TLAPS

-----------------------------------------------------------------------------
(* Types *)

Entries == [owner : {"client"}, kid : Kids, key : Kids, active : BOOLEAN]

StoresTyped ==
    /\ vault \in [Aliases -> Nat]
    /\ ledger \in [DOMAIN ledger -> Entries] /\ DOMAIN ledger \subseteq Aliases
    /\ DOMAIN spent \subseteq Kids

FilesTyped ==
    /\ disk \in [Inodes -> Texts \cup Broken]
    /\ path \in Inodes /\ temp \in (Inodes \ {path}) \cup {NoFile}

LocalsTyped ==
    /\ pc \in [Commands -> Stages] /\ todo \in [Commands -> SUBSET Aliases]
    /\ settings \in [Commands -> Texts \cup {NoText}]
    /\ subject \in [Commands -> Aliases] /\ new \in [Commands -> Nat]
    /\ wire \in [Commands -> Messages \cup {NoMessage}]
    /\ text \in [Commands -> Texts \cup {NoText, Mixed}]
    /\ fd \in [Commands -> Inodes \cup {NoFile}]

LocalsUsed ==
    \A c \in Commands : /\ Running(c) <=> settings[c] # NoText
                        /\ pc[c] \in Updating <=> text[c] # NoText
                        /\ pc[c] \in {"write", "replace"} <=> fd[c] # NoFile

\* A command has a file of its own only after it has created it.
OwnFile ==
    \A c \in Commands : pc[c] \notin {"write", "replace"} \cup Ended =>
        path # c /\ temp # c

RestTyped ==
    kills \in 0..MaxKills /\ raced \in BOOLEAN /\ contended \subseteq Commands

Typed ==
    StoresTyped /\ FilesTyped /\ LocalsTyped /\ LocalsUsed /\ OwnFile /\ RestTyped

LEMMA Constants ==
    /\ NoText \notin Texts /\ NoText # Truncated /\ NoText # Mixed
    /\ Broken = {Truncated, Mixed} /\ Truncated \notin Texts /\ Mixed \notin Texts
    /\ Configured \in Texts /\ Created \in Texts
    /\ NoFile \notin Inodes /\ NoFile # Original
    /\ \A c \in Commands : c \in Inodes /\ c # Original /\ c # NoFile
    /\ \A c \in Commands : c.todo \in SUBSET Aliases /\ c.todo # {}
    /\ \A c \in Commands : c.op \in {"publish", "rotate", "revoke"}
    /\ MaxKills \in Nat /\ NoMessage \notin Messages
BY RotationAssumption DEF Texts, Inodes, Broken

LEMMA TypedIsTypeOK == Typed => TypeOK
<1> HIDE DEF Texts, Messages, Inodes
<1> SUFFICES ASSUME Typed PROVE TypeOK
  OBVIOUS
<1>1. \A a \in DOMAIN ledger : ledger[a].kid \in Kids
  BY DEF Typed, StoresTyped, Entries
<1> QED BY <1>1 DEF Typed, StoresTyped, FilesTyped, LocalsTyped, LocalsUsed, RestTyped, TypeOK

LEMMA InitTyped == Init => Typed
<1> SUFFICES ASSUME Init PROVE Typed
  OBVIOUS
<1> USE Constants
<1>1. StoresTyped
  BY DEF Init, StoresTyped, Ledger!Init, Texts
<1>2. FilesTyped
  BY DEF Init, FilesTyped, Inodes
<1>3. LocalsTyped
  <2>1. \A c \in Commands : (CHOOSE a \in c.todo : TRUE) \in Aliases
    OBVIOUS
  <2> QED BY <2>1 DEF Init, LocalsTyped, Stages
<1>4. LocalsUsed /\ OwnFile
  BY DEF Init, LocalsUsed, OwnFile, Running, Updating, Ended
<1>5. RestTyped
  <2>1. 0 \in 0..MaxKills
    OBVIOUS
  <2> QED BY <2>1, Zenon DEF Init, RestTyped
<1> QED BY <1>1, <1>2, <1>3, <1>4, <1>5 DEF Typed

\* A command ends.
LEMMA EndTyped ==
    ASSUME Typed, NEW c \in Commands, NEW stage \in Ended, End(c, stage),
           path' \in {path, temp}, temp' \in {temp, NoFile}
    PROVE  LocalsTyped' /\ LocalsUsed' /\ OwnFile'
<1> USE Constants
<1>1. LocalsTyped'
  BY DEF End, Goto, Typed, LocalsTyped, Stages, Ended
<1>2. LocalsUsed'
  BY DEF End, Goto, Typed, LocalsTyped, LocalsUsed, Running, Ended, Updating
<1>3. OwnFile'
  BY DEF End, Goto, Typed, LocalsTyped, OwnFile, Ended
<1> QED BY <1>1, <1>2, <1>3

LEMMA KidFacts ==
    ASSUME NEW a \in Aliases, NEW v \in Nat
    PROVE  Kid(a, v) \in Kids /\ Kid(a, v).agent = a /\ Kid(a, v).version = v
BY DEF Kid, Kids

\* The Registry's answer, whatever it is.
LEMMA AnswerTyped ==
    ASSUME Typed, NEW c \in Commands, NEW message \in Messages \cup {NoMessage},
           Answer(c, message)
    PROVE  /\ LocalsTyped' /\ LocalsUsed' /\ OwnFile' /\ FilesTyped'
<1> HIDE DEF Messages, Texts, Inodes
<1>1. UNCHANGED <<files, pc, todo, settings, subject, new, writer>>
  BY DEF Answer
<1>2. LocalsTyped'
  BY <1>1 DEF Answer, Typed, LocalsTyped, writer
<1>3. LocalsUsed'
  BY <1>1 DEF Typed, LocalsUsed, Running, writer
<1>4. OwnFile' /\ FilesTyped'
  BY <1>1 DEF Typed, OwnFile, FilesTyped, files
<1> QED BY <1>2, <1>3, <1>4

LEMMA LedgerTyped ==
    ASSUME StoresTyped, NEW a \in Aliases, NEW k \in Kids, vault' = vault,
           \/ Ledger!Register(a, "client", k, k)
           \/ Ledger!Rotate(a, k, k)
           \/ Ledger!Retire(a)
    PROVE  StoresTyped'
<1> HIDE DEF Kids
<1>1. CASE Ledger!Register(a, "client", k, k)
  <2> DEFINE entry == [owner |-> "client", kid |-> k, key |-> k, active |-> TRUE]
  <2>1. entry \in Entries
    BY DEF Entries
  <2>2. /\ DOMAIN ledger' = DOMAIN ledger \cup {a} /\ DOMAIN spent' = DOMAIN spent \cup {k}
        /\ ledger' = [b \in DOMAIN ledger \cup {a} |-> IF b = a THEN entry ELSE ledger[b]]
    BY <1>1 DEF Ledger!Register, Ledger!Spend, Ledger!Add
  <2> HIDE DEF entry
  <2> QED BY <2>1, <2>2 DEF StoresTyped
<1>2. CASE Ledger!Rotate(a, k, k)
  <2>1. DOMAIN spent' = DOMAIN spent \cup {k}
    BY <1>2 DEF Ledger!Rotate, Ledger!Spend, Ledger!Add
  <2>2. a \in DOMAIN ledger /\ ledger[a] \in Entries
    BY <1>2 DEF Ledger!Rotate, StoresTyped
  <2>3. [ledger[a] EXCEPT !.kid = k, !.key = k] \in Entries
    BY <2>2 DEF Entries
  <2>4. ledger' = [ledger EXCEPT ![a] = [ledger[a] EXCEPT !.kid = k, !.key = k]]
    BY <1>2 DEF Ledger!Rotate, StoresTyped
  <2> QED BY <2>1, <2>2, <2>3, <2>4 DEF StoresTyped
<1>3. CASE Ledger!Retire(a)
  <2>1. a \in DOMAIN ledger /\ ledger[a] \in Entries /\ spent' = spent
    BY <1>3 DEF Ledger!Retire, StoresTyped
  <2>2. [ledger[a] EXCEPT !.active = FALSE] \in Entries
    BY <2>1 DEF Entries
  <2>3. ledger' = [ledger EXCEPT ![a] = [ledger[a] EXCEPT !.active = FALSE]]
    BY <1>3 DEF Ledger!Retire
  <2> QED BY <2>1, <2>2, <2>3 DEF StoresTyped
<1> QED BY <1>1, <1>2, <1>3

LEMMA MessageTyped ==
    ASSUME Typed, NEW c \in Commands, settings[c] # NoText, NEW a \in Aliases, NEW v \in Nat
    PROVE  /\ Message(c, a, v) \in Messages
           /\ Message(c, a, v).alias = a /\ Message(c, a, v).new = v
           /\ Message(c, a, v).signed = settings[c][a] /\ ~ Message(c, a, v).accepted
<1>1. settings[c] \in Texts
  BY DEF Typed, LocalsTyped
<1>2. settings[c][a] \in Nat
  BY <1>1 DEF Texts
<1> QED BY <1>2 DEF Message, Messages

-----------------------------------------------------------------------------
(* Types: the steps *)

LEMMA StartsTyped ==
    ASSUME Typed, NEW c \in Commands,
           \/ Load(c) \/ Start(c) \/ Finish(c) \/ Receive(c) \/ Fail(c) \/ Kill(c)
    PROVE  Typed'
<1> USE Constants
<1> HIDE DEF Messages, Texts, Inodes
<1>1. UNCHANGED <<service, files, history>>
  BY DEF Load, Start, Finish, Receive, Fail, Kill
<1>2. kills' \in 0..MaxKills
  BY DEF Load, Start, Finish, Receive, Fail, Kill, Typed, RestTyped
<1>3. StoresTyped' /\ FilesTyped' /\ RestTyped'
  BY <1>1, <1>2 DEF Typed, StoresTyped, FilesTyped, RestTyped, service, files, history
<1>4. CASE End(c, "failed") \/ End(c, "done") \/ End(c, "killed")
  <2>1. LocalsTyped' /\ LocalsUsed' /\ OwnFile'
    BY <1>1, <1>4, EndTyped DEF Ended, files
  <2> QED BY <1>3, <2>1 DEF Typed
<1>5. CASE /\ pc[c] = "idle" /\ disk[path] \notin Broken /\ Goto(c, "start")
           /\ settings' = [settings EXCEPT ![c] = disk[path]]
           /\ UNCHANGED <<todo, subject, new, wire, writer>>
  <2>1. disk[path] \in Texts
    BY <1>5 DEF Typed, FilesTyped
  <2>2. LocalsTyped'
    BY <1>5, <2>1 DEF Typed, LocalsTyped, Goto, Stages, Awaiting, writer
  <2>3. LocalsUsed'
    BY <1>5, <2>1 DEF Typed, LocalsTyped, LocalsUsed, Goto, Running, Ended, Updating, writer
  <2>4. OwnFile'
    BY <1>1, <1>5 DEF Typed, LocalsTyped, OwnFile, Goto, files, Ended
  <2> QED BY <1>3, <2>2, <2>3, <2>4 DEF Typed
<1>6. CASE /\ \/ pc[c] \in {"start", "sent"} /\ Goto(c, "next")
              \/ pc[c] = "sent" /\ Goto(c, "update")
           /\ UNCHANGED <<request, writer>>
  <2>1. pc[c] \in {"start", "sent"} /\ (Goto(c, "next") \/ Goto(c, "update"))
    BY <1>6
  <2>2. LocalsTyped'
    BY <1>6, <2>1 DEF Typed, LocalsTyped, Goto, Stages, request, writer
  <2>3. LocalsUsed'
    BY <1>6, <2>1 DEF Typed, LocalsTyped, LocalsUsed, Goto, Running, Ended, Updating, request, writer
  <2>4. OwnFile'
    BY <1>1, <2>1 DEF Typed, LocalsTyped, OwnFile, Goto, files, Ended
  <2> QED BY <1>3, <2>2, <2>3, <2>4 DEF Typed
<1> HIDE DEF End, Goto
<1>7. CASE Load(c)
  BY <1>4, <1>5, <1>7 DEF Load
<1>8. CASE Start(c)
  BY <1>4, <1>6, <1>8 DEF Start
<1>9. CASE Finish(c)
  BY <1>4, <1>9 DEF Finish
<1>10. CASE Receive(c)
  BY <1>4, <1>6, <1>10 DEF Receive
<1>11. CASE Fail(c) \/ Kill(c)
  BY <1>4, <1>11 DEF Fail, Kill
<1> QED BY <1>7, <1>8, <1>9, <1>10, <1>11

\* A step of a command that stays among the stages before the update.
LEMMA MovesTyped ==
    ASSUME Typed, NEW c \in Commands, NEW from \in {"next"} \cup Awaiting,
           NEW to \in {"next"} \cup Awaiting,
           pc[c] = from, Goto(c, to), todo' \in [Commands -> SUBSET Aliases],
           subject' \in [Commands -> Aliases], new' \in [Commands -> Nat],
           wire' \in [Commands -> Messages \cup {NoMessage}],
           UNCHANGED <<settings, writer, files>>
    PROVE  LocalsTyped' /\ LocalsUsed' /\ OwnFile' /\ FilesTyped'
<1> HIDE DEF Messages, Texts, Inodes
<1>1. LocalsTyped'
  BY DEF Typed, LocalsTyped, Goto, Stages, writer
<1>2. LocalsUsed'
  BY DEF Typed, LocalsTyped, LocalsUsed, Goto, Running, Ended, Updating, Awaiting, writer
<1>3. OwnFile' /\ FilesTyped'
  BY DEF Typed, LocalsTyped, OwnFile, FilesTyped, Goto, files, Ended, Awaiting
<1> QED BY <1>1, <1>2, <1>3

LEMMA RotatingTyped ==
    ASSUME Typed, NEW c \in Commands,
           \/ \E a \in Aliases : Choose(c, a)
           \/ ReadLatest(c) \/ RotateVault(c) \/ ReadRotated(c) \/ Submit(c)
    PROVE  Typed'
<1> USE Constants
<1> HIDE DEF Messages, Texts, Inodes
<1>1. /\ subject[c] \in Aliases /\ vault[subject[c]] \in Nat /\ new[c] \in Nat
      /\ \A stage \in {"next"} \cup Awaiting : pc[c] = stage => settings[c] # NoText
  BY DEF Typed, LocalsTyped, StoresTyped, LocalsUsed, Running, Awaiting, Ended
<1>2. ASSUME UNCHANGED <<service, files, kills, history>>
      PROVE  StoresTyped' /\ FilesTyped' /\ RestTyped'
  BY <1>2 DEF Typed, StoresTyped, FilesTyped, RestTyped, service, files, history
<1>3. ASSUME NEW a \in Aliases, Choose(c, a) PROVE Typed'
  <2>1. /\ pc[c] = "next" /\ todo' = [todo EXCEPT ![c] = @ \ {a}]
        /\ subject' = [subject EXCEPT ![c] = a]
        /\ UNCHANGED <<service, files, settings, new, writer, kills, history>>
    BY <1>3 DEF Choose
  <2>2. Message(c, a, 0) \in Messages
    BY <1>1, <2>1, MessageTyped
  <2>3. wire' \in [Commands -> Messages \cup {NoMessage}] /\ (Goto(c, "latest") \/ Goto(c, "sent"))
    BY <1>3, <2>2 DEF Choose, Typed, LocalsTyped
  <2>4. /\ todo' \in [Commands -> SUBSET Aliases] /\ subject' \in [Commands -> Aliases]
        /\ new' \in [Commands -> Nat]
    BY <2>1 DEF Typed, LocalsTyped
  <2>5. {"latest", "sent"} \subseteq {"next"} \cup Awaiting
    BY DEF Awaiting
  <2>6. LocalsTyped' /\ LocalsUsed' /\ OwnFile'
    BY <2>1, <2>3, <2>4, <2>5, MovesTyped
  <2> QED BY <1>2, <2>1, <2>6 DEF Typed
<1>4. ASSUME NEW v \in Nat, NEW from \in Awaiting, NEW to \in Awaiting, pc[c] = from,
             NewVersion(c, v, to)
      PROVE  Typed'
  <2>1. /\ new' = [new EXCEPT ![c] = v] /\ Goto(c, to)
        /\ UNCHANGED <<service, files, todo, settings, subject, wire, writer, kills, history>>
    BY <1>4 DEF NewVersion
  <2>2. /\ todo' \in [Commands -> SUBSET Aliases] /\ subject' \in [Commands -> Aliases]
        /\ new' \in [Commands -> Nat] /\ wire' \in [Commands -> Messages \cup {NoMessage}]
    BY <2>1 DEF Typed, LocalsTyped
  <2>3. LocalsTyped' /\ LocalsUsed' /\ OwnFile'
    BY <1>4, <2>1, <2>2, MovesTyped
  <2> QED BY <1>2, <2>1, <2>3 DEF Typed
<1>5. {"latest", "rotate", "reread", "prepare", "sent"} \subseteq Awaiting
  BY DEF Awaiting
<1>6. CASE ReadLatest(c)
  <2>1. pc[c] = "latest" /\ (NewVersion(c, vault[subject[c]], "prepare") \/ NewVersion(c, 0, "rotate"))
    BY <1>6 DEF ReadLatest, Subject
  <2>2. CASE NewVersion(c, vault[subject[c]], "prepare")
    BY <1>1, <1>4, <1>5, <2>1, <2>2
  <2>3. CASE NewVersion(c, 0, "rotate")
    BY <1>4, <1>5, <2>1, <2>3
  <2> QED BY <2>1, <2>2, <2>3
<1>7. CASE ReadRotated(c)
  BY <1>1, <1>4, <1>5, <1>7 DEF ReadRotated, Subject
<1>8. CASE RotateVault(c)
  <2>1. /\ pc[c] = "rotate" /\ Goto(c, "reread") /\ vault' = [vault EXCEPT ![subject[c]] = @ + 1]
        /\ UNCHANGED <<ledger, spent, files, request, writer, kills, raced>>
        /\ contended' \subseteq contended \cup Commands
    BY <1>8 DEF RotateVault, CreateVersion, Subject, Contend
  <2>2. /\ todo' \in [Commands -> SUBSET Aliases] /\ subject' \in [Commands -> Aliases]
        /\ new' \in [Commands -> Nat] /\ wire' \in [Commands -> Messages \cup {NoMessage}]
        /\ settings' = settings
    BY <2>1 DEF Typed, LocalsTyped, request
  <2>3. LocalsTyped' /\ LocalsUsed' /\ OwnFile' /\ FilesTyped'
    BY <1>5, <2>1, <2>2, MovesTyped
  <2>4. StoresTyped' /\ RestTyped'
    BY <1>1, <2>1 DEF Typed, StoresTyped, RestTyped
  <2> QED BY <2>3, <2>4 DEF Typed
<1>9. CASE Submit(c)
  <2>1. /\ pc[c] = "prepare" /\ Goto(c, "sent")
        /\ wire' = [wire EXCEPT ![c] = Message(c, subject[c], new[c])]
        /\ UNCHANGED <<service, files, todo, settings, subject, new, writer, kills, history>>
    BY <1>9 DEF Submit, Subject
  <2>2. Message(c, subject[c], new[c]) \in Messages
    BY <1>1, <1>5, <2>1, MessageTyped
  <2>3. /\ todo' \in [Commands -> SUBSET Aliases] /\ subject' \in [Commands -> Aliases]
        /\ new' \in [Commands -> Nat] /\ wire' \in [Commands -> Messages \cup {NoMessage}]
    BY <2>1, <2>2 DEF Typed, LocalsTyped
  <2>4. LocalsTyped' /\ LocalsUsed' /\ OwnFile'
    BY <1>5, <2>1, <2>3, MovesTyped
  <2> QED BY <1>2, <2>1, <2>4 DEF Typed
<1> QED BY <1>3, <1>6, <1>7, <1>8, <1>9

LEMMA UpdatingTyped ==
    ASSUME Typed, NEW c \in Commands,
           ReadText(c) \/ OpenTemp(c) \/ WriteTemp(c) \/ Replace(c)
    PROVE  Typed'
<1> USE Constants
<1> HIDE DEF Messages, Texts
<1>1. CASE ReadText(c)
  <2>1. /\ UNCHANGED <<service, files, kills, contended>> /\ raced' \in BOOLEAN
        /\ pc[c] = "update"
    BY <1>1 DEF ReadText, Typed, RestTyped
  <2>2. StoresTyped' /\ FilesTyped' /\ RestTyped'
    BY <2>1 DEF Typed, StoresTyped, FilesTyped, RestTyped, service, files
  <2>3. CASE End(c, "failed")
    <3>1. LocalsTyped' /\ LocalsUsed' /\ OwnFile'
      BY <2>1, <2>3, EndTyped DEF Ended, files
    <3> QED BY <2>2, <3>1 DEF Typed
  <2>4. CASE /\ disk[path] # Truncated /\ Goto(c, "open")
             /\ text' = [text EXCEPT ![c] = disk[path]] /\ UNCHANGED <<request, fd>>
    <3>1. disk[path] \in Texts \cup {Mixed}
      BY <2>4 DEF Typed, FilesTyped
    <3>2. LocalsTyped'
      BY <2>4, <3>1 DEF Typed, LocalsTyped, Goto, Stages, Updating, request
    <3>3. LocalsUsed'
      BY <2>1, <2>4, <3>1 DEF Typed, LocalsTyped, LocalsUsed, Goto, Running, Ended, Updating, request
    <3>4. OwnFile'
      BY <2>1, <2>4 DEF Typed, LocalsTyped, OwnFile, Goto, files, Ended
    <3> QED BY <2>2, <3>2, <3>3, <3>4 DEF Typed
  <2> QED BY <1>1, <2>3, <2>4 DEF ReadText
<1>2. CASE OpenTemp(c)
  <2> DEFINE inode == IF temp = NoFile THEN c ELSE temp
  <2>1. /\ pc[c] = "open" /\ temp' = inode /\ fd' = [fd EXCEPT ![c] = inode]
        /\ disk' = [disk EXCEPT ![inode] = Truncated] /\ pc' = [pc EXCEPT ![c] = "write"]
        /\ UNCHANGED <<service, path, request, text, kills, history>>
    BY <1>2 DEF OpenTemp, Goto
  <2>2. inode \in Inodes /\ inode # path /\ inode # NoFile
    BY <2>1 DEF Typed, FilesTyped, OwnFile, Ended
  <2>3. \A d \in Commands : pc'[d] \notin {"write", "replace"} \cup Ended =>
           pc[d] \notin {"write", "replace"} \cup Ended /\ d # inode
    BY <2>1 DEF Typed, LocalsTyped, OwnFile
  <2> HIDE DEF inode, Inodes
  <2>4. StoresTyped' /\ RestTyped'
    BY <2>1 DEF Typed, StoresTyped, RestTyped, service, history
  <2>5. FilesTyped'
    BY <2>1, <2>2 DEF Typed, FilesTyped
  <2>6. LocalsTyped'
    BY <2>1, <2>2 DEF Typed, LocalsTyped, Stages, Updating, request
  <2>7. LocalsUsed'
    BY <2>1, <2>2 DEF Typed, LocalsTyped, LocalsUsed, Running, Ended, Updating, request
  <2>8. OwnFile'
    BY <2>1, <2>3 DEF Typed, OwnFile
  <2> QED BY <2>4, <2>5, <2>6, <2>7, <2>8 DEF Typed
<1>3. CASE WriteTemp(c)
  <2>1. /\ pc[c] = "write" /\ pc' = [pc EXCEPT ![c] = "replace"]
        /\ UNCHANGED <<service, path, temp, request, writer, kills, history>>
    BY <1>3 DEF WriteTemp, Goto
  <2>2. /\ text[c] \in Texts \cup {Mixed} /\ subject[c] \in Aliases
        /\ new[c] \in Nat
    BY <2>1 DEF Typed, LocalsTyped, LocalsUsed, Updating
  <2>3. Updated(c) \in Texts \cup Broken
    BY <2>2 DEF Updated, Subject, Texts
  <2> HIDE DEF Inodes
  <2>4. PICK content \in Texts \cup Broken : disk' = [disk EXCEPT ![fd[c]] = content]
    BY <1>3, <2>3 DEF WriteTemp, Written
  <2>5. StoresTyped' /\ RestTyped' /\ FilesTyped'
    BY <2>1, <2>4 DEF Typed, StoresTyped, RestTyped, FilesTyped, service, history
  <2>6. LocalsTyped'
    BY <2>1 DEF Typed, LocalsTyped, Stages, Updating, request, writer
  <2>7. LocalsUsed'
    BY <2>1 DEF Typed, LocalsTyped, LocalsUsed, Running, Ended, Updating, request, writer
  <2>8. OwnFile'
    BY <2>1 DEF Typed, LocalsTyped, OwnFile, Ended
  <2> QED BY <2>5, <2>6, <2>7, <2>8 DEF Typed
<1>4. CASE Replace(c)
  <2>1. /\ UNCHANGED <<service, kills, history, disk>>
        /\ \/ UNCHANGED files
           \/ temp # NoFile /\ path' = temp /\ temp' = NoFile
        /\ End(c, "failed") \/ End(c, "done")
    BY <1>4 DEF Replace, files
  <2> HIDE DEF Inodes
  <2>2. StoresTyped' /\ RestTyped' /\ FilesTyped'
    BY <2>1 DEF Typed, StoresTyped, RestTyped, FilesTyped, service, history, files
  <2>3. OwnFile'
    BY <2>1 DEF Typed, LocalsTyped, OwnFile, End, Goto, Ended, files
  <2>4. LocalsTyped' /\ LocalsUsed'
    BY <2>1 DEF Typed, LocalsTyped, LocalsUsed, End, Goto, Running, Ended, Updating, Stages
  <2> QED BY <2>2, <2>3, <2>4 DEF Typed
<1> QED BY <1>1, <1>2, <1>3, <1>4

LEMMA ServiceTyped ==
    ASSUME Typed, (\E c \in Commands : Accept(c) \/ Refuse(c)) \/ (\E a \in Aliases : RotateOutside(a))
    PROVE  Typed'
<1> USE Constants
<1> HIDE DEF Messages, Texts, Inodes
<1>1. ASSUME NEW c \in Commands, Accept(c) PROVE Typed'
  <2>1. wire[c] \in Messages
    BY <1>1 DEF Accept, Answer, Typed, LocalsTyped
  <2>2. /\ wire[c].alias \in Aliases /\ wire[c].signed \in Nat /\ wire[c].new \in Nat
        /\ [wire[c] EXCEPT !.accepted = TRUE] \in Messages
    BY <2>1 DEF Messages
  <2>3. LocalsTyped' /\ LocalsUsed' /\ OwnFile' /\ FilesTyped'
    BY <1>1, <2>2, AnswerTyped DEF Accept
  <2>4. vault' = vault /\ UNCHANGED <<kills, raced, contended>>
    BY <1>1 DEF Accept, Answer, history
  <2>5. /\ Kid(wire[c].alias, wire[c].signed) \in Kids /\ Kid(wire[c].alias, wire[c].new) \in Kids
    BY <2>2, KidFacts
  <2>6. \/ UNCHANGED <<ledger, spent>>
        \/ \E k \in Kids : \/ Ledger!Register(wire[c].alias, "client", k, k)
                           \/ Ledger!Rotate(wire[c].alias, k, k)
                           \/ Ledger!Retire(wire[c].alias)
    BY <1>1, <2>5, Zenon DEF Accept
  <2>7. StoresTyped'
    BY <2>2, <2>4, <2>6, LedgerTyped DEF Typed, StoresTyped
  <2> QED BY <2>3, <2>4, <2>7 DEF Typed, RestTyped
<1>2. ASSUME NEW c \in Commands, Refuse(c) PROVE Typed'
  <2>1. LocalsTyped' /\ LocalsUsed' /\ OwnFile' /\ FilesTyped'
    BY <1>2, AnswerTyped DEF Refuse
  <2>2. UNCHANGED <<vault, ledger, spent, kills, raced, contended>>
    BY <1>2 DEF Refuse, Answer, history
  <2> QED BY <2>1, <2>2 DEF Typed, RestTyped, StoresTyped
<1>3. ASSUME NEW a \in Aliases, RotateOutside(a) PROVE Typed'
  <2>1. /\ vault' = [vault EXCEPT ![a] = @ + 1] /\ contended' \subseteq contended \cup Commands
        /\ UNCHANGED <<ledger, spent, files, request, writer, kills, raced, pc>>
    BY <1>3 DEF RotateOutside, CreateVersion, Contend
  <2>2. StoresTyped' /\ RestTyped'
    BY <2>1 DEF Typed, StoresTyped, RestTyped
  <2>3. LocalsTyped' /\ FilesTyped'
    BY <2>1 DEF Typed, LocalsTyped, FilesTyped, files, request, writer
  <2>4. LocalsUsed' /\ OwnFile'
    BY <2>1 DEF Typed, LocalsUsed, OwnFile, Running, files, request, writer
  <2> QED BY <2>2, <2>3, <2>4 DEF Typed
<1> QED BY <1>1, <1>2, <1>3

LEMMA NextTyped ==
    ASSUME Typed, Next PROVE Typed'
BY StartsTyped, RotatingTyped, UpdatingTyped, ServiceTyped DEF Next, Step

-----------------------------------------------------------------------------
(* Versions *)

\* A key_version of a that the Registry has accepted, or the one to register.
Known(a, v) ==
    IF a \in DOMAIN ledger THEN v <= Version(a) /\ Kid(a, v) \in DOMAIN spent
                           ELSE v = Configured[a]

TextsKnown ==
    /\ \A i \in Inodes : disk[i] \notin Broken => \A a \in Aliases : Known(a, disk[i][a])
    /\ \A c \in Commands :
          /\ settings[c] # NoText => \A a \in Aliases : Known(a, settings[c][a])
          /\ text[c] \notin {NoText, Mixed} => \A a \in Aliases : Known(a, text[c][a])

VaultAhead == \A a \in DOMAIN ledger : Version(a) <= vault[a]

Rotating == {"latest", "rotate", "reread", "prepare", "update"} \cup Updating

\* What a command has read is still a lower bound of what is.
Plan(c) ==
    /\ Running(c) /\ pc[c] # "start" => \A a \in Aliases : settings[c][a] <= vault[a]
    /\ pc[c] \in Rotating => c.op = "rotate"
    /\ pc[c] = "rotate" =>
          \/ c \in contended
          \/ vault[subject[c]] <= Version(subject[c])
    /\ pc[c] = "reread" => settings[c][subject[c]] < vault[subject[c]]
    /\ pc[c] = "prepare" =>
          settings[c][subject[c]] < new[c] /\ new[c] <= vault[subject[c]]

\* What a message asks for is newer than what signs it, and in Vault.
Sound(c, m) ==
    /\ Known(m.alias, m.signed) /\ m.signed <= vault[m.alias]
    /\ c.op = "rotate" =>
          /\ m.signed < m.new /\ m.new <= vault[m.alias]
          /\ m.accepted => m.alias \in DOMAIN ledger /\ Known(m.alias, m.new)

Sent(c) ==
    /\ wire[c] # NoMessage => Sound(c, wire[c])
    /\ pc[c] = "sent" /\ c.op = "rotate" /\ wire[c] # NoMessage =>
          wire[c].alias = subject[c] /\ wire[c].new = new[c]
    /\ pc[c] \in {"update"} \cup Updating =>
          /\ wire[c] # NoMessage /\ wire[c].accepted
          /\ wire[c].alias = subject[c] /\ wire[c].new = new[c]

Versions ==
    /\ TextsKnown /\ VaultAhead
    /\ \A c \in Commands : Plan(c) /\ Sent(c)

LEMMA VersionTyped ==
    ASSUME StoresTyped, NEW a \in Aliases PROVE Version(a) \in Nat
<1>1. Configured[a] \in Nat
  BY RotationAssumption
<1>2. ASSUME a \in DOMAIN ledger PROVE ledger[a].kid.version \in Nat
  <2>1. ledger[a].kid \in Kids
    BY <1>2 DEF StoresTyped, Entries
  <2> QED BY <2>1 DEF Kids
<1> QED BY <1>1, <1>2 DEF Version

LEMMA KnownBelow ==
    ASSUME StoresTyped, NEW a \in Aliases, NEW v, Known(a, v)
    PROVE  v <= Version(a)
<1>1. Version(a) \in Nat
  BY VersionTyped
<1>2. a \notin DOMAIN ledger => Version(a) = Configured[a]
  BY DEF Version
<1> QED BY <1>1, <1>2 DEF Known

LEMMA KnownSame ==
    ASSUME UNCHANGED <<ledger, spent>>
    PROVE  \A a, v : /\ Known(a, v)' <=> Known(a, v)
                     /\ Version(a)' = Version(a)
BY DEF Known, Version

\* What the Registry does when it accepts a message.
LEMMA Accepting ==
    ASSUME Typed, Versions, NEW c \in Commands, Accept(c)
    PROVE  /\ \A a \in Aliases, v \in Nat : Known(a, v) => Known(a, v)'
           /\ \A a \in Aliases : Version(a) <= Version(a)'
           /\ \A a \in DOMAIN ledger :
                 ledger'[a].kid # ledger[a].kid => Version(a) < Version(a)'
           /\ DOMAIN ledger \subseteq DOMAIN ledger' /\ VaultAhead'
           /\ c.op = "rotate" => \A a, v : a = wire[c].alias /\ v = wire[c].new =>
                 a \in DOMAIN ledger' /\ Known(a, v)'
<1>0. PICK m : m = wire[c]
  OBVIOUS
<1> HIDE DEF Messages, Texts, Inodes
<1>1. m # NoMessage /\ m \in Messages
  BY <1>0 DEF Accept, Answer, Typed, LocalsTyped
<1>2. m.alias \in Aliases /\ m.signed \in Nat /\ m.new \in Nat
  BY <1>1 DEF Messages
<1>3. Sound(c, m)
  BY <1>0, <1>1 DEF Versions, Sent
<1>4. vault' = vault /\ vault \in [Aliases -> Nat]
  BY DEF Accept, Answer, Typed, StoresTyped
<1> DEFINE k == Kid(m.alias, m.signed)
           n == Kid(m.alias, m.new)
<1>5. k.version = m.signed /\ n.version = m.new /\ k \in Kids /\ n \in Kids
  BY <1>2, KidFacts
<1>6. \A a \in Aliases : Version(a) \in Nat
  BY VersionTyped DEF Typed
<1>7. CASE c.op = "publish" /\ Ledger!Register(m.alias, "client", k, k)
  <2>1. /\ m.alias \notin DOMAIN ledger /\ DOMAIN ledger' = DOMAIN ledger \cup {m.alias}
        /\ ledger'[m.alias].kid = k
        /\ \A a \in DOMAIN ledger : ledger'[a] = ledger[a]
        /\ DOMAIN spent' = DOMAIN spent \cup {k}
    BY <1>7 DEF Ledger!Register, Ledger!Spend, Ledger!Add
  <2>2. m.signed = Configured[m.alias] /\ m.signed <= vault[m.alias]
    BY <1>3, <2>1 DEF Sound, Known
  <2>3. Version(m.alias)' = m.signed /\ Version(m.alias) = m.signed
    BY <1>5, <2>1, <2>2 DEF Version
  <2>4. \A a \in Aliases \ {m.alias} : Version(a)' = Version(a) /\ (a \in DOMAIN ledger' <=> a \in DOMAIN ledger)
    BY <2>1 DEF Version
  <2>5. ASSUME NEW a \in Aliases, NEW v \in Nat, Known(a, v) PROVE Known(a, v)'
    <3>1. CASE a = m.alias
      <4>1. v = m.signed
        BY <2>1, <2>2, <2>5, <3>1 DEF Known
      <4> QED BY <1>2, <2>1, <2>3, <3>1, <4>1 DEF Known
    <3>2. CASE a # m.alias
      BY <2>1, <2>4, <2>5, <3>2 DEF Known
    <3> QED BY <3>1, <3>2
  <2>6. VaultAhead'
    <3>1. \A a \in DOMAIN ledger' : a \in Aliases
      BY <1>2, <2>1 DEF Typed, StoresTyped
    <3> QED BY <1>4, <2>1, <2>2, <2>3, <2>4, <3>1 DEF VaultAhead, Versions
  <2>7. ASSUME NEW a \in Aliases PROVE Version(a) <= Version(a)'
    <3>1. Version(a)' = Version(a) /\ Version(a) \in Nat
      BY <1>6, <2>3, <2>4
    <3> QED BY <3>1
  <2> QED BY <1>7, <2>1, <2>5, <2>6, <2>7
<1>8. CASE /\ c.op = "rotate" /\ SignedCurrent(m)
           /\ Ledger!Rotate(m.alias, n, n)
  <2>1. /\ m.alias \in DOMAIN ledger /\ ledger[m.alias].kid = k
        /\ ledger \in [DOMAIN ledger -> Entries]
    BY <1>8 DEF SignedCurrent, Typed, StoresTyped
  <2>2. /\ DOMAIN ledger' = DOMAIN ledger /\ DOMAIN spent' = DOMAIN spent \cup {n}
        /\ \A a \in DOMAIN ledger \ {m.alias} : ledger'[a] = ledger[a]
    BY <1>8, <2>1 DEF Ledger!Rotate, Ledger!Spend, Ledger!Add
  <2>3. ledger'[m.alias].kid = n
    <3>1. ledger[m.alias] \in Entries
      BY <2>1
    <3>2. ledger'[m.alias] = [ledger[m.alias] EXCEPT !.kid = n, !.key = n]
      BY <1>8, <2>1 DEF Ledger!Rotate
    <3> QED BY <3>1, <3>2 DEF Entries
  <2>4. m.signed < m.new /\ m.new <= vault[m.alias]
    BY <1>3, <1>8 DEF Sound
  <2>5. Version(m.alias) = m.signed /\ Version(m.alias)' = m.new
    BY <1>5, <2>1, <2>2, <2>3 DEF Version
  <2>6. \A a \in Aliases \ {m.alias} : Version(a)' = Version(a)
    BY <2>2 DEF Version
  <2>7. ASSUME NEW a \in Aliases PROVE Version(a) <= Version(a)'
    BY <1>2, <1>6, <2>4, <2>5, <2>6
  <2>8. ASSUME NEW a \in Aliases, NEW v \in Nat, Known(a, v) PROVE Known(a, v)'
    <3>1. CASE a = m.alias
      <4>1. v <= m.signed /\ Kid(a, v) \in DOMAIN spent'
        BY <2>1, <2>2, <2>5, <2>8, <3>1 DEF Known
      <4>2. v <= m.new
        BY <1>2, <2>4, <4>1
      <4> QED BY <2>1, <2>2, <2>5, <3>1, <4>1, <4>2 DEF Known
    <3>2. CASE a # m.alias
      BY <2>2, <2>6, <2>8, <3>2 DEF Known
    <3> QED BY <3>1, <3>2
  <2>9. VaultAhead'
    <3>1. \A a \in DOMAIN ledger' : a \in Aliases
      BY <2>2 DEF Typed, StoresTyped
    <3> QED BY <1>4, <2>2, <2>4, <2>5, <2>6, <3>1 DEF VaultAhead, Versions
  <2>10. ASSUME NEW a, NEW v, a = m.alias, v = m.new PROVE a \in DOMAIN ledger' /\ Known(a, v)'
    <3>1. Version(a)' = v
      BY <2>5, <2>10
    <3> QED BY <1>2, <2>1, <2>2, <2>10, <3>1 DEF Known
  <2>11. \A a \in DOMAIN ledger : ledger'[a].kid # ledger[a].kid => Version(a) < Version(a)'
    BY <1>2, <2>2, <2>4, <2>5
  <2> QED BY <1>0, <1>8, <2>2, <2>7, <2>8, <2>9, <2>10, <2>11
<1>9. CASE c.op # "rotate" /\ (UNCHANGED <<ledger, spent>> \/ Ledger!Retire(m.alias))
  <2>1. /\ DOMAIN ledger' = DOMAIN ledger /\ spent' = spent
        /\ \A a \in DOMAIN ledger : ledger'[a].kid = ledger[a].kid
    <3>1. CASE Ledger!Retire(m.alias)
      <4>1. /\ m.alias \in DOMAIN ledger /\ ledger[m.alias] \in Entries /\ spent' = spent
            /\ ledger' = [ledger EXCEPT ![m.alias] = [ledger[m.alias] EXCEPT !.active = FALSE]]
        BY <3>1 DEF Ledger!Retire, Typed, StoresTyped
      <4>2. [ledger[m.alias] EXCEPT !.active = FALSE].kid = ledger[m.alias].kid
        BY <4>1 DEF Entries
      <4> QED BY <4>1, <4>2 DEF Typed, StoresTyped
    <3> QED BY <1>9, <3>1
  <2>2. ASSUME NEW a \in Aliases
        PROVE  Version(a)' = Version(a) /\ \A v : Known(a, v)' <=> Known(a, v)
    BY <2>1 DEF Version, Known
  <2>3. ASSUME NEW a \in Aliases PROVE Version(a) <= Version(a)'
    <3>1. Version(a)' = Version(a) /\ Version(a) \in Nat
      BY <1>6, <2>2
    <3> QED BY <3>1
  <2>4. VaultAhead'
    <3>1. \A a \in DOMAIN ledger' : a \in Aliases
      BY <2>1 DEF Typed, StoresTyped
    <3> QED BY <1>4, <2>1, <2>2, <3>1 DEF VaultAhead, Versions
  <2> QED BY <1>9, <2>1, <2>2, <2>3, <2>4
<1>10. \/ c.op = "publish" /\ Ledger!Register(m.alias, "client", k, k)
       \/ c.op = "rotate" /\ SignedCurrent(m) /\ Ledger!Rotate(m.alias, n, n)
       \/ c.op # "rotate" /\ (UNCHANGED <<ledger, spent>> \/ Ledger!Retire(m.alias))
  BY <1>0 DEF Accept
<1> QED BY <1>7, <1>8, <1>9, <1>10

\* What everything but an accepted message leaves alone, and a command of others.
LEMMA StepLocal ==
    ASSUME Typed, NEW c \in Commands, Step(c)
    PROVE  /\ UNCHANGED <<ledger, spent>>
           /\ \A d \in Commands \ {c} :
                 /\ pc'[d] = pc[d] /\ settings'[d] = settings[d] /\ subject'[d] = subject[d]
                 /\ new'[d] = new[d] /\ wire'[d] = wire[d] /\ text'[d] = text[d]
                 /\ fd'[d] = fd[d]
<1> HIDE DEF Messages, Texts, Inodes
<1> USE DEF Typed, LocalsTyped, Goto, service, request, writer
<1>1. CASE Load(c) \/ Start(c) \/ Finish(c)
  BY <1>1 DEF Load, Start, Finish, End
<1>2. CASE Receive(c) \/ Fail(c) \/ Kill(c)
  BY <1>2 DEF Receive, Fail, Kill, End
<1>3. CASE \E a \in Aliases : Choose(c, a)
  BY <1>3 DEF Choose
<1>4. CASE ReadLatest(c) \/ ReadRotated(c)
  BY <1>4 DEF ReadLatest, ReadRotated, NewVersion
<1>5. CASE RotateVault(c) \/ Submit(c)
  BY <1>5 DEF RotateVault, CreateVersion, Submit
<1>6. CASE ReadText(c) \/ OpenTemp(c)
  BY <1>6 DEF ReadText, OpenTemp, End
<1>7. CASE WriteTemp(c) \/ Replace(c)
  BY <1>7 DEF WriteTemp, Replace, End
<1> QED BY <1>1, <1>2, <1>3, <1>4, <1>5, <1>6, <1>7 DEF Step

\* What only grows.
LEMMA Growing ==
    ASSUME Typed, Versions, Next
    PROVE  /\ \A a \in Aliases, v \in Nat : Known(a, v) => Known(a, v)'
           /\ \A a \in Aliases : Version(a) <= Version(a)'
           /\ \A a \in Aliases : vault[a] <= vault'[a] /\ vault[a] \in Nat /\ vault'[a] \in Nat
           /\ DOMAIN ledger \subseteq DOMAIN ledger' /\ contended \subseteq contended'
           /\ VaultAhead'
<1>1. \A a \in Aliases : Version(a) \in Nat
  BY VersionTyped DEF Typed
<1>2. vault' \in [Aliases -> Nat] /\ vault \in [Aliases -> Nat] /\ DOMAIN ledger \subseteq Aliases
  BY NextTyped DEF Typed, StoresTyped
<1>3. ASSUME NEW c \in Commands, Accept(c)
      PROVE  vault' = vault /\ contended' = contended
  BY <1>3 DEF Accept, Answer, history
<1>4. ASSUME UNCHANGED <<ledger, spent>>,
             \A a \in Aliases : vault[a] <= vault'[a], contended \subseteq contended'
      PROVE  /\ \A a \in Aliases, v \in Nat : Known(a, v) => Known(a, v)'
             /\ \A a \in Aliases : Version(a) <= Version(a)'
             /\ DOMAIN ledger \subseteq DOMAIN ledger' /\ VaultAhead'
  <2>1. \A a \in Aliases : Version(a)' = Version(a)
    BY <1>4, KnownSame
  <2>2. VaultAhead'
    <3> SUFFICES ASSUME NEW a \in DOMAIN ledger PROVE Version(a)' <= vault'[a]
      BY <1>4 DEF VaultAhead
    <3>1. a \in Aliases /\ Version(a) <= vault[a]
      BY <1>2 DEF Versions, VaultAhead
    <3>2. vault[a] <= vault'[a] /\ vault[a] \in Nat /\ vault'[a] \in Nat /\ Version(a) \in Nat /\ Version(a)' = Version(a)
      BY <1>1, <1>2, <1>4, <2>1, <3>1
    <3> QED BY <3>1, <3>2
  <2>3. ASSUME NEW a \in Aliases PROVE Version(a) <= Version(a)'
    <3>1. Version(a)' = Version(a) /\ Version(a) \in Nat
      BY <1>1, <2>1
    <3> QED BY <3>1
  <2> QED BY <1>4, <2>2, <2>3, KnownSame
<1>5. ASSUME NEW a \in Aliases, CreateVersion(a)
      PROVE  \A b \in Aliases : vault[b] <= vault'[b]
  BY <1>2, <1>5 DEF CreateVersion
<1>6. ASSUME NEW c \in Commands, Step(c)
      PROVE  (\A a \in Aliases : vault[a] <= vault'[a]) /\ contended \subseteq contended'
  <2>1. CASE RotateVault(c)
    <3>1. subject[c] \in Aliases
      BY DEF Typed, LocalsTyped
    <3> QED BY <1>5, <2>1, <3>1 DEF RotateVault, Subject, Contend
  <2>2. CASE ~ RotateVault(c)
    <3>1. UNCHANGED <<vault, contended>> \/ (vault' = vault /\ contended \subseteq contended')
      BY <1>6, <2>2 DEF Step, Load, Start, Choose, Finish, ReadLatest, ReadRotated, NewVersion, Submit,
           Receive, ReadText, OpenTemp, WriteTemp, Replace, Fail, Kill, service, history
    <3> QED BY <1>2, <3>1
  <2> QED BY <2>1, <2>2
<1>7. ASSUME NEW c \in Commands, Refuse(c)
      PROVE  UNCHANGED <<vault, ledger, spent, contended>>
  BY <1>7 DEF Refuse, Answer, history
<1>8. ASSUME NEW a \in Aliases, RotateOutside(a)
      PROVE  /\ UNCHANGED <<ledger, spent>> /\ contended \subseteq contended'
             /\ \A b \in Aliases : vault[b] <= vault'[b]
  BY <1>5, <1>8 DEF RotateOutside, CreateVersion, Contend
<1>9. CASE \E c \in Commands : Accept(c)
  BY <1>2, <1>3, <1>9, Accepting
<1>10. CASE \E c \in Commands : Step(c)
  BY <1>2, <1>4, <1>6, <1>10, StepLocal
<1>11. CASE \E c \in Commands : Refuse(c)
  BY <1>2, <1>4, <1>7, <1>11
<1>12. CASE \E a \in Aliases : RotateOutside(a)
  BY <1>2, <1>4, <1>8, <1>12
<1> QED BY <1>9, <1>10, <1>11, <1>12 DEF Next

\* Plans and messages of a command that does not act.
LEMMA PlanKept ==
    ASSUME Typed, Versions, Next, NEW d \in Commands, pc'[d] = pc[d],
           settings'[d] = settings[d], subject'[d] = subject[d], new'[d] = new[d],
           pc[d] = "rotate" => \/ d \in contended'
                               \/ vault'[subject[d]] = vault[subject[d]]
    PROVE  Plan(d)'
<1>1. Plan(d)
  BY DEF Versions
<1>2. /\ \A a \in Aliases : vault[a] <= vault'[a] /\ vault[a] \in Nat /\ vault'[a] \in Nat
      /\ contended \subseteq contended'
  BY Growing
<1>3. subject[d] \in Aliases /\ new[d] \in Nat
  BY DEF Typed, LocalsTyped
<1>4. ASSUME Running(d) PROVE \A a \in Aliases : settings[d][a] \in Nat
  BY <1>4 DEF Typed, LocalsTyped, LocalsUsed, Texts
<1>5. pc[d] = "rotate" => d \in contended' \/ vault'[subject[d]] <= Version(subject[d])'
  <2> SUFFICES ASSUME pc[d] = "rotate", d \notin contended'
               PROVE  vault'[subject[d]] <= Version(subject[d])'
    OBVIOUS
  <2>1. vault[subject[d]] <= Version(subject[d]) /\ vault'[subject[d]] = vault[subject[d]]
    BY <1>1, <1>2 DEF Plan
  <2>2. PICK a \in Aliases : a = subject[d]
    BY <1>3
  <2>3. Version(a) <= Version(a)' /\ Version(a) \in Nat /\ vault[a] \in Nat
    BY <1>2, Growing, VersionTyped DEF Typed
  <2>4. Version(subject[d])' = Version(a)'
    BY <2>2 DEF Version
  <2>5. StoresTyped'
    BY NextTyped DEF Typed
  <2>6. Version(a)' \in Nat
    <3>1. a \in DOMAIN ledger' => ledger'[a].kid.version \in Nat
      <4> SUFFICES ASSUME a \in DOMAIN ledger' PROVE ledger'[a].kid.version \in Nat
        OBVIOUS
      <4>1. ledger'[a].kid \in Kids
        BY <2>5 DEF StoresTyped, Entries
      <4> QED BY <4>1 DEF Kids
    <3>2. Configured[a] \in Nat
      BY RotationAssumption
    <3> QED BY <3>1, <3>2 DEF Version
  <2> QED BY <2>1, <2>2, <2>3, <2>4, <2>6
<1>6. Running(d)' <=> Running(d)
  BY DEF Running
<1>7. Running(d) /\ pc[d] # "start" => \A a \in Aliases : settings[d][a] <= vault'[a]
  BY <1>1, <1>2, <1>4 DEF Plan
<1>8. pc[d] \in {"reread", "prepare"} => Running(d)
  BY DEF Running, Ended
<1>9. pc[d] = "reread" => settings[d][subject[d]] < vault'[subject[d]]
  BY <1>1, <1>2, <1>3, <1>4, <1>8 DEF Plan
<1>10. pc[d] = "prepare" => settings[d][subject[d]] < new[d] /\ new[d] <= vault'[subject[d]]
  BY <1>1, <1>2, <1>3, <1>4, <1>8 DEF Plan
<1> QED BY <1>1, <1>5, <1>6, <1>7, <1>9, <1>10 DEF Plan

LEMMA SoundKept ==
    ASSUME Typed, Versions, Next, NEW c \in Commands, NEW m \in Messages, Sound(c, m)
    PROVE  Sound(c, m)'
<1>1. m.alias \in Aliases /\ m.signed \in Nat /\ m.new \in Nat
  BY DEF Messages
<1>2. /\ \A a \in Aliases, v \in Nat : Known(a, v) => Known(a, v)'
      /\ \A a \in Aliases : vault[a] <= vault'[a] /\ vault[a] \in Nat /\ vault'[a] \in Nat
      /\ DOMAIN ledger \subseteq DOMAIN ledger'
  BY Growing
<1>3. m.signed <= vault'[m.alias] /\ (c.op = "rotate" => m.signed < m.new /\ m.new <= vault'[m.alias])
  BY <1>1, <1>2 DEF Sound
<1>4. Known(m.alias, m.signed)'
  BY <1>1, <1>2 DEF Sound
<1>5. c.op = "rotate" /\ m.accepted => m.alias \in DOMAIN ledger' /\ Known(m.alias, m.new)'
  BY <1>1, <1>2 DEF Sound
<1> HIDE DEF Known
<1> QED BY <1>3, <1>4, <1>5 DEF Sound

LEMMA SentKept ==
    ASSUME Typed, Versions, Next, NEW d \in Commands, pc'[d] = pc[d],
           subject'[d] = subject[d], new'[d] = new[d], wire'[d] = wire[d]
    PROVE  Sent(d)'
<1>1. Sent(d)
  BY DEF Versions
<1>2. PICK m : m = wire[d]
  OBVIOUS
<1>3. m # NoMessage => m \in Messages /\ Sound(d, m)
  BY <1>1, <1>2 DEF Sent, Typed, LocalsTyped
<1>4. m # NoMessage => Sound(d, m)'
  BY <1>3, SoundKept
<1>5. wire'[d] # NoMessage => Sound(d, wire[d])'
  BY <1>2, <1>4 DEF Sound, Known, Version
<1> QED BY <1>1, <1>5 DEF Sent

\* A command that has nothing planned and sends nothing new.
LEMMA Unplanned ==
    ASSUME Typed, Versions, Next, NEW c \in Commands, wire'[c] = wire[c],
           pc'[c] \in {"idle", "start"} \cup Ended
    PROVE  Plan(c)' /\ Sent(c)'
<1>1. PICK m : m = wire[c]
  OBVIOUS
<1>2. m # NoMessage => m \in Messages /\ Sound(c, m)
  BY <1>1 DEF Versions, Sent, Typed, LocalsTyped
<1>3. m # NoMessage => Sound(c, m)'
  BY <1>2, SoundKept
<1>4. wire'[c] # NoMessage => Sound(c, wire[c])'
  BY <1>1, <1>3 DEF Sound, Known, Version
<1>5. Plan(c)'
  BY DEF Plan, Running, Ended, Rotating, Updating
<1> QED BY <1>4, <1>5 DEF Sent, Ended, Updating

\* What is sent is sound when it is sent.
LEMMA SendSound ==
    ASSUME Typed, Versions, Next, NEW c \in Commands, NEW a \in Aliases, NEW v \in Nat,
           Running(c), pc[c] # "start", c.op = "rotate" => settings[c][a] < v /\ v <= vault[a],
           wire'[c] = Message(c, a, v)
    PROVE  Sound(c, wire[c])'
<1>1. settings[c] # NoText
  BY DEF Typed, LocalsUsed
<1>2. PICK m : m = Message(c, a, v)
  OBVIOUS
<1>3. /\ m \in Messages /\ m.alias = a /\ m.new = v /\ m.signed = settings[c][a] /\ ~ m.accepted
  BY <1>1, <1>2, MessageTyped
<1>4. Known(a, m.signed) /\ m.signed <= vault[a]
  BY <1>1, <1>3 DEF Versions, TextsKnown, Plan
<1>5. Sound(c, m)
  BY <1>3, <1>4 DEF Sound
<1>6. Sound(c, m)'
  BY <1>3, <1>5, SoundKept
<1> QED BY <1>2, <1>6 DEF Sound, Known, Version

LEMMA CommandStep ==
    ASSUME Typed, Versions, NEW c \in Commands, Step(c)
    PROVE  Plan(c)' /\ Sent(c)'
<1> USE Constants
<1> HIDE DEF Messages, Texts, Inodes
<1>0. Next /\ Plan(c) /\ Sent(c)
  BY DEF Next, Versions
<1>1. /\ pc[c] \in Stages /\ subject[c] \in Aliases /\ new[c] \in Nat
      /\ \A a \in Aliases : vault[a] \in Nat
  BY DEF Typed, LocalsTyped, StoresTyped
<1>2. ASSUME Running(c) PROVE settings[c] \in Texts /\ \A a \in Aliases : settings[c][a] \in Nat
  BY <1>2 DEF Typed, LocalsTyped, LocalsUsed, Texts
<1>3. ASSUME NEW stage \in Ended, End(c, stage) PROVE Plan(c)' /\ Sent(c)'
  <2>1. wire'[c] = wire[c] /\ pc'[c] = stage
    BY <1>3 DEF End, Goto, Typed, LocalsTyped
  <2> QED BY <1>0, <2>1, Unplanned
<1>4. CASE Load(c)
  <2>1. CASE End(c, "failed")
    BY <1>3, <2>1 DEF Ended
  <2>2. CASE Goto(c, "start") /\ UNCHANGED wire
    <3>1. pc'[c] = "start"
      BY <2>2 DEF Goto, Typed, LocalsTyped
    <3> QED BY <1>0, <2>2, <3>1, Unplanned
  <2> QED BY <1>4, <2>1, <2>2 DEF Load
<1>5. CASE Start(c)
  <2>1. CASE End(c, "failed")
    BY <1>3, <2>1 DEF Ended
  <2>2. CASE /\ \A a \in Aliases : HasVersion(a, settings[c][a]) /\ pc[c] = "start"
             /\ Goto(c, "next") /\ UNCHANGED <<service, request, writer>>
    <3>1. pc'[c] = "next" /\ settings' = settings /\ vault' = vault /\ wire' = wire
      BY <2>2 DEF Goto, Typed, LocalsTyped, service, request
    <3>2. Running(c)
      BY <2>2 DEF Running, Ended
    <3>3. \A a \in Aliases : settings[c][a] <= vault[a]
      BY <1>1, <1>2, <2>2, <3>2 DEF HasVersion
    <3>4. Plan(c)'
      BY <3>1, <3>3 DEF Plan, Rotating, Updating
    <3>5. wire[c] # NoMessage => Sound(c, wire[c])'
      <4>1. wire[c] # NoMessage => wire[c] \in Messages /\ Sound(c, wire[c])
        BY <1>0 DEF Sent, Typed, LocalsTyped
      <4> QED BY <3>1, <4>1, <1>5, StepLocal DEF Sound, Known, Version
    <3> QED BY <3>1, <3>4, <3>5 DEF Sent, Updating
  <2> QED BY <1>5, <2>1, <2>2 DEF Start
<1>6. ASSUME NEW a \in Aliases, Choose(c, a) PROVE Plan(c)' /\ Sent(c)'
  <2>1. pc[c] = "next" /\ Running(c) /\ settings' = settings /\ vault' = vault
    BY <1>6 DEF Choose, service, Running, Ended
  <2>2. \A b \in Aliases : settings[c][b] <= vault[b]
    BY <1>0, <2>1 DEF Plan
  <2>3. CASE c.op = "rotate"
    <3>1. pc'[c] = "latest" /\ wire' = wire
      BY <1>6, <2>3 DEF Choose, Goto, Typed, LocalsTyped
    <3>2. Plan(c)'
      BY <2>1, <2>2, <2>3, <3>1 DEF Plan
    <3>3. wire[c] # NoMessage => Sound(c, wire[c])'
      BY <1>0, <1>6, <2>1, <3>1 DEF Sent, Sound, Known, Version, Choose, service
    <3> QED BY <3>1, <3>2, <3>3 DEF Sent, Updating
  <2>4. CASE c.op # "rotate"
    <3>1. pc'[c] = "sent" /\ wire'[c] = Message(c, a, 0)
      BY <1>6, <2>4 DEF Choose, Goto, Typed, LocalsTyped
    <3>2. Plan(c)'
      BY <2>1, <2>2, <3>1 DEF Plan, Rotating, Updating
    <3>3. Sound(c, wire[c])'
      BY <1>0, <2>1, <2>4, <3>1, SendSound
    <3> QED BY <2>4, <3>1, <3>2, <3>3 DEF Sent, Updating
  <2> QED BY <2>3, <2>4
<1>7. ASSUME NEW v \in Nat, NEW from, NEW to, pc[c] = from, from \in {"latest", "reread"}, NewVersion(c, v, to),
             \/ to = "prepare" /\ settings[c][subject[c]] < v /\ v <= vault[subject[c]]
             \/ to = "rotate" /\ vault[subject[c]] <= Version(subject[c])
      PROVE  Plan(c)' /\ Sent(c)'
  <2>1. /\ new'[c] = v /\ pc'[c] = to
        /\ UNCHANGED <<vault, ledger, spent, settings, subject, wire, contended>>
    BY <1>7 DEF NewVersion, Goto, Typed, LocalsTyped, service, history
  <2>2. /\ c.op = "rotate" /\ Running(c) /\ \A a \in Aliases : settings[c][a] <= vault[a]
    BY <1>0, <1>7 DEF Plan, Rotating, Running, Ended
  <2>3. Plan(c)'
    BY <1>7, <2>1, <2>2 DEF Plan, Version
  <2>4. wire[c] # NoMessage => Sound(c, wire[c])'
    BY <1>0, <2>1 DEF Sent, Sound, Known, Version
  <2> QED BY <1>7, <2>1, <2>3, <2>4 DEF Sent, Updating
<1>8. CASE ReadLatest(c)
  <2>1. Running(c) /\ pc[c] = "latest" /\ vault[subject[c]] \in Nat
    BY <1>1, <1>8 DEF ReadLatest, Running, Ended
  <2>2. settings[c][subject[c]] \in Nat /\ Known(subject[c], settings[c][subject[c]])
    <3>1. settings[c] # NoText
      BY <2>1 DEF Typed, LocalsUsed
    <3> QED BY <1>1, <1>2, <2>1, <3>1 DEF Versions, TextsKnown
  <2>3. settings[c][subject[c]] <= Version(subject[c]) /\ Version(subject[c]) \in Nat
    BY <1>1, <2>2, KnownBelow, VersionTyped DEF Typed
  <2>4. CASE vault[subject[c]] > settings[c][subject[c]]
    <3>1. NewVersion(c, vault[subject[c]], "prepare")
      BY <1>8, <2>4 DEF ReadLatest, Subject, Loaded
    <3> QED BY <1>7, <2>1, <2>2, <2>4, <3>1
  <2>5. CASE ~ (vault[subject[c]] > settings[c][subject[c]])
    <3>1. NewVersion(c, 0, "rotate")
      BY <1>8, <2>5 DEF ReadLatest, Subject, Loaded
    <3>2. vault[subject[c]] <= Version(subject[c])
      BY <2>1, <2>2, <2>3, <2>5
    <3> QED BY <1>7, <2>1, <3>1, <3>2
  <2> QED BY <2>4, <2>5
<1>9. CASE ReadRotated(c)
  <2>1. pc[c] = "reread" /\ NewVersion(c, vault[subject[c]], "prepare") /\ vault[subject[c]] \in Nat
    BY <1>1, <1>9 DEF ReadRotated, Subject
  <2>2. settings[c][subject[c]] < vault[subject[c]]
    BY <1>0, <2>1 DEF Plan
  <2> QED BY <1>7, <2>1, <2>2
<1>10. CASE RotateVault(c)
  <2>1. /\ pc[c] = "rotate" /\ pc'[c] = "reread" /\ vault' = [vault EXCEPT ![subject[c]] = @ + 1]
        /\ UNCHANGED <<settings, subject, new, wire>>
    BY <1>10 DEF RotateVault, CreateVersion, Subject, Goto, request, Typed, LocalsTyped
  <2>2. c.op = "rotate" /\ Running(c) /\ \A a \in Aliases : settings[c][a] <= vault[a]
    BY <1>0, <2>1 DEF Plan, Rotating, Running, Ended
  <2>3. /\ \A a \in Aliases : settings[c][a] <= vault'[a]
        /\ settings[c][subject[c]] < vault'[subject[c]]
    <3>1. vault \in [Aliases -> Nat]
      BY DEF Typed, StoresTyped
    <3> QED BY <1>1, <1>2, <2>1, <2>2, <3>1
  <2>4. Plan(c)'
    BY <2>1, <2>2, <2>3 DEF Plan
  <2>5. wire'[c] # NoMessage => Sound(c, wire[c])'
    <3>1. PICK m : m = wire[c]
      OBVIOUS
    <3>2. m # NoMessage => m \in Messages /\ Sound(c, m)
      BY <1>0, <3>1 DEF Sent, Typed, LocalsTyped
    <3>3. m # NoMessage => Sound(c, m)'
      BY <1>0, <3>2, SoundKept
    <3> QED BY <2>1, <3>1, <3>3 DEF Sound, Known, Version
  <2> QED BY <2>1, <2>4, <2>5 DEF Sent, Updating
<1>11. CASE Submit(c)
  <2>1. /\ pc[c] = "prepare" /\ pc'[c] = "sent" /\ wire'[c] = Message(c, subject[c], new[c])
        /\ UNCHANGED <<vault, settings, subject, new>>
    BY <1>11 DEF Submit, Subject, Goto, service, Typed, LocalsTyped
  <2>2. /\ c.op = "rotate" /\ Running(c) /\ \A a \in Aliases : settings[c][a] <= vault[a]
        /\ settings[c][subject[c]] < new[c] /\ new[c] <= vault[subject[c]]
    BY <1>0, <2>1 DEF Plan, Rotating, Running, Ended
  <2>3. Plan(c)'
    BY <2>1, <2>2 DEF Plan, Rotating, Updating
  <2>4. Sound(c, wire[c])'
    BY <1>0, <1>1, <2>1, <2>2, SendSound
  <2>5. wire'[c].alias = subject'[c] /\ wire'[c].new = new'[c]
    BY <2>1 DEF Message
  <2> QED BY <2>1, <2>3, <2>4, <2>5 DEF Sent, Updating
<1>12. ASSUME NEW stage, Goto(c, stage),
              UNCHANGED <<vault, ledger, spent, settings, subject, new, wire>>,
              \/ pc[c] \in {"next", "sent"} /\ stage = "next"
              \/ /\ pc[c] = "sent" /\ stage = "update" /\ c.op = "rotate"
                 /\ wire[c] # NoMessage /\ wire[c].accepted
              \/ pc[c] \in {"update"} \cup Updating /\ stage \in Updating
       PROVE  Plan(c)' /\ Sent(c)'
  <2>1. pc'[c] = stage
    BY <1>12 DEF Goto, Typed, LocalsTyped
  <2>2. Running(c) /\ pc[c] # "start"
    BY <1>12 DEF Running, Ended, Updating
  <2>3. \A a \in Aliases : settings[c][a] <= vault[a]
    BY <1>0, <2>2 DEF Plan
  <2>4. stage \in Rotating => c.op = "rotate"
    BY <1>0, <1>12 DEF Plan, Rotating, Updating
  <2>5. stage \in {"next", "update"} \cup Updating
    BY <1>12
  <2>6. Plan(c)'
    BY <1>12, <2>1, <2>3, <2>4, <2>5 DEF Plan, Updating
  <2>7. wire[c] # NoMessage => Sound(c, wire[c])'
    BY <1>0, <1>12 DEF Sent, Sound, Known, Version
  <2> QED BY <1>0, <1>12, <2>1, <2>6, <2>7 DEF Sent, Updating
<1>13. CASE Receive(c)
  <2>1. CASE End(c, "failed")
    BY <1>3, <2>1 DEF Ended
  <2>2. CASE ~ End(c, "failed")
    BY <1>12, <1>13, <2>2 DEF Receive, service, request
  <2> QED BY <2>1, <2>2
<1>14. CASE Finish(c) \/ Fail(c) \/ Kill(c) \/ Replace(c)
  <2>1. \E stage \in Ended : End(c, stage)
    BY <1>14 DEF Finish, Fail, Kill, Replace, Ended
  <2> QED BY <1>3, <2>1
<1>15. CASE ReadText(c)
  <2>1. CASE End(c, "failed")
    BY <1>3, <2>1 DEF Ended
  <2>2. CASE ~ End(c, "failed")
    <3>1. Goto(c, "open") /\ pc[c] = "update" /\ UNCHANGED <<vault, ledger, spent, settings, subject, new, wire>>
      BY <1>15, <2>2 DEF ReadText, service, request
    <3> QED BY <1>12, <3>1 DEF Updating
  <2> QED BY <2>1, <2>2
<1>16. CASE OpenTemp(c)
  <2>1. Goto(c, "write") /\ pc[c] = "open" /\ UNCHANGED <<vault, ledger, spent, settings, subject, new, wire>>
    BY <1>16 DEF OpenTemp, service, request
  <2> QED BY <1>12, <2>1 DEF Updating
<1>17. CASE WriteTemp(c)
  <2>1. Goto(c, "replace") /\ pc[c] = "write" /\ UNCHANGED <<vault, ledger, spent, settings, subject, new, wire>>
    BY <1>17 DEF WriteTemp, service, request
  <2> QED BY <1>12, <2>1 DEF Updating
<1> QED BY <1>4, <1>5, <1>6, <1>8, <1>9, <1>10, <1>11, <1>13, <1>14, <1>15, <1>16, <1>17 DEF Step

LEMMA TextsStep ==
    ASSUME Typed, Versions, NEW c \in Commands, Step(c)
    PROVE  TextsKnown'
<1> USE Constants
<1> HIDE DEF Messages, Texts
<1>0. UNCHANGED <<ledger, spent>> /\ TextsKnown
  BY StepLocal DEF Versions
<1> SUFFICES /\ \A i \in Inodes : disk'[i] \notin Broken => \A a \in Aliases : Known(a, disk'[i][a])
             /\ \A d \in Commands :
                   /\ settings'[d] # NoText => \A a \in Aliases : Known(a, settings'[d][a])
                   /\ text'[d] \notin {NoText, Mixed} => \A a \in Aliases : Known(a, text'[d][a])
  BY <1>0 DEF TextsKnown, Known, Version
<1>1. ASSUME NEW d \in Commands \ {c}
      PROVE  settings'[d] = settings[d] /\ text'[d] = text[d]
  BY StepLocal
<1>2. ASSUME settings'[c] \in {settings[c], NoText} \/ (settings'[c] = disk[path] /\ disk[path] \notin Broken),
             text'[c] \in {text[c], NoText} \/ (text'[c] = disk[path] /\ disk[path] # Truncated)
      PROVE  \A d \in Commands :
                /\ settings'[d] # NoText => \A a \in Aliases : Known(a, settings'[d][a])
                /\ text'[d] \notin {NoText, Mixed} => \A a \in Aliases : Known(a, text'[d][a])
  <2>1. path \in Inodes
    BY DEF Typed, FilesTyped
  <2> QED BY <1>0, <1>1, <1>2, <2>1 DEF TextsKnown
<1>3. ASSUME disk' = disk
      PROVE  \A i \in Inodes : disk'[i] \notin Broken => \A a \in Aliases : Known(a, disk'[i][a])
  BY <1>0, <1>3 DEF TextsKnown
<1>4. ASSUME NEW stage, End(c, stage)
      PROVE  settings'[c] = NoText /\ text'[c] = NoText
  BY <1>4 DEF End, Typed, LocalsTyped
<1>5. CASE Load(c)
  <2>1. disk' = disk
    BY <1>5 DEF Load, files
  <2>2. CASE End(c, "failed")
    BY <1>2, <1>3, <1>4, <2>1, <2>2
  <2>3. CASE ~ End(c, "failed")
    <3>1. settings'[c] = disk[path] /\ disk[path] \notin Broken /\ text'[c] = text[c]
      BY <1>5, <2>3 DEF Load, writer, Typed, LocalsTyped
    <3> QED BY <1>2, <1>3, <2>1, <3>1
  <2> QED BY <2>2, <2>3
<1>6. CASE ReadText(c)
  <2>1. disk' = disk
    BY <1>6 DEF ReadText, files
  <2>2. CASE End(c, "failed")
    BY <1>2, <1>3, <1>4, <2>1, <2>2
  <2>3. CASE ~ End(c, "failed")
    <3>1. text'[c] = disk[path] /\ disk[path] # Truncated /\ settings'[c] = settings[c]
      BY <1>6, <2>3 DEF ReadText, request, Typed, LocalsTyped
    <3> QED BY <1>2, <1>3, <2>1, <3>1
  <2> QED BY <2>2, <2>3
<1>7. CASE OpenTemp(c)
  <2>1. PICK inode \in Inodes : disk' = [disk EXCEPT ![inode] = Truncated]
    BY <1>7 DEF OpenTemp, Typed, FilesTyped
  <2>2. settings' = settings /\ text' = text
    BY <1>7 DEF OpenTemp, request
  <2>3. \A i \in Inodes : disk'[i] \notin Broken => disk'[i] = disk[i]
    BY <2>1 DEF Typed, FilesTyped
  <2>4. \A i \in Inodes : disk'[i] \notin Broken => \A a \in Aliases : Known(a, disk'[i][a])
    BY <1>0, <2>3 DEF TextsKnown
  <2> QED BY <1>2, <2>2, <2>4
<1>8. CASE WriteTemp(c)
  <2>1. /\ pc[c] = "write" /\ settings' = settings /\ text' = text
        /\ \E content \in {Updated(c), Mixed} : disk' = [disk EXCEPT ![fd[c]] = content]
    BY <1>8 DEF WriteTemp, Written, request, writer
  <2>2. text[c] # NoText /\ text[c] \in Texts \cup {Mixed} /\ subject[c] \in Aliases
    BY <2>1 DEF Typed, LocalsUsed, LocalsTyped, Updating
  <2>3. Known(subject[c], new[c])
    <3>1. wire[c] # NoMessage /\ wire[c].accepted /\ wire[c].alias = subject[c] /\ wire[c].new = new[c]
      BY <2>1 DEF Versions, Sent, Updating
    <3>2. Sound(c, wire[c]) /\ c.op = "rotate"
      BY <2>1, <3>1 DEF Versions, Sent, Plan, Rotating, Updating
    <3> QED BY <3>1, <3>2 DEF Sound
  <2>4. ASSUME NEW a \in Aliases, text[c] # Mixed PROVE Known(a, Updated(c)[a])
    <3>1. CASE a = subject[c]
      BY <2>2, <2>3, <2>4, <3>1 DEF Updated, Subject, Texts
    <3>2. CASE a # subject[c]
      <4>1. Updated(c)[a] = text[c][a]
        BY <2>2, <2>4, <3>2 DEF Updated, Subject, Texts
      <4> QED BY <1>0, <2>2, <2>4, <4>1 DEF TextsKnown
    <3> QED BY <3>1, <3>2
  <2>5. \A i \in Inodes : disk'[i] = disk[i] \/ disk'[i] = Mixed \/ disk'[i] = Updated(c)
    BY <2>1 DEF Typed, FilesTyped
  <2>7. text[c] = Mixed => Updated(c) = Mixed
    BY DEF Updated
  <2>6. \A i \in Inodes : disk'[i] \notin Broken => \A a \in Aliases : Known(a, disk'[i][a])
    BY <1>0, <2>4, <2>5, <2>7 DEF TextsKnown
  <2> QED BY <1>2, <2>1, <2>6
<1>9. CASE Start(c) \/ Finish(c) \/ Receive(c) \/ Fail(c) \/ Kill(c) \/ Replace(c)
  <2>1. disk' = disk
    BY <1>9 DEF Start, Finish, Receive, Fail, Kill, Replace, files
  <2>2. CASE \E stage : End(c, stage)
    BY <1>2, <1>3, <1>4, <2>1, <2>2
  <2>3. CASE ~ \E stage : End(c, stage)
    <3>1. settings' = settings /\ text' = text
      BY <1>9, <2>3 DEF Start, Finish, Receive, Fail, Kill, Replace, request, writer
    <3> QED BY <1>2, <1>3, <2>1, <3>1
  <2> QED BY <2>2, <2>3
<1>10. CASE (\E a \in Aliases : Choose(c, a)) \/ ReadLatest(c) \/ RotateVault(c) \/ ReadRotated(c) \/ Submit(c)
  <2>1. disk' = disk /\ settings' = settings /\ text' = text
    BY <1>10 DEF Choose, ReadLatest, RotateVault, CreateVersion, ReadRotated, NewVersion, Submit, files, writer, request
  <2> QED BY <1>2, <1>3, <2>1
<1> QED BY <1>5, <1>6, <1>7, <1>8, <1>9, <1>10 DEF Step

LEMMA VersionsInit == Init => Versions
<1> SUFFICES ASSUME Init PROVE Versions
  OBVIOUS
<1> USE Constants
<1>1. DOMAIN ledger = {}
  BY DEF Init, Ledger!Init
<1>2. TextsKnown
  <2>1. \A i \in Inodes : disk[i] \notin Broken => disk[i] = Configured
    BY DEF Init
  <2> QED BY <1>1, <2>1 DEF Init, TextsKnown, Known
<1>3. VaultAhead
  BY <1>1 DEF VaultAhead
<1>4. \A c \in Commands : Plan(c) /\ Sent(c)
  BY DEF Init, Plan, Sent, Running, Ended, Rotating, Updating
<1> QED BY <1>2, <1>3, <1>4 DEF Versions

LEMMA VersionsNext ==
    ASSUME Typed, Versions, Next PROVE Versions'
<1> USE Constants
<1> HIDE DEF Messages, Texts, Inodes
<1>1. VaultAhead'
  BY Growing
<1>2. ASSUME NEW c \in Commands, Step(c) PROVE Versions'
  <2>1. TextsKnown'
    BY <1>2, TextsStep
  <2>2. ASSUME NEW d \in Commands PROVE Plan(d)' /\ Sent(d)'
    <3>1. CASE d = c
      BY <1>2, <3>1, CommandStep
    <3>2. CASE d # c
      <4>1. /\ pc'[d] = pc[d] /\ settings'[d] = settings[d] /\ subject'[d] = subject[d]
            /\ new'[d] = new[d] /\ wire'[d] = wire[d]
        BY <1>2, <3>2, StepLocal
      <4>2. pc[d] = "rotate" => d \in contended' \/ vault'[subject[d]] = vault[subject[d]]
        <5>1. CASE RotateVault(c)
          <6>1. /\ vault' = [vault EXCEPT ![subject[c]] = @ + 1]
                /\ contended' = contended \cup {e \in Commands \ {c} :
                                      pc[e] = "rotate" /\ subject[e] = subject[c]}
            BY <5>1 DEF RotateVault, CreateVersion, Contend, Subject
          <6>2. CASE subject[d] = subject[c]
            BY <3>2, <6>1, <6>2
          <6>3. CASE subject[d] # subject[c]
            <7>1. subject[d] \in Aliases /\ vault \in [Aliases -> Nat]
              BY DEF Typed, LocalsTyped, StoresTyped
            <7> QED BY <6>1, <6>3, <7>1
          <6> QED BY <6>2, <6>3
        <5>2. CASE ~ RotateVault(c)
          BY <1>2, <5>2 DEF Step, Load, Start, Choose, Finish, ReadLatest, ReadRotated, NewVersion,
             Submit, Receive, ReadText, OpenTemp, WriteTemp, Replace, Fail, Kill, service
        <5> QED BY <5>1, <5>2
      <4> QED BY <4>1, <4>2, PlanKept, SentKept
    <3> QED BY <3>1, <3>2
  <2> QED BY <1>1, <2>1, <2>2 DEF Versions
<1>3. ASSUME UNCHANGED <<disk, settings, text>> PROVE TextsKnown'
  <2>1. \A a \in Aliases, v \in Nat : Known(a, v) => Known(a, v)'
    BY Growing
  <2>2. ASSUME NEW t \in Texts, NEW a \in Aliases PROVE t[a] \in Nat
    BY DEF Texts
  <2>3. /\ \A i \in Inodes : disk[i] \notin Broken => disk[i] \in Texts
        /\ \A d \in Commands :
              /\ settings[d] # NoText => settings[d] \in Texts
              /\ text[d] \notin {NoText, Mixed} => text[d] \in Texts
    BY DEF Typed, FilesTyped, LocalsTyped
  <2>5. ASSUME NEW i \in Inodes, disk[i] \notin Broken, NEW a \in Aliases PROVE Known(a, disk[i][a])'
    <3>1. PICK v \in Nat : v = disk[i][a]
      BY <2>2, <2>3, <2>5
    <3>2. Known(a, v)'
      BY <2>1, <2>5, <3>1 DEF Versions, TextsKnown
    <3> QED BY <1>3, <3>1, <3>2 DEF Known, Version
  <2>6. ASSUME NEW d \in Commands, settings[d] # NoText, NEW a \in Aliases PROVE Known(a, settings[d][a])'
    <3>1. PICK v \in Nat : v = settings[d][a]
      BY <2>2, <2>3, <2>6
    <3>2. Known(a, v)'
      BY <2>1, <2>6, <3>1 DEF Versions, TextsKnown
    <3> QED BY <1>3, <3>1, <3>2 DEF Known, Version
  <2>7. ASSUME NEW d \in Commands, text[d] \notin {NoText, Mixed}, NEW a \in Aliases PROVE Known(a, text[d][a])'
    <3>1. PICK v \in Nat : v = text[d][a]
      BY <2>2, <2>3, <2>7
    <3>2. Known(a, v)'
      BY <2>1, <2>7, <3>1 DEF Versions, TextsKnown
    <3> QED BY <1>3, <3>1, <3>2 DEF Known, Version
  <2> HIDE DEF Known
  <2> QED BY <1>3, <2>5, <2>6, <2>7 DEF TextsKnown
<1>4. ASSUME NEW a \in Aliases, RotateOutside(a) PROVE Versions'
  <2>1. /\ UNCHANGED <<files, request, writer, pc, ledger, spent>> /\ vault' = [vault EXCEPT ![a] = @ + 1]
        /\ contended' = contended \cup {c \in Commands : pc[c] = "rotate" /\ subject[c] = a}
    BY <1>4 DEF RotateOutside, CreateVersion, Contend
  <2>2. TextsKnown'
    BY <1>3, <2>1 DEF files, request, writer
  <2>3. ASSUME NEW d \in Commands PROVE Plan(d)' /\ Sent(d)'
    <3>1. pc[d] = "rotate" => d \in contended' \/ vault'[subject[d]] = vault[subject[d]]
      <4>1. subject[d] \in Aliases /\ vault \in [Aliases -> Nat]
        BY DEF Typed, LocalsTyped, StoresTyped
      <4> QED BY <2>1, <4>1
    <3> QED BY <2>1, <3>1, PlanKept, SentKept DEF request, writer
  <2> QED BY <1>1, <2>2, <2>3 DEF Versions
<1>5. ASSUME NEW c \in Commands, Accept(c) \/ Refuse(c) PROVE Versions'
  <2>1. /\ UNCHANGED <<vault, files, pc, todo, settings, subject, new, writer, kills, history>>
        /\ wire[c] # NoMessage /\ ~ wire[c].accepted
        /\ wire' = [wire EXCEPT ![c] = NoMessage] \/
           (Accept(c) /\ wire' = [wire EXCEPT ![c] = [wire[c] EXCEPT !.accepted = TRUE]])
    BY <1>5 DEF Accept, Refuse, Answer
  <2>2. TextsKnown'
    BY <1>3, <2>1 DEF files, writer
  <2>3. \A d \in Commands : Plan(d)'
    BY <2>1, PlanKept
  <2>4. ASSUME NEW d \in Commands \ {c} PROVE Sent(d)'
    <3>1. wire'[d] = wire[d]
      BY <2>1 DEF Typed, LocalsTyped
    <3> QED BY <2>1, <3>1, SentKept
  <2>5. Sent(c)'
    <3>1. pc[c] \notin {"update"} \cup Updating /\ Sent(c)
      BY <2>1 DEF Versions, Sent
    <3>2. CASE wire' = [wire EXCEPT ![c] = NoMessage]
      <4>1. wire'[c] = NoMessage
        BY <3>2 DEF Typed, LocalsTyped
      <4> QED BY <2>1, <3>1, <4>1 DEF Sent
    <3>3. CASE Accept(c) /\ wire' = [wire EXCEPT ![c] = [wire[c] EXCEPT !.accepted = TRUE]]
      <4>1. PICK m : m = wire[c]
        OBVIOUS
      <4>2. m \in Messages /\ Sound(c, m)
        BY <2>1, <3>1, <4>1 DEF Sent, Typed, LocalsTyped
      <4>3. Sound(c, m)'
        BY <4>2, SoundKept
      <4>4. c.op = "rotate" => m.alias \in DOMAIN ledger' /\ Known(m.alias, m.new)'
        BY <3>3, <4>1, Accepting
      <4>5. wire'[c] = [m EXCEPT !.accepted = TRUE]
        BY <3>3, <4>1 DEF Typed, LocalsTyped
      <4>6. wire'[c].alias = m.alias /\ wire'[c].signed = m.signed /\ wire'[c].new = m.new
        BY <4>2, <4>5 DEF Messages
      <4>7. Sound(c, wire[c])'
        BY <4>3, <4>4, <4>6 DEF Sound, Known, Version
      <4> QED BY <2>1, <3>1, <4>1, <4>6, <4>7 DEF Sent
    <3> QED BY <2>1, <3>2, <3>3
  <2> QED BY <1>1, <2>2, <2>3, <2>4, <2>5 DEF Versions
<1> QED BY <1>2, <1>4, <1>5 DEF Next

-----------------------------------------------------------------------------
(* The theorems about versions *)

LEMMA TypedSame == Typed /\ UNCHANGED vars => Typed'
<1> HIDE DEF Messages, Texts, Inodes
<1> SUFFICES ASSUME Typed, UNCHANGED vars PROVE Typed'
  OBVIOUS
<1> USE DEF vars, service, files, request, writer, history
<1>1. StoresTyped' /\ FilesTyped' /\ RestTyped'
  BY DEF Typed, StoresTyped, FilesTyped, RestTyped
<1>2. LocalsTyped' /\ LocalsUsed' /\ OwnFile'
  BY DEF Typed, LocalsTyped, LocalsUsed, OwnFile, Running
<1> QED BY <1>1, <1>2 DEF Typed

LEMMA VersionsSame == Versions /\ UNCHANGED vars => Versions'
<1> HIDE DEF Messages, Texts, Inodes
<1> SUFFICES ASSUME Versions, UNCHANGED vars PROVE Versions'
  OBVIOUS
<1> USE DEF vars, service, files, request, writer, history
<1>1. TextsKnown' /\ VaultAhead'
  BY DEF Versions, TextsKnown, VaultAhead, Known, Version
<1>2. \A c \in Commands : Plan(c)' /\ Sent(c)'
  BY DEF Versions, Plan, Sent, Sound, Known, Version, Running
<1> QED BY <1>1, <1>2 DEF Versions

LEMMA Inductive == Spec => [](Typed /\ Versions)
<1>1. Init => Typed /\ Versions
  BY InitTyped, VersionsInit
<1>2. Typed /\ Versions /\ [Next]_vars => (Typed /\ Versions)'
  BY NextTyped, VersionsNext, TypedSame, VersionsSame
<1> QED BY <1>1, <1>2, PTL DEF Spec

\* The variables keep their types, and a command what it needs.
THEOREM TypeCorrect == Spec => []TypeOK
BY Inductive, TypedIsTypeOK, PTL

\* The file, the Registry and Vault stay in order, race or not.
THEOREM StoresInOrder == Spec => []KeysInOrder
<1>1. Typed /\ Versions => KeysInOrder
  <2> SUFFICES ASSUME Typed, Versions, NEW a \in DOMAIN ledger
               PROVE  /\ disk[path] \notin Broken =>
                            /\ disk[path][a] <= Version(a)
                            /\ Kid(a, disk[path][a]) \in DOMAIN spent
                      /\ Version(a) <= vault[a]
    BY DEF KeysInOrder
  <2>1. a \in Aliases /\ path \in Inodes
    BY DEF Typed, StoresTyped, FilesTyped
  <2>2. Version(a) <= vault[a]
    BY DEF Versions, VaultAhead
  <2>3. disk[path] \notin Broken => Known(a, disk[path][a])
    BY <2>1 DEF Versions, TextsKnown
  <2> QED BY <2>2, <2>3 DEF Known
<1> QED BY <1>1, Inductive, PTL

\* A key is replaced by newer ones only.
THEOREM Forward == Spec => OnlyForward
<1>1. ASSUME Typed, Versions, Next, NEW a \in DOMAIN ledger, ledger'[a].kid # ledger[a].kid
      PROVE  Version(a)' > Version(a)
  <2>1. CASE \E c \in Commands : Accept(c)
    <3>1. a \in Aliases /\ Version(a) < Version(a)'
      BY <1>1, <2>1, Accepting DEF Typed, StoresTyped
    <3> QED BY <3>1
  <2>2. CASE UNCHANGED ledger
    BY <1>1, <2>2
  <2>3. ASSUME NEW c \in Commands, Step(c) \/ Refuse(c) PROVE UNCHANGED ledger
    BY <1>1, <2>3, StepLocal DEF Refuse
  <2>4. ASSUME NEW b \in Aliases, RotateOutside(b) PROVE UNCHANGED ledger
    BY <2>4 DEF RotateOutside, CreateVersion
  <2> QED BY <1>1, <2>1, <2>2, <2>3, <2>4 DEF Next
<1>2. Typed /\ Versions /\ [Next]_vars =>
        [\A a \in DOMAIN ledger :
            ledger'[a].kid # ledger[a].kid => Version(a)' > Version(a)]_vars
  BY <1>1
<1> QED BY <1>2, Inductive, PTL DEF Spec, OnlyForward

\* Vault creates a version for a command only if the Registry has the latest.
THEOREM NeededVersions == Spec => CreatesWhenNeeded
<1>1. ASSUME Versions, NEW c \in Commands, pc[c] = "rotate"
      PROVE  c \in contended \/ vault[Subject(c)] <= Version(Subject(c))
  BY <1>1 DEF Versions, Plan, Subject
<1>2. Typed /\ Versions /\ [Next]_vars =>
        [\A c \in Commands :
            pc[c] = "rotate" /\ pc'[c] = "reread" =>
               \/ c \in contended
               \/ vault[Subject(c)] <= Version(Subject(c))]_vars
  BY <1>1
<1> QED BY <1>2, Inductive, PTL DEF Spec, CreatesWhenNeeded

-----------------------------------------------------------------------------
(* The file follows the Registry, as long as no two commands update it.      *)

\* What a rotation has to do before it is over.
Begun(c) ==
    c.op = "rotate" =>
       /\ pc[c] \in {"idle", "start", "next"} => todo[c] # {}
       /\ pc[c] \in {"idle", "start", "next", "latest", "rotate", "reread", "prepare"} =>
             wire[c] = NoMessage
       /\ pc[c] = "done" => wire[c] # NoMessage /\ wire[c].accepted

\* A rotation that was accepted and may still be written to the file.
Pending(c) ==
    /\ c.op = "rotate" /\ pc[c] \in {"sent", "update"} \cup Updating
    /\ wire[c] # NoMessage /\ wire[c].accepted

Alone == \A c, d \in Commands : pc[c] \in Updating /\ pc[d] \in Updating => c = d

Copying ==
    \A c \in Commands :
       /\ pc[c] \in Updating => text[c] = disk[path]
       /\ pc[c] \in {"write", "replace"} => fd[c] = temp
       /\ pc[c] = "write" => disk[temp] = Truncated
       /\ pc[c] = "replace" => disk[temp] = Updated(c)

\* What was read from the file, and what is signed, is not ahead of it.
Behind ==
    \A c \in Commands :
       /\ settings[c] # NoText => \A a \in Aliases : settings[c][a] <= disk[path][a]
       /\ wire[c] # NoMessage => wire[c].signed <= disk[path][wire[c].alias]

Owed ==
    /\ \A c \in Commands : Pending(c) => Unwritten(c, wire[c].alias)
    /\ \A c, d \in Commands :
          Pending(c) /\ Pending(d) /\ wire[c].alias = wire[d].alias => c = d

Follows ==
    \A a \in Aliases :
       disk[path][a] = Version(a) \/ \E c \in Commands : Unwritten(c, a)

Faithful == /\ disk[path] \in Texts
            /\ Alone /\ Copying /\ Behind /\ Owed /\ Follows

AllBegun == \A c \in Commands : Begun(c)

LEMMA FollowsInit == Init => AllBegun /\ Faithful
<1> SUFFICES ASSUME Init PROVE AllBegun /\ Faithful
  OBVIOUS
<1> USE Constants
<1>1. AllBegun
  BY DEF Init, AllBegun, Begun
<1>2. disk[path] = Configured /\ DOMAIN ledger = {}
  BY DEF Init, Inodes, Ledger!Init
<1>3. Alone /\ Copying /\ Behind /\ Owed
  BY DEF Init, Alone, Copying, Behind, Owed, Pending, Updating
<1>4. Follows
  BY <1>2 DEF Follows, Version
<1> QED BY <1>1, <1>2, <1>3, <1>4 DEF Faithful

\* The steps of a command that leave the file alone, and a refusal.
LEMMA Quiet ==
    ASSUME Typed, Faithful, NEW c \in Commands, UNCHANGED <<files, ledger>>,
           \A d \in Commands \ {c} :
              /\ pc'[d] = pc[d] /\ settings'[d] = settings[d] /\ subject'[d] = subject[d]
              /\ new'[d] = new[d] /\ wire'[d] = wire[d] /\ text'[d] = text[d]
              /\ fd'[d] = fd[d],
           pc'[c] \notin Updating,
           settings'[c] \in {settings[c], NoText, disk[path]},
           \/ wire'[c] \in {wire[c], NoMessage}
           \/ \E a \in Aliases, v \in Nat :
                 settings[c] # NoText /\ wire'[c] = Message(c, a, v),
           Pending(c)' => Pending(c) /\ wire'[c] = wire[c],
           \A a \in Aliases : Unwritten(c, a) => wire'[c] = wire[c] /\ pc'[c] # "done"
    PROVE  Faithful'
<1> USE Constants
<1> HIDE DEF Messages, Texts, Inodes
<1>1. disk' = disk /\ path' = path /\ temp' = temp /\ disk[path] \in Texts
  BY DEF files, Faithful
<1>2. \A a : Version(a)' = Version(a)
  BY DEF Version
<1>3. Alone'
  BY DEF Faithful, Alone
<1>4. Copying'
  BY <1>1 DEF Faithful, Copying, Updated, Subject, Updating
<1>5. Behind'
  <2>1. ASSUME NEW d \in Commands \ {c}
        PROVE  /\ settings'[d] # NoText => \A a \in Aliases : settings'[d][a] <= disk'[path'][a]
               /\ wire'[d] # NoMessage => wire'[d].signed <= disk'[path'][wire'[d].alias]
    BY <1>1 DEF Faithful, Behind
  <2>2. \A a \in Aliases : disk[path][a] \in Nat
    BY <1>1 DEF Texts
  <2>3. settings'[c] # NoText => \A a \in Aliases : settings'[c][a] <= disk'[path'][a]
    BY <1>1, <2>2 DEF Faithful, Behind
  <2>4. wire'[c] # NoMessage => wire'[c].signed <= disk'[path'][wire'[c].alias]
    <3>1. CASE wire'[c] \in {wire[c], NoMessage}
      BY <1>1, <3>1 DEF Faithful, Behind
    <3>2. ASSUME NEW a \in Aliases, NEW v \in Nat, settings[c] # NoText, wire'[c] = Message(c, a, v)
          PROVE  wire'[c].signed <= disk'[path'][wire'[c].alias]
      <4>1. PICK m : m = Message(c, a, v)
        OBVIOUS
      <4>2. m.alias = a /\ m.signed = settings[c][a]
        BY <3>2, <4>1, MessageTyped
      <4>3. m.signed <= disk[path][m.alias]
        BY <3>2, <4>2 DEF Faithful, Behind
      <4> QED BY <1>1, <3>2, <4>1, <4>3
    <3> QED BY <3>1, <3>2
  <2> QED BY <2>1, <2>3, <2>4 DEF Behind
<1>6. ASSUME NEW d \in Commands, NEW a, Unwritten(d, a), a \in Aliases PROVE Unwritten(d, a)'
  <2>1. wire'[d] = wire[d] /\ pc'[d] # "done"
    <3>1. CASE d = c
      BY <1>6, <3>1
    <3>2. CASE d # c
      BY <1>6, <3>2 DEF Unwritten
    <3> QED BY <3>1, <3>2
  <2> QED BY <1>1, <1>2, <1>6, <2>1 DEF Unwritten
<1>7. ASSUME NEW d \in Commands, Pending(d)' PROVE Pending(d) /\ wire'[d] = wire[d]
  <2>1. CASE d = c
    BY <1>7, <2>1
  <2>2. CASE d # c
    BY <1>7, <2>2 DEF Pending
  <2> QED BY <2>1, <2>2
<1>8. Owed'
  <2>1. ASSUME NEW d \in Commands, Pending(d)' PROVE Unwritten(d, wire[d].alias)'
    <3>1. PICK a : a = wire[d].alias
      OBVIOUS
    <3>2. Unwritten(d, a)
      BY <1>7, <2>1, <3>1 DEF Faithful, Owed
    <3>3. a \in Aliases
      BY <1>7, <2>1, <3>1 DEF Pending, Typed, LocalsTyped, Messages
    <3>4. Unwritten(d, a)' /\ wire'[d] = wire[d]
      BY <1>6, <1>7, <2>1, <3>2, <3>3
    <3> QED BY <3>1, <3>4 DEF Unwritten, Version
  <2>2. ASSUME NEW d \in Commands, NEW e \in Commands, Pending(d)', Pending(e)',
               wire'[d].alias = wire'[e].alias
        PROVE  d = e
    BY <1>7, <2>2 DEF Faithful, Owed
  <2> QED BY <2>1, <2>2 DEF Owed
<1>9. Follows'
  BY <1>1, <1>2, <1>6 DEF Faithful, Follows
<1> QED BY <1>1, <1>3, <1>4, <1>5, <1>8, <1>9 DEF Faithful

\* Every step of a rotation keeps what it has to do.
LEMMA BegunStep ==
    ASSUME Typed, Versions, AllBegun, Next
    PROVE  AllBegun'
<1> USE Constants
<1> HIDE DEF Messages, Texts, Inodes
<1>1. ASSUME NEW c \in Commands, pc'[c] = pc[c], todo'[c] = todo[c],
             \/ wire'[c] = wire[c]
             \/ pc[c] \notin {"done"} /\ wire[c] # NoMessage
      PROVE  Begun(c)'
  BY <1>1 DEF AllBegun, Begun
<1>2. ASSUME NEW c \in Commands, Step(c) PROVE AllBegun'
  <2>1. ASSUME NEW d \in Commands \ {c} PROVE todo'[d] = todo[d]
    BY <1>2 DEF Step, Load, Start, Choose, Finish, ReadLatest, RotateVault, CreateVersion,
       ReadRotated, NewVersion, Submit, Receive, ReadText, OpenTemp, WriteTemp, Replace, Fail, Kill,
       End, request, Typed, LocalsTyped
  <2>2. \A d \in Commands \ {c} : Begun(d)'
    BY <1>1, <1>2, <2>1, StepLocal
  <2>3. ASSUME NEW stage \in {"failed", "killed"}, End(c, stage) PROVE Begun(c)'
    BY <2>3 DEF End, Goto, Typed, LocalsTyped, Begun
  <2>4. ASSUME Load(c) \/ Start(c) PROVE Begun(c)'
    <3>1. CASE \E stage \in {"failed", "killed"} : End(c, stage)
      BY <2>3, <3>1
    <3>2. CASE ~ \E stage \in {"failed", "killed"} : End(c, stage)
      <4>1. pc[c] \in {"idle", "start"} /\ pc'[c] \in {"start", "next"} /\ todo'[c] = todo[c] /\ wire'[c] = wire[c]
        BY <2>4, <3>2 DEF Load, Start, Goto, request, Typed, LocalsTyped
      <4> QED BY <4>1 DEF AllBegun, Begun
    <3> QED BY <3>1, <3>2
  <2>5. ASSUME NEW a \in Aliases, Choose(c, a) PROVE Begun(c)'
    BY <2>5 DEF Choose, Goto, Typed, LocalsTyped, AllBegun, Begun
  <2>6. ASSUME Finish(c) PROVE Begun(c)'
    BY <2>6 DEF Finish, AllBegun, Begun
  <2>7. ASSUME ReadLatest(c) \/ RotateVault(c) \/ ReadRotated(c) PROVE Begun(c)'
    <3>1. pc[c] \in {"latest", "rotate", "reread"} /\ pc'[c] \in {"rotate", "prepare", "reread"} /\ wire' = wire
      BY <2>7 DEF ReadLatest, RotateVault, ReadRotated, NewVersion, CreateVersion, Goto, request, Typed, LocalsTyped
    <3> QED BY <3>1 DEF AllBegun, Begun
  <2>8. ASSUME Submit(c) PROVE Begun(c)'
    BY <2>8 DEF Submit, Goto, Typed, LocalsTyped, Begun
  <2>9. ASSUME Receive(c) PROVE Begun(c)'
    <3>1. CASE End(c, "failed")
      BY <2>3, <3>1
    <3>2. CASE ~ End(c, "failed")
      <4>1. c.op = "rotate" => pc'[c] = "update"
        BY <2>9, <3>2 DEF Receive, Goto, Typed, LocalsTyped
      <4> QED BY <4>1 DEF Begun
    <3> QED BY <3>1, <3>2
  <2>10. ASSUME ReadText(c) \/ Fail(c) \/ Kill(c) PROVE Begun(c)'
    <3>1. CASE \E stage \in {"failed", "killed"} : End(c, stage)
      BY <2>3, <3>1
    <3>2. CASE ~ \E stage \in {"failed", "killed"} : End(c, stage)
      <4>1. pc'[c] = "open"
        BY <2>10, <3>2 DEF ReadText, Fail, Kill, Goto, Typed, LocalsTyped
      <4> QED BY <4>1 DEF Begun
    <3> QED BY <3>1, <3>2
  <2>11. ASSUME OpenTemp(c) \/ WriteTemp(c) PROVE Begun(c)'
    <3>1. pc'[c] \in {"write", "replace"}
      BY <2>11 DEF OpenTemp, WriteTemp, Goto, Typed, LocalsTyped
    <3> QED BY <3>1 DEF Begun
  <2>12. ASSUME Replace(c) PROVE Begun(c)'
    <3>1. CASE End(c, "failed")
      BY <2>3, <3>1
    <3>2. CASE ~ End(c, "failed")
      <4>1. pc[c] = "replace" /\ pc'[c] = "done" /\ wire' = wire
        BY <2>12, <3>2 DEF Replace, End, Goto, Typed, LocalsTyped
      <4> QED BY <4>1 DEF Versions, Sent, Updating, Begun
    <3> QED BY <3>1, <3>2
  <2>13. Begun(c)'
    BY <1>2, <2>4, <2>5, <2>6, <2>7, <2>8, <2>9, <2>10, <2>11, <2>12 DEF Step
  <2> QED BY <2>2, <2>13 DEF AllBegun
<1>3. ASSUME NEW c \in Commands, Accept(c) \/ Refuse(c) PROVE AllBegun'
  <2>1. /\ UNCHANGED <<pc, todo>> /\ wire[c] # NoMessage /\ ~ wire[c].accepted
        /\ \E message : wire' = [wire EXCEPT ![c] = message]
    BY <1>3 DEF Accept, Refuse, Answer
  <2>2. c.op = "rotate" => pc[c] # "done"
    BY <2>1 DEF AllBegun, Begun
  <2>3. Begun(c)'
    BY <2>1, <2>2 DEF AllBegun, Begun
  <2>4. ASSUME NEW d \in Commands \ {c} PROVE Begun(d)'
    <3>1. wire'[d] = wire[d]
      BY <2>1 DEF Typed, LocalsTyped
    <3> QED BY <1>1, <2>1, <3>1
  <2> QED BY <2>3, <2>4 DEF AllBegun
<1>4. ASSUME NEW a \in Aliases, RotateOutside(a) PROVE AllBegun'
  BY <1>1, <1>4 DEF RotateOutside, CreateVersion, request, AllBegun
<1> QED BY <1>2, <1>3, <1>4 DEF Next

\* The steps of a command before and after it updates the file.
LEMMA QuietStep ==
    ASSUME Typed, Versions, AllBegun, Faithful, NEW c \in Commands, Step(c),
           ~ ReadText(c), ~ OpenTemp(c), ~ WriteTemp(c), ~ Replace(c)
    PROVE  Faithful'
<1> USE Constants
<1> HIDE DEF Messages, Texts, Inodes
<1>1. UNCHANGED <<files, ledger>>
  BY StepLocal DEF Step, Load, Start, Choose, Finish, ReadLatest, RotateVault, CreateVersion,
     ReadRotated, NewVersion, Submit, Receive, Fail, Kill
<1>2. ASSUME pc'[c] \notin Updating,
             settings'[c] \in {settings[c], NoText, disk[path]},
             \/ wire'[c] \in {wire[c], NoMessage}
             \/ \E a \in Aliases, v \in Nat :
                   settings[c] # NoText /\ wire'[c] = Message(c, a, v),
             Pending(c)' => Pending(c) /\ wire'[c] = wire[c],
             \A a \in Aliases : Unwritten(c, a) => wire'[c] = wire[c] /\ pc'[c] # "done"
      PROVE  Faithful'
  BY <1>1, <1>2, StepLocal, Quiet
<1>3. Begun(c) /\ Plan(c) /\ Sent(c)
  BY DEF AllBegun, Versions
<1>4. ASSUME NEW stage \in {"failed", "killed"}, End(c, stage) PROVE Faithful'
  <2>1. pc'[c] = stage /\ settings'[c] = NoText /\ wire' = wire
    BY <1>4 DEF End, Goto, Typed, LocalsTyped
  <2>2. ~ Pending(c)' /\ pc'[c] \notin Updating
    BY <2>1 DEF Pending, Updating
  <2> QED BY <1>2, <2>1, <2>2
<1>5. CASE Load(c) \/ Start(c)
  <2>1. CASE \E stage \in {"failed", "killed"} : End(c, stage)
    BY <1>4, <2>1
  <2>2. CASE ~ \E stage \in {"failed", "killed"} : End(c, stage)
    <3>1. /\ pc'[c] \in {"start", "next"} /\ settings'[c] \in {settings[c], disk[path]} /\ wire' = wire
      BY <1>5, <2>2 DEF Load, Start, Goto, request, Typed, LocalsTyped
    <3>2. ~ Pending(c)' /\ pc'[c] \notin Updating
      BY <3>1 DEF Pending, Updating
    <3> QED BY <1>2, <3>1, <3>2
  <2> QED BY <2>1, <2>2
<1>6. ASSUME NEW a \in Aliases, Choose(c, a) PROVE Faithful'
  <2>1. pc[c] = "next" /\ settings' = settings
    BY <1>6 DEF Choose
  <2>2. settings[c] # NoText
    BY <2>1 DEF Typed, LocalsUsed, Running, Ended
  <2>3. CASE c.op = "rotate"
    <3>1. pc'[c] = "latest" /\ wire' = wire
      BY <1>6, <2>3 DEF Choose, Goto, Typed, LocalsTyped
    <3>2. ~ Pending(c)' /\ pc'[c] \notin Updating
      BY <3>1 DEF Pending, Updating
    <3> QED BY <1>2, <2>1, <3>1, <3>2
  <2>4. CASE c.op # "rotate"
    <3>1. pc'[c] = "sent" /\ wire'[c] = Message(c, a, 0) /\ 0 \in Nat
      BY <1>6, <2>4 DEF Choose, Goto, Typed, LocalsTyped
    <3>2. ~ Pending(c)' /\ pc'[c] \notin Updating /\ \A b : ~ Unwritten(c, b)
      BY <2>4, <3>1 DEF Pending, Updating, Unwritten
    <3> QED BY <1>2, <2>1, <2>2, <3>1, <3>2
  <2> QED BY <2>3, <2>4
<1>7. CASE Finish(c)
  <2>1. pc[c] = "next" /\ todo[c] = {} /\ pc'[c] = "done" /\ settings'[c] = NoText /\ wire' = wire
    BY <1>7 DEF Finish, End, Goto, Typed, LocalsTyped
  <2>2. c.op # "rotate"
    BY <1>3, <2>1 DEF Begun
  <2>3. ~ Pending(c)' /\ pc'[c] \notin Updating /\ \A b : ~ Unwritten(c, b)
    BY <2>1, <2>2 DEF Pending, Updating, Unwritten
  <2> QED BY <1>2, <2>1, <2>3
<1>8. CASE ReadLatest(c) \/ RotateVault(c) \/ ReadRotated(c)
  <2>1. /\ pc'[c] \in {"rotate", "prepare", "reread"} /\ settings' = settings /\ wire' = wire
    BY <1>8 DEF ReadLatest, RotateVault, ReadRotated, NewVersion, CreateVersion, Goto, request, Typed, LocalsTyped
  <2>2. ~ Pending(c)' /\ pc'[c] \notin Updating
    BY <2>1 DEF Pending, Updating
  <2> QED BY <1>2, <2>1, <2>2
<1>9. CASE Submit(c)
  <2>1. /\ pc[c] = "prepare" /\ pc'[c] = "sent" /\ settings' = settings
        /\ wire'[c] = Message(c, subject[c], new[c])
    BY <1>9 DEF Submit, Subject, Goto, Typed, LocalsTyped
  <2>2. settings[c] # NoText /\ subject[c] \in Aliases /\ new[c] \in Nat /\ c.op = "rotate"
    BY <1>3, <2>1 DEF Typed, LocalsUsed, LocalsTyped, Running, Ended, Plan, Rotating
  <2>3. wire[c] = NoMessage /\ ~ wire'[c].accepted
    BY <1>3, <2>1, <2>2, MessageTyped DEF Begun
  <2>4. ~ Pending(c)' /\ pc'[c] \notin Updating /\ \A b : ~ Unwritten(c, b)
    BY <2>1, <2>3 DEF Pending, Updating, Unwritten
  <2> QED BY <1>2, <2>1, <2>2, <2>4
<1>10. CASE Receive(c)
  <2>1. CASE End(c, "failed")
    BY <1>4, <2>1
  <2>2. CASE ~ End(c, "failed")
    <3>1. /\ pc[c] = "sent" /\ pc'[c] \in {"update", "next"} /\ settings' = settings /\ wire' = wire
      BY <1>10, <2>2 DEF Receive, Goto, request, Typed, LocalsTyped
    <3>2. pc'[c] \notin Updating /\ (Pending(c)' => Pending(c))
      BY <3>1 DEF Pending, Updating
    <3> QED BY <1>2, <3>1, <3>2
  <2> QED BY <2>1, <2>2
<1>11. CASE Fail(c) \/ Kill(c)
  BY <1>4, <1>11 DEF Fail, Kill
<1> QED BY <1>5, <1>6, <1>7, <1>8, <1>9, <1>10, <1>11 DEF Step

\* The Registry's key of a pending rotation is the one it asked for, and newer
\* than the one in the file.
LEMMA PendingFacts ==
    ASSUME Typed, Versions, Faithful, NEW c \in Commands, Pending(c)
    PROVE  /\ wire[c].alias \in Aliases /\ wire[c].signed \in Nat /\ wire[c].new \in Nat
           /\ disk[path][wire[c].alias] = wire[c].signed
           /\ Version(wire[c].alias) = wire[c].new
           /\ wire[c].signed < wire[c].new
<1> HIDE DEF Texts, Inodes
<1>1. wire[c] \in Messages /\ Sound(c, wire[c]) /\ c.op = "rotate"
  BY DEF Pending, Versions, Sent, Typed, LocalsTyped
<1>2. Unwritten(c, wire[c].alias)
  BY DEF Faithful, Owed
<1> QED BY <1>1, <1>2 DEF Messages, Sound, Unwritten

\* The temporary file is not the file.
LEMMA WritingKeeps ==
    ASSUME Typed, Faithful, NEW c \in Commands,
           ReadText(c) \/ OpenTemp(c) \/ WriteTemp(c)
    PROVE  path' = path /\ disk'[path] = disk[path]
<1> USE Constants
<1> HIDE DEF Messages, Texts, Inodes
<1>1. path' = path /\ path \in Inodes /\ temp \in (Inodes \ {path}) \cup {NoFile}
  BY DEF ReadText, OpenTemp, WriteTemp, files, Typed, FilesTyped
<1>2. disk'[path] = disk[path]
  <2>1. CASE ReadText(c)
    BY <2>1 DEF ReadText, files
  <2>2. CASE OpenTemp(c)
    <3>1. path # c
      BY <2>2 DEF OpenTemp, Typed, OwnFile, Ended
    <3> QED BY <1>1, <2>2, <3>1 DEF OpenTemp, Typed, FilesTyped
  <2>3. CASE WriteTemp(c)
    <3>1. fd[c] = temp /\ fd[c] # NoFile
      BY <2>3 DEF WriteTemp, Faithful, Copying, Typed, LocalsUsed
    <3> QED BY <1>1, <2>3, <3>1 DEF WriteTemp, Typed, FilesTyped
  <2> QED BY <2>1, <2>2, <2>3
<1> QED BY <1>1, <1>2

\* The steps that write the temporary file, and the one that reads the file.
LEMMA WritingStep ==
    ASSUME Typed, Versions, Faithful, NEW c \in Commands, ~ raced',
           ReadText(c) \/ OpenTemp(c) \/ WriteTemp(c)
    PROVE  Faithful'
<1> USE Constants
<1> HIDE DEF Messages, Texts, Inodes
<1>0. Step(c)
  BY DEF Step
<1>1. UNCHANGED <<settings, subject, new, wire, ledger, path>> /\ pc'[c] \in Updating
  <2>1. disk[path] # Truncated
    BY DEF Faithful
  <2> QED BY <2>1 DEF ReadText, OpenTemp, WriteTemp, Goto, request, service, files, Typed, LocalsTyped, Updating
<1>2. pc[c] \in {"update"} \cup Updating /\ path \in Inodes /\ temp \in (Inodes \ {path}) \cup {NoFile}
  BY DEF ReadText, OpenTemp, WriteTemp, Updating, Typed, FilesTyped
<1>3. Alone'
  <2>1. \A d \in Commands \ {c} : pc'[d] \notin Updating
    <3>1. CASE ReadText(c)
      BY <1>0, <3>1, StepLocal DEF ReadText
    <3>2. CASE ~ ReadText(c)
      BY <1>0, <3>2, StepLocal DEF OpenTemp, WriteTemp, Faithful, Alone, Updating
    <3> QED BY <3>1, <3>2
  <2> QED BY <2>1 DEF Alone
<1>4. disk'[path] = disk[path]
  BY WritingKeeps
<1>5. disk'[path'] = disk[path] /\ \A a : Version(a)' = Version(a)
  BY <1>1, <1>4 DEF Version
<1>6. Copying'
  <2>1. /\ text'[c] = disk[path]
        /\ pc'[c] \in {"write", "replace"} => fd'[c] = temp'
        /\ pc'[c] = "write" => disk'[temp'] = Truncated
        /\ pc'[c] = "replace" => disk'[temp'] = Updated(c)'
    <3>1. CASE ReadText(c)
      <4>1. pc'[c] = "open" /\ text'[c] = disk[path]
        BY <3>1 DEF ReadText, Goto, Typed, LocalsTyped, Faithful
      <4> QED BY <4>1
    <3>2. CASE OpenTemp(c)
      <4>1. pc[c] = "open" /\ pc'[c] = "write" /\ text' = text /\ fd'[c] = temp'
        BY <3>2 DEF OpenTemp, Goto, Typed, LocalsTyped
      <4>2. disk'[temp'] = Truncated
        BY <3>2 DEF OpenTemp, Typed, FilesTyped
      <4> QED BY <4>1, <4>2 DEF Faithful, Copying, Updating
    <3>3. CASE WriteTemp(c)
      <4>1. /\ pc[c] = "write" /\ pc'[c] = "replace" /\ text' = text /\ fd' = fd /\ temp' = temp
            /\ \E content \in Written(c) : disk' = [disk EXCEPT ![fd[c]] = content]
        BY <3>3 DEF WriteTemp, Goto, writer, Typed, LocalsTyped
      <4>2. disk[fd[c]] = Truncated /\ fd[c] = temp /\ text[c] = disk[path] /\ fd[c] # NoFile /\ fd[c] \in Inodes
        BY <4>1 DEF Faithful, Copying, Updating, Typed, LocalsUsed, LocalsTyped
      <4>3. disk'[temp'] = Updated(c)
        BY <4>1, <4>2 DEF Written, Typed, FilesTyped
      <4> QED BY <1>1, <4>1, <4>2, <4>3 DEF Updated, Subject
    <3> QED BY <3>1, <3>2, <3>3
  <2>2. \A d \in Commands \ {c} : pc'[d] \notin Updating
    BY <1>1, <1>3 DEF Alone
  <2> QED BY <1>5, <2>1, <2>2 DEF Copying, Updating
<1>7. Behind'
  BY <1>1, <1>5 DEF Faithful, Behind
<1>8. ASSUME NEW d \in Commands PROVE Pending(d)' => Pending(d)
  <2>1. CASE d = c
    BY <1>1, <1>2, <2>1 DEF Pending, Updating
  <2>2. CASE d # c
    BY <1>0, <2>2, StepLocal DEF Pending
  <2> QED BY <2>1, <2>2
<1>9. ASSUME NEW d \in Commands, NEW a, Unwritten(d, a) PROVE Unwritten(d, a)'
  <2>1. pc'[d] # "done"
    <3>1. CASE d = c
      BY <1>1, <3>1 DEF Updating
    <3>2. CASE d # c
      BY <1>0, <1>9, <3>2, StepLocal DEF Unwritten
    <3> QED BY <3>1, <3>2
  <2> QED BY <1>1, <1>5, <1>9, <2>1 DEF Unwritten
<1>10. Owed'
  BY <1>1, <1>8, <1>9 DEF Faithful, Owed, Unwritten, Version
<1>11. Follows'
  BY <1>5, <1>9 DEF Faithful, Follows
<1> QED BY <1>1, <1>3, <1>5, <1>6, <1>7, <1>10, <1>11 DEF Faithful

\* os.replace: the file catches up with the Registry.
LEMMA CatchingUp ==
    ASSUME Typed, Versions, Faithful, NEW c \in Commands, Replace(c)
    PROVE  \E s \in Aliases :
              /\ s = wire[c].alias /\ s = subject[c] /\ Pending(c) /\ c.op = "rotate"
              /\ disk' = disk /\ path' = temp
              /\ disk'[path'] = [disk[path] EXCEPT ![s] = Version(s)]
              /\ disk'[path'] \in Texts /\ disk'[path'][s] = Version(s)
              /\ \A a \in Aliases \ {s} : disk'[path'][a] = disk[path][a]
              /\ \A a \in Aliases : disk[path][a] <= disk'[path'][a] /\ disk[path][a] \in Nat /\ disk'[path'][a] \in Nat
<1> USE Constants
<1> HIDE DEF Messages, Texts, Inodes
<1>0. Step(c)
  BY DEF Step
<1>1. /\ pc[c] = "replace" /\ fd[c] = temp /\ temp # NoFile /\ temp \in Inodes
      /\ text[c] = disk[path] /\ disk[temp] = Updated(c)
  BY DEF Replace, Faithful, Copying, Updating, Typed, LocalsUsed, FilesTyped, LocalsTyped
<1>2. /\ UNCHANGED <<ledger, disk, wire, subject>> /\ path' = temp
      /\ pc'[c] = "done" /\ settings'[c] = NoText
  BY <1>1 DEF Replace, End, Goto, service, Typed, LocalsTyped
<1>3. PICK s : s = wire[c].alias
  OBVIOUS
<1>4. /\ s \in Aliases /\ s = subject[c] /\ wire[c].new = new[c] /\ Pending(c)
      /\ c.op = "rotate"
  BY <1>1, <1>3 DEF Versions, Sent, Plan, Rotating, Updating, Pending, Typed, LocalsTyped
<1>5. disk[path][s] < new[c] /\ new[c] = Version(s) /\ new[c] \in Nat /\ disk[path][s] \in Nat
  BY <1>3, <1>4, PendingFacts
<1>6. disk[path] \in Texts
  BY DEF Faithful
<1>7. disk'[path'] = [disk[path] EXCEPT ![s] = new[c]]
  BY <1>1, <1>2, <1>4, <1>6 DEF Updated, Subject
<1>8. /\ disk'[path'] \in Texts /\ disk'[path'][s] = Version(s)
      /\ \A a \in Aliases \ {s} : disk'[path'][a] = disk[path][a]
      /\ \A a \in Aliases : disk[path][a] <= disk'[path'][a] /\ disk[path][a] \in Nat /\ disk'[path'][a] \in Nat
  <2> USE <1>4, <1>5, <1>6, <1>7 DEF Texts
  <2>1. disk'[path'] \in Texts /\ disk'[path'][s] = Version(s)
    OBVIOUS
  <2>2. \A a \in Aliases \ {s} : disk'[path'][a] = disk[path][a]
    OBVIOUS
  <2>3. \A a \in Aliases : disk[path][a] \in Nat /\ disk'[path'][a] \in Nat
    BY <2>1
  <2>4. ASSUME NEW a \in Aliases PROVE disk[path][a] <= disk'[path'][a]
    BY <2>1, <2>2, <2>3
  <2> QED BY <2>1, <2>2, <2>3, <2>4
<1> QED BY <1>2, <1>3, <1>4, <1>5, <1>7, <1>8

\* What is owed for the other aliases stays as it is.
LEMMA ReplaceStep ==
    ASSUME Typed, Versions, Faithful, NEW c \in Commands, Replace(c)
    PROVE  Faithful'
<1> USE Constants
<1> HIDE DEF Messages, Texts, Inodes
<1>0. Step(c)
  BY DEF Step
<1>1. pc[c] = "replace" /\ temp # NoFile
  BY DEF Replace, Faithful, Copying, Updating, Typed, LocalsUsed
<1>2. /\ UNCHANGED <<ledger, disk, wire, subject>> /\ path' = temp
      /\ pc'[c] = "done" /\ settings'[c] = NoText
  BY <1>1 DEF Replace, End, Goto, service, Typed, LocalsTyped
<1>3. PICK s \in Aliases :
         /\ s = wire[c].alias /\ s = subject[c] /\ Pending(c) /\ c.op = "rotate"
         /\ disk'[path'] \in Texts /\ disk'[path'][s] = Version(s)
         /\ \A a \in Aliases \ {s} : disk'[path'][a] = disk[path][a]
         /\ \A a \in Aliases : disk[path][a] <= disk'[path'][a] /\ disk[path][a] \in Nat /\ disk'[path'][a] \in Nat
  BY CatchingUp
<1>4. \A a : Version(a)' = Version(a)
  BY <1>2 DEF Version
<1>5. \A d \in Commands \ {c} : pc'[d] = pc[d] /\ settings'[d] = settings[d]
  BY <1>0, StepLocal
<1>6. \A d \in Commands : pc'[d] \notin Updating
  BY <1>1, <1>2, <1>5 DEF Faithful, Alone, Updating
<1>7. Alone' /\ Copying'
  BY <1>6 DEF Alone, Copying, Updating
<1>8. Behind'
  <2>1. ASSUME NEW d \in Commands, NEW a \in Aliases, settings'[d] # NoText
        PROVE  settings'[d][a] <= disk'[path'][a]
    <3>1. d # c /\ settings'[d] = settings[d]
      BY <1>2, <1>5, <2>1
    <3>2. settings[d][a] <= disk[path][a] /\ settings[d][a] \in Nat
      BY <2>1, <3>1 DEF Faithful, Behind, Typed, LocalsTyped, Texts
    <3> QED BY <1>3, <3>1, <3>2
  <2>2. ASSUME NEW d \in Commands, wire[d] # NoMessage
        PROVE  wire[d].signed <= disk'[path'][wire[d].alias]
    <3>1. wire[d].alias \in Aliases /\ wire[d].signed \in Nat
      BY <2>2 DEF Typed, LocalsTyped, Messages
    <3>2. wire[d].signed <= disk[path][wire[d].alias]
      BY <2>2 DEF Faithful, Behind
    <3> QED BY <1>3, <3>1, <3>2
  <2> QED BY <1>2, <2>1, <2>2 DEF Behind
<1>9. ASSUME NEW d \in Commands, Pending(d)' PROVE d # c /\ Pending(d)
  BY <1>2, <1>5, <1>9 DEF Pending, Updating
<1>10. ASSUME NEW d \in Commands, NEW a \in Aliases \ {s}, Unwritten(d, a) PROVE Unwritten(d, a)'
  <2>1. d # c
    BY <1>3, <1>10 DEF Unwritten
  <2>2. pc'[d] = pc[d]
    BY <1>5, <2>1
  <2> QED BY <1>2, <1>3, <1>4, <1>10, <2>2 DEF Unwritten
<1>11. Owed'
  <2>1. ASSUME NEW d \in Commands, Pending(d)' PROVE Unwritten(d, wire[d].alias)'
    <3>1. PICK a : a = wire[d].alias
      OBVIOUS
    <3>2. d # c /\ Pending(d) /\ Unwritten(d, a) /\ a \in Aliases /\ wire'[d].alias = a
      BY <1>2, <1>9, <2>1, <3>1, PendingFacts DEF Faithful, Owed
    <3>3. a # s
      BY <1>3, <3>1, <3>2 DEF Faithful, Owed
    <3>4. Unwritten(d, a)'
      BY <1>10, <3>2, <3>3
    <3> QED BY <3>2, <3>4 DEF Unwritten, Version
  <2>2. ASSUME NEW d \in Commands, NEW e \in Commands, Pending(d)', Pending(e)', wire'[d].alias = wire'[e].alias
        PROVE  d = e
    BY <1>2, <1>9, <2>2 DEF Faithful, Owed
  <2> QED BY <2>1, <2>2 DEF Owed
<1>12. Follows'
  <2> SUFFICES ASSUME NEW a \in Aliases
               PROVE  disk'[path'][a] = Version(a)' \/ \E d \in Commands : Unwritten(d, a)'
    BY DEF Follows
  <2>1. CASE a = s
    BY <1>3, <1>4, <2>1
  <2>2. CASE a # s
    BY <1>3, <1>4, <1>10, <2>2 DEF Faithful, Follows
  <2> QED BY <2>1, <2>2
<1> QED BY <1>3, <1>7, <1>8, <1>11, <1>12 DEF Faithful

\* The Registry's keys when it accepts a message: a rotation was signed with
\* the current one.
LEMMA AcceptVersions ==
    ASSUME Typed, Versions, NEW c \in Commands, Accept(c), NEW m, m = wire[c]
    PROVE  /\ \A a \in Aliases : c.op # "rotate" \/ a # m.alias => Version(a)' = Version(a)
           /\ c.op = "rotate" => Version(m.alias) = m.signed /\ Version(m.alias)' = m.new
<1> HIDE DEF Messages, Texts, Inodes
<1>1. m # NoMessage /\ m \in Messages
  BY DEF Accept, Answer, Typed, LocalsTyped
<1>2. m.alias \in Aliases /\ m.signed \in Nat /\ m.new \in Nat
  BY <1>1 DEF Messages
<1> DEFINE k == Kid(m.alias, m.signed)
           n == Kid(m.alias, m.new)
<1>3. k.version = m.signed /\ n.version = m.new
  BY <1>2, KidFacts
<1>4. CASE c.op = "publish" /\ Ledger!Register(m.alias, "client", k, k)
  <2>1. /\ m.alias \notin DOMAIN ledger /\ DOMAIN ledger' = DOMAIN ledger \cup {m.alias}
        /\ ledger'[m.alias].kid = k
        /\ \A a \in DOMAIN ledger : ledger'[a] = ledger[a]
    BY <1>4 DEF Ledger!Register, Ledger!Spend, Ledger!Add
  <2>2. m.signed = Configured[m.alias]
    BY <1>1, <2>1 DEF Versions, Sent, Sound, Known
  <2>3. Version(m.alias)' = m.signed /\ Version(m.alias) = m.signed
    BY <1>3, <2>1, <2>2 DEF Version
  <2>4. \A a \in Aliases \ {m.alias} : Version(a)' = Version(a)
    BY <2>1 DEF Version
  <2> QED BY <1>4, <2>3, <2>4
<1>5. CASE c.op = "rotate" /\ SignedCurrent(m) /\ Ledger!Rotate(m.alias, n, n)
  <2>1. /\ m.alias \in DOMAIN ledger /\ ledger[m.alias].kid = k
        /\ ledger \in [DOMAIN ledger -> Entries]
    BY <1>5 DEF SignedCurrent, Typed, StoresTyped
  <2>2. /\ DOMAIN ledger' = DOMAIN ledger
        /\ \A a \in DOMAIN ledger \ {m.alias} : ledger'[a] = ledger[a]
    BY <1>5, <2>1 DEF Ledger!Rotate
  <2>3. ledger'[m.alias].kid = n
    <3>1. ledger[m.alias] \in Entries
      BY <2>1
    <3>2. ledger'[m.alias] = [ledger[m.alias] EXCEPT !.kid = n, !.key = n]
      BY <1>5, <2>1 DEF Ledger!Rotate
    <3> QED BY <3>1, <3>2 DEF Entries
  <2>4. Version(m.alias) = m.signed /\ Version(m.alias)' = m.new
    BY <1>3, <2>1, <2>2, <2>3 DEF Version
  <2>5. \A a \in Aliases \ {m.alias} : Version(a)' = Version(a)
    BY <2>2 DEF Version
  <2> QED BY <1>5, <2>4, <2>5
<1>6. CASE c.op # "rotate" /\ (UNCHANGED <<ledger, spent>> \/ Ledger!Retire(m.alias))
  <2>1. DOMAIN ledger' = DOMAIN ledger /\ \A a \in DOMAIN ledger : ledger'[a].kid = ledger[a].kid
    <3>1. CASE Ledger!Retire(m.alias)
      <4>1. /\ m.alias \in DOMAIN ledger /\ ledger[m.alias] \in Entries
            /\ ledger' = [ledger EXCEPT ![m.alias] = [ledger[m.alias] EXCEPT !.active = FALSE]]
        BY <3>1 DEF Ledger!Retire, Typed, StoresTyped
      <4>2. [ledger[m.alias] EXCEPT !.active = FALSE].kid = ledger[m.alias].kid
        BY <4>1 DEF Entries
      <4> QED BY <4>1, <4>2 DEF Typed, StoresTyped
    <3> QED BY <1>6, <3>1
  <2> QED BY <1>6, <2>1 DEF Version
<1>7. \/ c.op = "publish" /\ Ledger!Register(m.alias, "client", k, k)
      \/ c.op = "rotate" /\ SignedCurrent(m) /\ Ledger!Rotate(m.alias, n, n)
      \/ c.op # "rotate" /\ (UNCHANGED <<ledger, spent>> \/ Ledger!Retire(m.alias))
  BY DEF Accept
<1> QED BY <1>4, <1>5, <1>6, <1>7

\* A rotation is accepted only while the file names the Registry's key.
LEMMA AcceptSettled ==
    ASSUME Typed, Versions, AllBegun, Faithful, NEW c \in Commands, Accept(c),
           c.op = "rotate", NEW m, m = wire[c]
    PROVE  /\ disk[path][m.alias] = m.signed /\ Version(m.alias) = m.signed
           /\ m.signed < m.new /\ pc[c] # "done"
<1> HIDE DEF Messages, Texts, Inodes
<1>1. m # NoMessage /\ m \in Messages /\ ~ m.accepted
  BY DEF Accept, Answer, Typed, LocalsTyped
<1>2. m.alias \in Aliases /\ m.signed \in Nat /\ m.new \in Nat
  BY <1>1 DEF Messages
<1>3. disk[path] \in Texts /\ disk[path][m.alias] \in Nat
  BY <1>2 DEF Faithful, Texts
<1>4. Version(m.alias) = m.signed /\ m.signed < m.new
  BY <1>1, AcceptVersions DEF Versions, Sent, Sound
<1>5. m.signed <= disk[path][m.alias]
  BY <1>1 DEF Faithful, Behind
<1>6. Known(m.alias, disk[path][m.alias])
  BY <1>2, <1>3, Constants DEF Versions, TextsKnown, Typed, FilesTyped
<1>7. disk[path][m.alias] <= Version(m.alias)
  BY <1>2, <1>6, KnownBelow DEF Typed
<1>8. pc[c] # "done"
  BY <1>1 DEF AllBegun, Begun
<1> QED BY <1>2, <1>3, <1>4, <1>5, <1>7, <1>8

LEMMA AcceptStep ==
    ASSUME Typed, Versions, AllBegun, Faithful, NEW c \in Commands, Accept(c)
    PROVE  Faithful'
<1> USE Constants
<1> HIDE DEF Messages, Texts, Inodes
<1>1. PICK m : m = wire[c]
  OBVIOUS
<1>2. /\ m # NoMessage /\ m \in Messages /\ ~ m.accepted
      /\ wire' = [wire EXCEPT ![c] = [m EXCEPT !.accepted = TRUE]]
      /\ UNCHANGED <<files, pc, settings, subject, new, writer>>
  BY <1>1 DEF Accept, Answer, Typed, LocalsTyped
<1>3. m.alias \in Aliases /\ m.signed \in Nat /\ m.new \in Nat
  BY <1>2 DEF Messages
<1>4. /\ wire'[c] = [m EXCEPT !.accepted = TRUE] /\ \A d \in Commands \ {c} : wire'[d] = wire[d]
      /\ wire'[c] # NoMessage /\ wire'[c].accepted
      /\ wire'[c].alias = m.alias /\ wire'[c].signed = m.signed /\ wire'[c].new = m.new
  <2>1. wire'[c] = [m EXCEPT !.accepted = TRUE] /\ \A d \in Commands \ {c} : wire'[d] = wire[d]
    BY <1>2 DEF Typed, LocalsTyped
  <2>2. [m EXCEPT !.accepted = TRUE] \in Messages
    BY <1>2 DEF Messages
  <2>3. /\ wire'[c].accepted
        /\ wire'[c].alias = m.alias /\ wire'[c].signed = m.signed /\ wire'[c].new = m.new
    BY <1>2, <2>1 DEF Messages
  <2> QED BY <2>1, <2>2, <2>3
<1>5. disk' = disk /\ path' = path /\ temp' = temp /\ disk[path] \in Texts
  BY <1>2 DEF files, Faithful
<1>6. Alone'
  BY <1>2 DEF Faithful, Alone
<1>7. Copying'
  BY <1>2, <1>5 DEF writer, Faithful, Copying, Updated, Subject
<1>8. Behind'
  <2>1. m.signed <= disk[path][m.alias]
    BY <1>1, <1>2 DEF Faithful, Behind
  <2>2. ASSUME NEW d \in Commands, wire'[d] # NoMessage
        PROVE  wire'[d].signed <= disk'[path'][wire'[d].alias]
    <3>1. CASE d = c
      BY <1>4, <1>5, <2>1, <2>2, <3>1
    <3>2. CASE d # c
      BY <1>4, <1>5, <2>2, <3>2 DEF Faithful, Behind
    <3> QED BY <3>1, <3>2
  <2>3. \A d \in Commands : settings'[d] # NoText =>
            \A a \in Aliases : settings'[d][a] <= disk'[path'][a]
    BY <1>2, <1>5 DEF Faithful, Behind
  <2> QED BY <2>2, <2>3 DEF Behind
<1>9. ASSUME c.op = "rotate"
      PROVE  /\ disk[path][m.alias] = m.signed /\ Version(m.alias) = m.signed
             /\ m.signed < m.new /\ pc[c] # "done"
  BY <1>1, <1>9, AcceptSettled
<1>10. \A a \in Aliases : c.op # "rotate" \/ a # m.alias => Version(a)' = Version(a)
  BY <1>1, AcceptVersions
<1>11. c.op = "rotate" => Version(m.alias)' = m.new
  BY <1>1, AcceptVersions
<1>12. ASSUME NEW d \in Commands \ {c}, Pending(d)
       PROVE  c.op = "rotate" => wire[d].alias # m.alias
  <2>1. /\ disk[path][wire[d].alias] = wire[d].signed /\ Version(wire[d].alias) = wire[d].new
        /\ wire[d].signed < wire[d].new /\ wire[d].signed \in Nat
    BY <1>12, PendingFacts
  <2> QED BY <1>3, <1>9, <2>1
<1>13. ASSUME c.op = "rotate" PROVE Unwritten(c, m.alias)'
  BY <1>2, <1>4, <1>5, <1>9, <1>11, <1>13 DEF Unwritten
<1>14. ASSUME NEW d \in Commands \ {c}, NEW a \in Aliases, c.op # "rotate" \/ a # m.alias, Unwritten(d, a)
       PROVE  Unwritten(d, a)'
  BY <1>2, <1>4, <1>5, <1>10, <1>14 DEF Unwritten
<1>15. Owed'
  <2>1. ASSUME NEW d \in Commands, Pending(d)' PROVE Unwritten(d, wire[d].alias)'
    <3>1. CASE d = c
      <4>1. c.op = "rotate"
        BY <2>1, <3>1 DEF Pending
      <4>2. Unwritten(c, m.alias)' /\ wire'[c].alias = m.alias
        BY <1>4, <1>13, <4>1
      <4> QED BY <3>1, <4>2 DEF Unwritten, Version
    <3>2. CASE d # c
      <4>1. PICK a : a = wire[d].alias
        OBVIOUS
      <4>2. Pending(d) /\ wire'[d] = wire[d]
        BY <1>2, <1>4, <2>1, <3>2 DEF Pending
      <4>3. Unwritten(d, a) /\ a \in Aliases /\ (c.op = "rotate" => a # m.alias)
        BY <1>12, <3>2, <4>1, <4>2, PendingFacts DEF Faithful, Owed
      <4>4. Unwritten(d, a)'
        BY <1>14, <3>2, <4>3
      <4> QED BY <4>1, <4>2, <4>4 DEF Unwritten, Version
    <3> QED BY <3>1, <3>2
  <2>2. ASSUME NEW d \in Commands, NEW e \in Commands, Pending(d)', Pending(e)', wire'[d].alias = wire'[e].alias
        PROVE  d = e
    <3>1. ASSUME NEW f \in Commands \ {c}, Pending(f)' PROVE Pending(f) /\ wire'[f] = wire[f]
      BY <1>2, <1>4, <3>1 DEF Pending
    <3>2. Pending(c)' => c.op = "rotate" /\ wire'[c].alias = m.alias
      BY <1>4 DEF Pending
    <3>3. ASSUME NEW f \in Commands \ {c}, Pending(f)', Pending(c)', wire'[f].alias = wire'[c].alias
          PROVE  FALSE
      BY <1>12, <3>1, <3>2, <3>3
    <3>4. CASE d # c /\ e # c
      BY <2>2, <3>1, <3>4 DEF Faithful, Owed
    <3> QED BY <2>2, <3>3, <3>4
  <2> QED BY <2>1, <2>2 DEF Owed
<1>16. Follows'
  <2> SUFFICES ASSUME NEW a \in Aliases
               PROVE  disk'[path'][a] = Version(a)' \/ \E d \in Commands : Unwritten(d, a)'
    BY DEF Follows
  <2>1. CASE c.op = "rotate" /\ a = m.alias
    BY <1>4, <1>13, <2>1
  <2>2. CASE ~ (c.op = "rotate" /\ a = m.alias)
    <3>1. Version(a)' = Version(a)
      BY <1>10, <2>2
    <3>2. CASE disk[path][a] = Version(a)
      BY <1>5, <3>1, <3>2
    <3>3. ASSUME NEW d \in Commands, Unwritten(d, a) PROVE Unwritten(d, a)'
      <4>1. d # c
        BY <1>1, <1>2, <3>3 DEF Unwritten
      <4> QED BY <1>14, <2>2, <3>3, <4>1
    <3> QED BY <3>2, <3>3 DEF Faithful, Follows
  <2> QED BY <2>1, <2>2
<1> QED BY <1>5, <1>6, <1>7, <1>8, <1>15, <1>16 DEF Faithful

\* Nothing but Vault, or nothing at all, changes.
LEMMA FollowsSame ==
    ASSUME Faithful,
           UNCHANGED <<ledger, disk, path, temp, pc, settings, subject, new, wire, text, fd>>
    PROVE  Faithful'
<1>1. \A a : Version(a)' = Version(a)
  BY DEF Version
<1>2. \A c \in Commands, a \in Aliases : Unwritten(c, a)' <=> Unwritten(c, a)
  BY <1>1 DEF Unwritten
<1>3. Alone' /\ Copying' /\ Behind'
  BY DEF Faithful, Alone, Copying, Updated, Subject, Behind
<1>4. Owed'
  BY DEF Faithful, Owed, Pending, Unwritten, Version
<1>5. Follows'
  BY <1>1, <1>2 DEF Faithful, Follows
<1> QED BY <1>3, <1>4, <1>5 DEF Faithful

LEMMA FollowsNext ==
    ASSUME Typed, Versions, AllBegun, raced \/ Faithful, Next
    PROVE  raced' \/ Faithful'
<1> HIDE DEF Messages, Texts, Inodes
<1>1. raced => raced'
  <2> USE DEF history
  <2>1. ASSUME NEW c \in Commands, Step(c) PROVE raced => raced'
    BY <2>1 DEF Step, Load, Start, Choose, Finish, ReadLatest, RotateVault, CreateVersion, ReadRotated,
       NewVersion, Submit, Receive, ReadText, OpenTemp, WriteTemp, Replace, Fail, Kill
  <2>2. ASSUME NEW c \in Commands, Accept(c) \/ Refuse(c) PROVE raced' = raced
    BY <2>2 DEF Accept, Refuse, Answer
  <2>3. ASSUME NEW a \in Aliases, RotateOutside(a) PROVE raced' = raced
    BY <2>3 DEF RotateOutside, CreateVersion
  <2> QED BY <2>1, <2>2, <2>3 DEF Next
<1> SUFFICES ASSUME Faithful, ~ raced' PROVE Faithful'
  BY <1>1
<1>2. ASSUME NEW c \in Commands, Step(c) PROVE Faithful'
  BY <1>2, QuietStep, WritingStep, ReplaceStep
<1>3. ASSUME NEW c \in Commands, Accept(c) PROVE Faithful'
  BY <1>3, AcceptStep
<1>4. ASSUME NEW c \in Commands, Refuse(c) PROVE Faithful'
  <2>1. /\ wire[c] # NoMessage /\ ~ wire[c].accepted /\ wire' = [wire EXCEPT ![c] = NoMessage]
        /\ UNCHANGED <<files, ledger, pc, settings, subject, new, text, fd>>
    BY <1>4 DEF Refuse, Answer, writer
  <2>2. wire'[c] = NoMessage /\ \A d \in Commands \ {c} : wire'[d] = wire[d]
    BY <2>1 DEF Typed, LocalsTyped
  <2>3. pc[c] \notin Updating
    BY <2>1 DEF Versions, Sent
  <2>4. ~ Pending(c)' /\ \A a : ~ Unwritten(c, a)
    BY <2>1, <2>2 DEF Pending, Unwritten
  <2>5. pc'[c] \notin Updating /\ settings'[c] = settings[c]
    BY <2>1, <2>3
  <2> QED BY <2>1, <2>2, <2>4, <2>5, Quiet
<1>5. ASSUME NEW a \in Aliases, RotateOutside(a) PROVE Faithful'
  BY <1>5, FollowsSame DEF RotateOutside, CreateVersion, files, request, writer
<1> QED BY <1>2, <1>3, <1>4, <1>5 DEF Next

IInv == Typed /\ Versions /\ AllBegun /\ (raced \/ Faithful)

LEMMA Faithfully == Spec => []IInv
<1>1. Init => IInv
  BY InitTyped, VersionsInit, FollowsInit DEF IInv
<1>2. IInv /\ [Next]_vars => IInv'
  <2> SUFFICES ASSUME IInv, [Next]_vars PROVE IInv'
    OBVIOUS
  <2> USE DEF IInv
  <2>1. CASE Next
    BY <2>1, NextTyped, VersionsNext, BegunStep, FollowsNext
  <2>2. CASE UNCHANGED vars
    <3>1. Typed' /\ Versions'
      BY <2>2, TypedSame, VersionsSame
    <3>2. AllBegun'
      BY <2>2 DEF AllBegun, Begun, vars, request
    <3>3. raced' \/ Faithful'
      BY <2>2, FollowsSame DEF vars, service, files, request, writer, history
    <3> QED BY <3>1, <3>2, <3>3
  <2> QED BY <2>1, <2>2
<1> QED BY <1>1, <1>2, PTL DEF Spec

\* Without a race of two updates the file names the key that the Registry has,
\* or the one before it because one accepted rotation was not written.
THEOREM FileFollows == Spec => []FileFollowsRegistry
<1>1. IInv => FileFollowsRegistry
  BY DEF IInv, FileFollowsRegistry, Faithful, Follows
<1> QED BY <1>1, Faithfully, PTL

-----------------------------------------------------------------------------
(* The three stores *)

LEMMA KnownAccepted ==
    ASSUME NEW a, NEW v, Known(a, v) PROVE v \in Accepted(a)
<1>1. CASE a \in DOMAIN ledger
  <2>1. Kid(a, v) \in DOMAIN spent /\ Kid(a, v).agent = a /\ Kid(a, v).version = v
    BY <1>1 DEF Known, Kid
  <2> QED BY <2>1 DEF Accepted
<1>2. CASE a \notin DOMAIN ledger
  BY <1>2 DEF Known, Accepted
<1> QED BY <1>1, <1>2

\* The Registry's answer in terms of the stores: a rotation is accepted with
\* its new version, and nothing else has an effect on them.
LEMMA AcceptStores ==
    ASSUME Typed, Versions, NEW c \in Commands, Accept(c), NEW m, m = wire[c]
    PROVE  /\ \A a \in Aliases : c.op # "rotate" \/ a # m.alias => Accepted(a)' = Accepted(a)
           /\ c.op = "rotate" => Accepted(m.alias)' = Accepted(m.alias) \cup {m.new}
<1> HIDE DEF Messages, Texts, Inodes
<1>1. m # NoMessage /\ m \in Messages
  BY DEF Accept, Answer, Typed, LocalsTyped
<1>2. m.alias \in Aliases /\ m.signed \in Nat /\ m.new \in Nat
  BY <1>1 DEF Messages
<1> DEFINE k == Kid(m.alias, m.signed)
           n == Kid(m.alias, m.new)
<1>3. /\ k.version = m.signed /\ n.version = m.new
      /\ k.agent = m.alias /\ n.agent = m.alias
  BY <1>2, KidFacts
<1>4. CASE c.op = "publish" /\ Ledger!Register(m.alias, "client", k, k)
  <2>1. m.alias \notin DOMAIN ledger /\ DOMAIN spent' = DOMAIN spent \cup {k}
    BY <1>4 DEF Ledger!Register, Ledger!Spend, Ledger!Add
  <2>2. m.signed = Configured[m.alias]
    BY <1>1, <2>1 DEF Versions, Sent, Sound, Known
  <2> QED BY <1>3, <1>4, <2>1, <2>2 DEF Accepted
<1>5. CASE c.op = "rotate" /\ Ledger!Rotate(m.alias, n, n)
  <2>1. DOMAIN spent' = DOMAIN spent \cup {n}
    BY <1>5 DEF Ledger!Rotate, Ledger!Spend, Ledger!Add
  <2> QED BY <1>3, <1>5, <2>1 DEF Accepted
<1>6. CASE c.op # "rotate" /\ spent' = spent
  BY <1>6 DEF Accepted
<1>7. \/ c.op = "publish" /\ Ledger!Register(m.alias, "client", k, k)
      \/ c.op = "rotate" /\ Ledger!Rotate(m.alias, n, n)
      \/ c.op # "rotate" /\ spent' = spent
  BY DEF Accept, Ledger!Retire
<1> QED BY <1>4, <1>5, <1>6, <1>7

\* The values of the three stores.
Current == [a \in Aliases |-> Version(a)]
AcceptedBy == [a \in Aliases |-> Accepted(a)]

LEMMA StoresStand ==
    ASSUME UNCHANGED <<ledger, spent>>
    PROVE  UNCHANGED <<Current, AcceptedBy>>
BY DEF Current, AcceptedBy, Version, Accepted

\* An accepted rotation finds the file at the key it replaces.
LEMMA AcceptAccepts ==
    ASSUME IInv, IInv', NEW c \in Commands, Accept(c)
    PROVE  \/ \E a \in Aliases : Stores!Accept(a)
           \/ UNCHANGED <<vault, AcceptedBy, Current, disk[path], raced>>
<1> USE DEF IInv
<1> HIDE DEF Messages, Texts, Inodes
<1>1. PICK m : m = wire[c]
  OBVIOUS
<1>2. m # NoMessage /\ m \in Messages /\ UNCHANGED <<vault, disk, path, raced>>
  BY <1>1 DEF Accept, Answer, files, history, Typed, LocalsTyped
<1>3. m.alias \in Aliases /\ m.signed \in Nat /\ m.new \in Nat
  BY <1>2 DEF Messages
<1>4. CASE c.op # "rotate"
  <2>1. \A a \in Aliases : Version(a)' = Version(a) /\ Accepted(a)' = Accepted(a)
    BY <1>1, <1>4, AcceptVersions, AcceptStores
  <2> QED BY <1>2, <2>1 DEF Current, AcceptedBy
<1>5. CASE c.op = "rotate"
  <2>1. /\ Version(m.alias) = m.signed /\ Version(m.alias)' = m.new
        /\ Accepted(m.alias)' = Accepted(m.alias) \cup {m.new}
        /\ \A a \in Aliases \ {m.alias} : Version(a)' = Version(a) /\ Accepted(a)' = Accepted(a)
    BY <1>1, <1>5, AcceptVersions, AcceptStores
  <2>2. m.signed < m.new /\ m.new <= vault[m.alias] /\ vault[m.alias] \in Nat
    BY <1>1, <1>2, <1>3, <1>5 DEF Versions, Sent, Sound, Typed, StoresTyped
  <2>3. raced \/ disk[path][m.alias] = Version(m.alias)
    BY <1>1, <1>5, <2>1, AcceptSettled
  <2>4. /\ Current' = [Current EXCEPT ![m.alias] = m.new]
        /\ AcceptedBy' = [AcceptedBy EXCEPT ![m.alias] = @ \cup {m.new}]
    BY <1>3, <2>1 DEF Current, AcceptedBy
  <2>5. /\ Current[m.alias] = m.signed /\ m.new \in (Current[m.alias] + 1)..vault[m.alias]
        /\ raced \/ disk[path][m.alias] = Current[m.alias]
    BY <1>3, <2>1, <2>2, <2>3 DEF Current
  <2>6. Stores!Accept(m.alias)
    BY <1>2, <2>4, <2>5 DEF Stores!Accept, Current, AcceptedBy
  <2> QED BY <1>3, <2>6
<1> QED BY <1>4, <1>5

\* A version is created, with or without the tool.
LEMMA CreateCreates ==
    ASSUME Typed, NEW a \in Aliases, CreateVersion(a)
    PROVE  Stores!Create(a)
<1>1. /\ vault' = [vault EXCEPT ![a] = @ + 1]
      /\ UNCHANGED <<ledger, spent, disk, path, raced>>
  BY DEF CreateVersion, files
<1>2. UNCHANGED <<Current, AcceptedBy>>
  BY <1>1, StoresStand
<1> QED BY <1>1, <1>2 DEF Stores!Create, Current, AcceptedBy

\* A command's steps on the file; after a race what it names was accepted.
LEMMA CommandStores ==
    ASSUME IInv, IInv', NEW c \in Commands, Step(c)
    PROVE  Stores!Next \/ UNCHANGED <<vault, AcceptedBy, Current, disk[path], raced>>
<1> USE DEF IInv
<1> HIDE DEF Messages, Texts, Inodes
<1>1. UNCHANGED <<ledger, spent>> /\ UNCHANGED <<Current, AcceptedBy>>
  BY StepLocal, StoresStand
<1>2. CASE RotateVault(c)
  <2>1. subject[c] \in Aliases
    BY DEF Typed, LocalsTyped
  <2>2. Stores!Create(subject[c])
    BY <1>2, <2>1, CreateCreates DEF RotateVault, Subject
  <2> QED BY <2>1, <2>2 DEF Stores!Next
<1>3. CASE ReadText(c)
  <2>1. UNCHANGED <<vault, disk, path>> /\ raced \in BOOLEAN /\ raced' \in BOOLEAN /\ (raced => raced')
    BY <1>3 DEF ReadText, service, files, Typed, RestTyped
  <2>2. CASE raced'
    BY <1>1, <2>1, <2>2 DEF Stores!Next, Stores!Loosen, Current, AcceptedBy
  <2>3. CASE ~ raced'
    BY <1>1, <2>1, <2>3
  <2> QED BY <2>2, <2>3
<1>4. CASE ~ RotateVault(c) /\ ~ ReadText(c)
  <2>1. UNCHANGED <<vault, raced>>
    BY <1>4 DEF Step, Load, Start, Choose, Finish, ReadLatest, ReadRotated, NewVersion, Submit,
       Receive, OpenTemp, WriteTemp, Replace, Fail, Kill, service, history
  <2>2. CASE raced
    <3>1. path' \in Inodes /\ disk' \in [Inodes -> Texts \cup Broken]
      BY DEF Typed, FilesTyped
    <3>2. CASE disk'[path'] \in Broken
      BY <1>1, <2>1, <2>2, <3>2 DEF Stores!Next, Stores!Tear, Current, AcceptedBy
    <3>3. CASE disk'[path'] \notin Broken
      <4>1. \A a \in Aliases : Known(a, disk[path][a])'
        BY <3>1, <3>3 DEF Versions, TextsKnown
      <4>2. ASSUME NEW a \in Aliases PROVE disk'[path'][a] \in AcceptedBy[a]
        <5>1. PICK v : v = disk'[path'][a]
          OBVIOUS
        <5>2. Known(a, v)
          BY <1>1, <4>1, <5>1 DEF Known, Version
        <5> QED BY <5>1, <5>2, KnownAccepted DEF AcceptedBy
      <4>3. DOMAIN (disk'[path']) = Aliases
        BY <3>1, <3>3 DEF Texts
      <4> QED BY <1>1, <2>1, <2>2, <4>2, <4>3 DEF Stores!Next, Stores!Tear, Current, AcceptedBy
    <3> QED BY <3>2, <3>3
  <2>3. CASE Faithful /\ ~ raced
    <3>1. CASE OpenTemp(c) \/ WriteTemp(c)
      BY <1>1, <2>1, <2>3, <3>1, WritingKeeps
    <3>2. CASE Replace(c)
      <4>1. PICK s \in Aliases : disk'[path'] = [disk[path] EXCEPT ![s] = Version(s)]
        BY <2>3, <3>2, CatchingUp
      <4>2. Stores!CatchUp(s)
        BY <1>1, <2>1, <2>3, <4>1 DEF Stores!CatchUp, Current, AcceptedBy
      <4> QED BY <4>2 DEF Stores!Next
    <3>3. CASE ~ OpenTemp(c) /\ ~ WriteTemp(c) /\ ~ Replace(c)
      <4>1. UNCHANGED <<disk, path>>
        BY <1>4, <3>3 DEF Step, Load, Start, Choose, Finish, ReadLatest, ReadRotated, NewVersion,
           Submit, Receive, Fail, Kill, files
      <4> QED BY <1>1, <2>1, <4>1
    <3> QED BY <3>1, <3>2, <3>3
  <2> QED BY <2>2, <2>3
<1> QED BY <1>2, <1>3, <1>4

\* Vault, Registry and file implement the three stores, step by step.
THEOREM StoresMove == Spec => ImplementsStores
<1> HIDE DEF Messages, Texts, Inodes
<1>1. Init => Stores!Init
  <2> SUFFICES ASSUME Init PROVE Stores!Init
    OBVIOUS
  <2>1. disk[path] = Configured /\ ~ raced /\ DOMAIN ledger = {} /\ DOMAIN spent = {}
    BY DEF Init, Inodes, Ledger!Init
  <2>2. \A a \in Aliases : Version(a) = Configured[a] /\ Accepted(a) = {Configured[a]}
    BY <2>1 DEF Version, Accepted
  <2>3. Configured = [a \in Aliases |-> Configured[a]]
    BY RotationAssumption
  <2> QED BY <2>1, <2>2, <2>3 DEF Stores!Init
<1>2. IInv /\ IInv' /\ [Next]_vars => [Stores!Next]_(Stores!stores)
  <2> SUFFICES ASSUME IInv, IInv', [Next]_vars
               PROVE  Stores!Next \/ UNCHANGED <<vault, AcceptedBy, Current, disk[path], raced>>
    BY DEF Stores!stores, AcceptedBy, Current
  <2>1. ASSUME NEW c \in Commands, Step(c)
        PROVE  Stores!Next \/ UNCHANGED <<vault, AcceptedBy, Current, disk[path], raced>>
    BY <2>1, CommandStores
  <2>2. ASSUME NEW c \in Commands, Accept(c)
        PROVE  Stores!Next \/ UNCHANGED <<vault, AcceptedBy, Current, disk[path], raced>>
    BY <2>2, AcceptAccepts DEF Stores!Next
  <2>3. ASSUME UNCHANGED <<vault, ledger, spent, disk, path, raced>>
        PROVE  UNCHANGED <<vault, AcceptedBy, Current, disk[path], raced>>
    BY <2>3, StoresStand
  <2>4. ASSUME NEW c \in Commands, Refuse(c)
        PROVE  UNCHANGED <<vault, AcceptedBy, Current, disk[path], raced>>
    BY <2>3, <2>4 DEF Refuse, Answer, files, history
  <2>5. ASSUME NEW a \in Aliases, RotateOutside(a) PROVE Stores!Next
    BY <2>5, CreateCreates DEF RotateOutside, IInv, Stores!Next
  <2>6. CASE UNCHANGED vars
    BY <2>3, <2>6 DEF vars, service, files, history
  <2> QED BY <2>1, <2>2, <2>4, <2>5, <2>6 DEF Next
<1> QED BY <1>1, <1>2, Faithfully, PTL DEF Spec, ImplementsStores, Stores!Spec
=============================================================================
