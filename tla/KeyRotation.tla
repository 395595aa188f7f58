---------------------------- MODULE KeyRotation ----------------------------
(***************************************************************************)
(* The commands "publish", "rotate" and "revoke" of the SDK                *)
(* (agent_auth/_cli.py, agent_auth/_vault.py): processes that change Vault,*)
(* the Registry and agent-auth.toml one after the other.                   *)
(*                                                                         *)
(* Each command is a record [op, todo, n]: what it does, to which aliases, *)
(* and a number that tells equal ones apart; at most Operators run at a    *)
(* time.  It may fail at every HTTP request, before or after the request   *)
(* took effect, or be killed.  The Registry is the abstract AgentLedger    *)
(* that the module Registry implements, with what its service checks       *)
(* besides; it may act on a request after the command has given up.        *)
(*                                                                         *)
(* A kid is an alias and a version of its Vault key, and so is the public  *)
(* key: Vault draws a new pair for each version and forgets none.  A file  *)
(* holds the key_version of each alias, or nothing yet.  Files are inodes: *)
(* os.replace renames one over another, a descriptor stays with its own.   *)
(***************************************************************************)
EXTENDS Integers, FiniteSets

CONSTANTS Aliases, Commands,
          Operators,        \* bound on the commands running at the same time
          MaxVersion,       \* bound on the versions of a Vault key
          MaxKills,         \* bound on the commands that are killed
          Created,          \* the versions each Vault key has at first
          Configured,       \* the key_versions the operator wrote at first
          Original,         \* the inode he wrote
          Truncated,        \* the content of a file opened for writing
          Mixed,            \* that of one two commands have written
          NoFile, NoText, NoMessage

\* A mutation on its way: the key_version that signs it and the one it asks for.
Messages == [accepted : BOOLEAN, alias : Aliases, signed : Nat, new : Nat]

ASSUME RotationAssumption ==
    /\ Operators \in Nat /\ MaxVersion \in Nat /\ MaxKills \in Nat
    /\ Configured \in [Aliases -> Nat]
    /\ \A c \in Commands : /\ c.op \in {"publish", "rotate", "revoke"}
                           /\ c.todo \in (SUBSET Aliases) \ {{}}
    /\ Created \in [Aliases -> Nat]
    /\ Original \notin Commands /\ NoFile \notin Commands \cup {Original}
    /\ Truncated \notin [Aliases -> Nat] /\ Mixed \notin [Aliases -> Nat]
    /\ NoText \notin [Aliases -> Nat] \cup {Truncated, Mixed}
    /\ NoMessage \notin Messages

VARIABLES vault,      \* external: latest_version of each key
          ledger, spent,   \* external: the Registry
          disk,       \* the content of each inode
          path, temp, \* the inodes of agent-auth.toml and agent-auth.toml.tmp
          pc, todo,
          settings,   \* per command, the key_versions it has loaded
          subject,    \* the alias at hand
          new,        \* new_version
          wire,       \* the mutation that was sent, and what became of it
          text,       \* what _update_key_version has read
          fd,         \* the inode it writes
          kills,
          raced,      \* history: two updates of the file were under way
          contended   \* history: the commands about to rotate a key that
                      \* another rotated meanwhile

service == <<vault, ledger, spent>>
files == <<disk, path, temp>>
request == <<todo, settings, subject, new, wire>>
writer == <<text, fd>>
history == <<raced, contended>>
vars == <<service, files, pc, request, writer, kills, history>>

Kid(a, v) == [agent |-> a, version |-> v]
Kids == [agent : Aliases, version : Nat]
Ledger == INSTANCE AgentLedger
    WITH Agents <- Aliases, Clients <- {"client"}, Keys <- Kids

Texts == [Aliases -> Nat]
Broken == {Truncated, Mixed}
Inodes == Commands \cup {Original}
Ended == {"done", "failed", "killed"}
Updating == {"open", "write", "replace"}
Awaiting == {"start", "latest", "rotate", "reread", "prepare", "sent"}
Stages == {"idle", "next", "update"} \cup Awaiting \cup Updating \cup Ended
Running(c) == pc[c] \notin Ended \cup {"idle"}

Init ==
    /\ vault = Created
    /\ Ledger!Init
    /\ disk = [i \in Inodes |-> IF i = Original THEN Configured ELSE Truncated]
    /\ path = Original /\ temp = NoFile
    /\ pc = [c \in Commands |-> "idle"]
    /\ todo = [c \in Commands |-> c.todo]
    /\ settings = [c \in Commands |-> NoText]
    /\ subject = [c \in Commands |-> CHOOSE a \in c.todo : TRUE]
    /\ new = [c \in Commands |-> 0]
    /\ wire = [c \in Commands |-> NoMessage]
    /\ text = [c \in Commands |-> NoText]
    /\ fd = [c \in Commands |-> NoFile]
    /\ kills = 0 /\ raced = FALSE /\ contended = {}

Goto(c, stage) == pc' = [pc EXCEPT ![c] = stage]

\* The locals go out of scope; a message on its way stays.
End(c, stage) ==
    /\ Goto(c, stage)
    /\ todo' = [todo EXCEPT ![c] = {}]
    /\ settings' = [settings EXCEPT ![c] = NoText]
    /\ new' = [new EXCEPT ![c] = 0]
    /\ text' = [text EXCEPT ![c] = NoText]
    /\ fd' = [fd EXCEPT ![c] = NoFile]
    /\ UNCHANGED <<subject, wire>>

-----------------------------------------------------------------------------
(* The start of a command: Settings.load, then every VaultSigner.start.      *)

\* An empty file, or no TOML, is no configuration (CONFIG_INVALID).
Load(c) ==
    /\ pc[c] = "idle"
    /\ Cardinality({d \in Commands : Running(d)}) < Operators
    /\ IF disk[path] \in Broken
       THEN End(c, "failed")
       ELSE /\ Goto(c, "start")
            /\ settings' = [settings EXCEPT ![c] = disk[path]]
            /\ UNCHANGED <<todo, subject, new, wire, writer>>
    /\ UNCHANGED <<service, files, kills, history>>

\* Mutant: the configured version is not looked up.
HasAnyVersion(a, v) == TRUE

HasVersion(a, v) == v \in 1..vault[a]

\* VAULT_KEY_VERSION_NOT_FOUND if one of the configured versions is missing.
Start(c) ==
    /\ pc[c] = "start"
    /\ IF \A a \in Aliases : HasVersion(a, settings[c][a])
       THEN Goto(c, "next") /\ UNCHANGED <<request, writer>>
       ELSE End(c, "failed")
    /\ UNCHANGED <<service, files, kills, history>>

Message(c, a, version) ==
    [accepted |-> FALSE, alias |-> a, signed |-> settings[c][a], new |-> version]

\* publish without an alias takes one after the other.
Choose(c, a) ==
    /\ pc[c] = "next" /\ a \in todo[c]
    /\ todo' = [todo EXCEPT ![c] = @ \ {a}]
    /\ subject' = [subject EXCEPT ![c] = a]
    /\ IF c.op = "rotate"
       THEN Goto(c, "latest") /\ UNCHANGED wire
       ELSE Goto(c, "sent") /\ wire' = [wire EXCEPT ![c] = Message(c, a, 0)]
    /\ UNCHANGED <<service, files, settings, new, writer, kills, history>>

Finish(c) ==
    /\ pc[c] = "next" /\ todo[c] = {}
    /\ End(c, "done")
    /\ UNCHANGED <<service, files, kills, history>>

-----------------------------------------------------------------------------
(* _rotate *)

Subject(c) == subject[c]
Loaded(c) == settings[c][Subject(c)]

NewVersion(c, v, stage) ==
    /\ new' = [new EXCEPT ![c] = v]
    /\ Goto(c, stage)
    /\ UNCHANGED <<service, files, todo, settings, subject, wire, writer, kills,
                   history>>

\* Mutant: the latest version is not looked at.
RotateAnyway(c) ==
    /\ pc[c] = "latest"
    /\ NewVersion(c, 0, "rotate")

\* A version beyond the configured one is taken for one that a rotation before
\* could not publish.
ReadLatest(c) ==
    LET latest == vault[Subject(c)] IN
    /\ pc[c] = "latest"
    /\ IF latest > Loaded(c) THEN NewVersion(c, latest, "prepare")
                             ELSE NewVersion(c, 0, "rotate")

CreateVersion(a) ==
    /\ vault[a] < MaxVersion
    /\ vault' = [vault EXCEPT ![a] = @ + 1]
    /\ UNCHANGED <<ledger, spent, files, request, writer, kills, raced>>

Contend(a, others) ==
    contended' = contended \cup {c \in others : pc[c] = "rotate" /\ subject[c] = a}

RotateVault(c) ==
    /\ pc[c] = "rotate"
    /\ CreateVersion(Subject(c))
    /\ Contend(Subject(c), Commands \ {c})
    /\ Goto(c, "reread")

\* The second request of VaultSigner.rotate.
ReadRotated(c) ==
    /\ pc[c] = "reread"
    /\ NewVersion(c, vault[Subject(c)], "prepare")

\* new_signer.start, both signatures and the POST.
Submit(c) ==
    /\ pc[c] = "prepare"
    /\ HasVersion(Subject(c), new[c])
    /\ Goto(c, "sent")
    /\ wire' = [wire EXCEPT ![c] = Message(c, Subject(c), new[c])]
    /\ UNCHANGED <<service, files, todo, settings, subject, new, writer, kills,
                   history>>

\* A refused message is gone.
Receive(c) ==
    /\ pc[c] = "sent"
    /\ \/ wire[c] = NoMessage /\ End(c, "failed")
       \/ /\ wire[c] # NoMessage /\ wire[c].accepted
          /\ Goto(c, IF c.op = "rotate" THEN "update" ELSE "next")
          /\ UNCHANGED <<request, writer>>
    /\ UNCHANGED <<service, files, kills, history>>

-----------------------------------------------------------------------------
(* _update_key_version *)

\* CONFIG_UPDATE_FAILED if the section is not there; nobody parses the text.
ReadText(c) ==
    /\ pc[c] = "update"
    /\ raced' = (raced \/ \E d \in Commands \ {c} : pc[d] \in Updating)
    /\ IF disk[path] = Truncated
       THEN End(c, "failed")
       ELSE /\ Goto(c, "open")
            /\ text' = [text EXCEPT ![c] = disk[path]]
            /\ UNCHANGED <<request, fd>>
    /\ UNCHANGED <<service, files, kills, contended>>

\* Mutant: the file is written in place.
OpenInPlace(c) ==
    /\ pc[c] = "open"
    /\ temp' = path
    /\ fd' = [fd EXCEPT ![c] = path]
    /\ disk' = [disk EXCEPT ![path] = Truncated]
    /\ Goto(c, "write")
    /\ UNCHANGED <<service, path, request, text, kills, history>>

\* open(mode "w"): the inode that has the name, or a new one, without content.
OpenTemp(c) ==
    LET inode == IF temp = NoFile THEN c ELSE temp IN
    /\ pc[c] = "open"
    /\ temp' = inode
    /\ fd' = [fd EXCEPT ![c] = inode]
    /\ disk' = [disk EXCEPT ![inode] = Truncated]
    /\ Goto(c, "write")
    /\ UNCHANGED <<service, path, request, text, kills, history>>

\* Mutant: the text is rendered from the settings loaded at the start.
UpdatedSettings(c) == [settings[c] EXCEPT ![Subject(c)] = new[c]]

Updated(c) ==
    IF text[c] = Mixed THEN Mixed ELSE [text[c] EXCEPT ![Subject(c)] = new[c]]

\* From the start of the file: what another has written there meanwhile keeps
\* its end if it is longer.
Written(c) == {Updated(c)} \cup IF disk[fd[c]] = Truncated THEN {} ELSE {Mixed}

WriteTemp(c) ==
    /\ pc[c] = "write"
    /\ \E content \in Written(c) : disk' = [disk EXCEPT ![fd[c]] = content]
    /\ Goto(c, "replace")
    /\ UNCHANGED <<service, path, temp, request, writer, kills, history>>

\* FileNotFoundError if another command has renamed the file already.
Replace(c) ==
    /\ pc[c] = "replace"
    /\ IF temp = NoFile
       THEN End(c, "failed") /\ UNCHANGED files
       ELSE End(c, "done") /\ path' = temp /\ temp' = NoFile /\ UNCHANGED disk
    /\ UNCHANGED <<service, kills, history>>

-----------------------------------------------------------------------------
(* Failures *)

\* VAULT_REQUEST_FAILED, REGISTRY_UNAVAILABLE: the request or its answer is
\* lost; a mutation that was sent may still arrive.
Fail(c) ==
    /\ pc[c] \in Awaiting
    /\ End(c, "failed")
    /\ UNCHANGED <<service, files, kills, history>>

\* Between any two steps, earlier ones being as in Fail; the files stay as
\* they are.
Kill(c) ==
    /\ pc[c] \in {"next", "update"} \cup Updating /\ kills < MaxKills
    /\ kills' = kills + 1
    /\ End(c, "killed")
    /\ UNCHANGED <<service, files, history>>

-----------------------------------------------------------------------------
(* Vault and the Registry *)

\* The key is rotated without this tool.
RotateOutside(a) ==
    /\ CreateVersion(a)
    /\ Contend(a, Commands)
    /\ UNCHANGED pc

\* Mutant: any key the Agent once had will do.
SignedOnce(message) ==
    LET a == message.alias IN
    /\ a \in DOMAIN ledger
    /\ ledger[a].active
    /\ Kid(a, message.signed) \in DOMAIN spent

\* The envelope is signed with the current key of an active Agent.
SignedCurrent(message) ==
    LET a == message.alias IN
    /\ a \in DOMAIN ledger
    /\ ledger[a].active
    /\ ledger[a].kid = Kid(a, message.signed)

Answer(c, message) ==
    /\ wire[c] # NoMessage /\ ~ wire[c].accepted
    /\ wire' = [wire EXCEPT ![c] = message]
    /\ UNCHANGED <<vault, files, pc, todo, settings, subject, new, writer,
                   kills, history>>

Accept(c) ==
    LET a == wire[c].alias
        k == Kid(a, wire[c].signed)
        n == Kid(a, wire[c].new)
    IN  /\ Answer(c, [wire[c] EXCEPT !.accepted = TRUE])
        /\ \/ c.op = "publish" /\ Ledger!Register(a, "client", k, k)
           \/ /\ SignedCurrent(wire[c])
              /\ \/ c.op = "publish" /\ UNCHANGED <<ledger, spent>>
                 \/ c.op = "rotate" /\ Ledger!Rotate(a, n, n)
                 \/ c.op = "revoke" /\ Ledger!Retire(a)

\* For one of these reasons or another: credentials, namespace, time.
Refuse(c) == Answer(c, NoMessage) /\ UNCHANGED <<ledger, spent>>

Step(c) ==
    \/ Load(c) \/ Start(c) \/ (\E a \in Aliases : Choose(c, a)) \/ Finish(c)
    \/ ReadLatest(c) \/ RotateVault(c) \/ ReadRotated(c) \/ Submit(c)
    \/ Receive(c) \/ ReadText(c) \/ OpenTemp(c) \/ WriteTemp(c) \/ Replace(c)
    \/ Fail(c) \/ Kill(c)

Next ==
    \/ \E c \in Commands : Step(c) \/ Accept(c) \/ Refuse(c)
    \/ \E a \in Aliases : RotateOutside(a)

Spec == Init /\ [][Next]_vars

-----------------------------------------------------------------------------
(* Properties *)

\* The type invariant: a command that runs has its settings, a text while it
\* updates the file, a descriptor while it writes one, and the temporary file
\* is never agent-auth.toml itself (_update_key_version).
TypeOK ==
    /\ vault \in [Aliases -> Nat] /\ kills \in 0..MaxKills
    /\ DOMAIN ledger \subseteq Aliases /\ DOMAIN spent \subseteq Kids
    /\ \A a \in DOMAIN ledger : ledger[a].kid \in Kids
    /\ disk \in [Inodes -> Texts \cup Broken]
    /\ path \in Inodes /\ temp \in (Inodes \ {path}) \cup {NoFile}
    /\ pc \in [Commands -> Stages] /\ todo \in [Commands -> SUBSET Aliases]
    /\ settings \in [Commands -> Texts \cup {NoText}]
    /\ subject \in [Commands -> Aliases] /\ new \in [Commands -> Nat]
    /\ wire \in [Commands -> Messages \cup {NoMessage}]
    /\ text \in [Commands -> Texts \cup {NoText, Mixed}]
    /\ fd \in [Commands -> Inodes \cup {NoFile}]
    /\ raced \in BOOLEAN /\ contended \subseteq Commands
    /\ \A c \in Commands : /\ Running(c) <=> settings[c] # NoText
                           /\ pc[c] \in Updating <=> text[c] # NoText
                           /\ pc[c] \in {"write", "replace"} <=> fd[c] # NoFile

Version(a) == IF a \in DOMAIN ledger THEN ledger[a].kid.version
                                     ELSE Configured[a]

\* The rotation c of a was accepted and the file does not say so yet, because
\* c is about to write it, has failed or was killed.
Unwritten(c, a) ==
    LET m == wire[c] IN
    /\ c.op = "rotate" /\ pc[c] # "done"
    /\ m # NoMessage /\ m.accepted /\ m.alias = a
    /\ disk[path][a] = m.signed /\ Version(a) = m.new

\* agent-auth.toml is always whole and names the key that the Registry has of
\* each Agent, or, because one accepted rotation of it was not written (a lost
\* answer, a kill between commit and os.replace), the key before, whatever
\* commands for the other aliases and Agents do meanwhile.  The exception is a
\* race of two updates of the file (_update_key_version is not locked).
FileFollowsRegistry ==
    raced \/ /\ disk[path] \in Texts
             /\ \A a \in Aliases :
                   \/ disk[path][a] = Version(a)
                   \/ \E c \in Commands : Unwritten(c, a)

\* Even after a race the three stores are ordered: a key_version in the file
\* is one the Registry has accepted and not newer than its current one, which
\* exists in Vault.  A crash at any point leaves nobody with a key that the
\* next store does not know.
KeysInOrder ==
    \A a \in DOMAIN ledger :
        /\ disk[path] \notin Broken =>
              /\ disk[path][a] <= Version(a)
              /\ Kid(a, disk[path][a]) \in DOMAIN spent
        /\ Version(a) <= vault[a]

\* The key of an Agent is only ever replaced by a newer version of its Vault
\* key, although concurrent commands choose new_version from what they read
\* earlier and a mutation may arrive after its command has failed.
OnlyForward ==
    [][\A a \in DOMAIN ledger :
          ledger'[a].kid # ledger[a].kid => Version(a)' > Version(a)]_vars

\* "Does not create version after version" (QUICKSTART.md:137): a command has
\* Vault create a version only if the Registry has the latest one, or somebody
\* rotated the key while the command was about to do it (_rotate).
CreatesWhenNeeded ==
    [][\A c \in Commands :
          pc[c] = "rotate" /\ pc'[c] = "reread" =>
             \/ c \in contended
             \/ vault[Subject(c)] <= Version(Subject(c))]_vars

Accepted(a) ==
    {Configured[a]} \cup {k.version : k \in {k \in DOMAIN spent : k.agent = a}}

Stores == INSTANCE KeyStores WITH
    Torn <- Broken, created <- vault, file <- disk[path], loose <- raced,
    accepted <- [a \in Aliases |-> Accepted(a)],
    current <- [a \in Aliases |-> Version(a)]

\* Vault, the Registry and the file move as three stores of one key: the file
\* changes in one rename, of one alias, to the version the Registry has; while
\* an accepted rotation is unwritten no other of that alias is accepted, be it
\* a retry or a message that was under way; whatever is lost or killed.
ImplementsStores == Stores!Spec

\* "If Vault has rotated and the Registry request fails, a retry reuses the
\* unpublished version" (QUICKSTART.md:137): the version that a rotation takes
\* for unpublished is not the Agent's key already (_rotate).
RetryIsUnpublished ==
    \A c \in Commands :
        pc[c] = "prepare" => Kid(Subject(c), new[c]) \notin DOMAIN spent
=============================================================================
