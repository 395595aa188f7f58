------------------------------ MODULE KeyStores ------------------------------
(***************************************************************************)
(* What the commands promise of the three stores that know an Agent's key, *)
(* of which each is changed alone and the last may never come: the key     *)
(* store creates versions, the directory accepts ever newer ones, the file *)
(* catches up at once or not at all.  Until it has, the directory accepts  *)
(* no other.                                                               *)
(*                                                                         *)
(* The promise is loose once two commands have updated the file at the     *)
(* same time: then it may be torn, or name any version that was accepted.  *)
(***************************************************************************)
EXTENDS Integers

CONSTANTS Aliases,
          Torn        \* the contents of a file that is torn

VARIABLES created,    \* per alias, the latest version of its key
          accepted,   \* the versions the directory has accepted
          current,    \* the one it has
          file,       \* the one the file names
          loose

stores == <<created, accepted, current, file, loose>>

Init ==
    /\ file = current
    /\ accepted = [a \in Aliases |-> {current[a]}]
    /\ ~loose

Create(a) ==
    /\ created' = [created EXCEPT ![a] = @ + 1]
    /\ UNCHANGED <<accepted, current, file, loose>>

Accept(a) ==
    /\ loose \/ file[a] = current[a]
    /\ \E v \in (current[a] + 1)..created[a] :
          /\ current' = [current EXCEPT ![a] = v]
          /\ accepted' = [accepted EXCEPT ![a] = @ \cup {v}]
    /\ UNCHANGED <<created, file, loose>>

CatchUp(a) ==
    /\ ~loose
    /\ file' = [file EXCEPT ![a] = current[a]]
    /\ UNCHANGED <<created, accepted, current, loose>>

Loosen ==
    /\ loose'
    /\ UNCHANGED <<created, accepted, current, file>>

Tear ==
    /\ loose
    /\ \/ file' \in Torn
       \/ DOMAIN file' = Aliases /\ \A a \in Aliases : file'[a] \in accepted[a]
    /\ UNCHANGED <<created, accepted, current, loose>>

Next ==
    \/ \E a \in Aliases : Create(a) \/ Accept(a) \/ CatchUp(a)
    \/ Loosen \/ Tear

Spec == Init /\ [][Next]_stores
=============================================================================
