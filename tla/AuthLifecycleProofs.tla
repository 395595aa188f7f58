------------------------ MODULE AuthLifecycleProofs ------------------------
(***************************************************************************)
(* TLAPS proofs about AuthLifecycle, for any number of coroutines and      *)
(* identities.                                                             *)
(***************************************************************************)
EXTENDS AuthLifecycle, TLAPS

-----------------------------------------------------------------------------
(* The invariants *)

NobodyClosing == \A t \in Tasks : pc[t] \notin Closing

\* Until a start and a close overlap, one of them excludes the other.
Apart ==
    ~ disturbed => \/ \A t \in Tasks : pc[t] # "start"
                   \/ NobodyClosing

\* A closed Registry client is only seen by the close that waits for it, or is
\* left by one that was cut short, and then no close that was under way at that
\* moment ends the disturbance.
ClosedIsClosing ==
    registry = "closed" =>
        \/ \E t \in Tasks : pc[t] = "registry"
        \/ disturbed /\ \A t \in Tasks : pc[t] = "http" => t \in cut

\* What a start has opened so far, and what all of them leave behind.
OpenSoFar ==
    ~ disturbed /\ NobodyClosing =>
        /\ started => Usable
        /\ \A t \in Tasks : pc[t] = "start" =>
              /\ http /\ registry = "open" /\ <<t, k[t]>> \in open
              /\ \A n \in Identities : n < k[t] => signers[n] \in open

OneCloses ==
    ~ raced => \A t, u \in Tasks :
                  pc[t] \in Closing /\ pc[u] \in Closing => t = u

\* A signer is in the list only after its own start, and comes there once.
ListedAreStarted ==
    \A n \in DOMAIN vault_signers, t \in Tasks, m \in Identities :
        vault_signers[n] = <<t, m>> =>
            pc[t] # "idle" /\ (pc[t] = "start" => m < k[t])

\* The close that walks through the list has closed what it has passed.
PassedAreClosed ==
    ~ raced =>
        \A t \in Tasks :
           /\ pc[t] = "signers" =>
                 /\ i[t] <= Len(vault_signers) + 1
                 /\ \A n \in DOMAIN vault_signers :
                       n < i[t] => vault_signers[n] \notin open
           /\ pc[t] = "registry" => registry = "closed"

IInv ==
    /\ TypeOK
    /\ Apart /\ ClosedIsClosing /\ OpenSoFar
    /\ OneCloses /\ ListedAreStarted /\ PassedAreClosed /\ NothingOutOfReach

USE DEF Identities, Signers, Closing, Stages

LEMMA InitIInv == Init => IInv
<1> SUFFICES ASSUME Init PROVE IInv
  OBVIOUS
<1> USE LifecycleAssumption DEF Init
<1>1. TypeOK
  <2>1. 1 \in 1..N /\ vault_signers \in Seq(Tasks \X (1..N))
    OBVIOUS
  <2>2. pc \in [Tasks -> Stages] /\ k \in [Tasks -> 1..N] /\ i \in [Tasks -> Nat \ {0}]
    BY <2>1
  <2>3. signers \in [1..N -> (Tasks \X (1..N)) \cup {NoSigner}]
    OBVIOUS
  <2> QED BY <2>1, <2>2, <2>3 DEF TypeOK
<1>2. Apart /\ ClosedIsClosing /\ OneCloses /\ NothingOutOfReach
  BY DEF Apart, ClosedIsClosing, OneCloses, NothingOutOfReach, NobodyClosing
<1>3. OpenSoFar /\ ListedAreStarted /\ PassedAreClosed
  BY DEF OpenSoFar, ListedAreStarted, PassedAreClosed
<1> QED BY <1>1, <1>2, <1>3 DEF IInv

-----------------------------------------------------------------------------
(* Types *)

LEMMA MakeSignerTyped ==
    ASSUME TypeOK, NEW t \in Tasks, NEW n \in Identities, MakeSigner(t, n)
    PROVE  /\ pc' \in [Tasks -> Stages] /\ k' \in [Tasks -> Identities]
           /\ i' \in [Tasks -> Nat \ {0}] /\ open' \subseteq Signers
           /\ disturbed' \in BOOLEAN /\ raced' \in BOOLEAN
<1> USE DEF TypeOK, CloseFrom, Goto, Others
<1>1. <<t, n>> \in Signers
  OBVIOUS
<1>2. CASE CloseFrom(t) /\ UNCHANGED <<k, open>>
  BY <1>2
<1>3. CASE /\ Goto(t, "start") /\ k' = [k EXCEPT ![t] = n]
           /\ open' = open \cup {<<t, n>>}
           /\ disturbed' = (disturbed \/ Others(t, Closing))
           /\ UNCHANGED <<i, raced>>
  BY <1>1, <1>3
<1> QED BY <1>2, <1>3 DEF MakeSigner

LEMMA StepTyped ==
    ASSUME TypeOK, NEW t \in Tasks, Step(t)
    PROVE  TypeOK'
<1> USE LifecycleAssumption DEF TypeOK
<1>1. CASE Start(t)
  <2>1. /\ started' = started /\ vault_signers' = vault_signers /\ signers' = signers
        /\ UNCHANGED <<abandoned, cut, lost>>
        /\ http' \in BOOLEAN /\ registry' \in {"none", "open", "closed"}
    BY <1>1 DEF Start, HttpReopened, clients
  <2>2. CASE started
    BY <2>1, <2>2, <1>1 DEF Start, Goto, clients
  <2>3. CASE ~ started
    <3>1. 1 \in Identities /\ MakeSigner(t, 1)
      BY <2>3, <1>1 DEF Start
    <3> QED BY <2>1, <3>1, MakeSignerTyped
  <2> QED BY <2>2, <2>3
<1>2. CASE SignerStarted(t)
  <2>1. /\ http' = http /\ registry' = registry /\ UNCHANGED <<abandoned, cut, lost>>
        /\ started' \in BOOLEAN
    BY <1>2 DEF SignerStarted
  <2>2. <<t, k[t]>> \in Tasks \X (1..N)
    OBVIOUS
  <2>3. vault_signers' \in Seq(Tasks \X (1..N))
    BY <1>2, <2>2 DEF SignerStarted, Tracked
  <2>4. signers' \in [1..N -> (Tasks \X (1..N)) \cup {NoSigner}]
    BY <1>2, <2>2 DEF SignerStarted
  <2>5. CASE Last(k[t])
    BY <1>2, <2>1, <2>3, <2>4, <2>5 DEF SignerStarted, Goto
  <2>6. CASE ~ Last(k[t])
    <3>1. k[t] + 1 \in Identities
      BY <2>6 DEF Last
    <3>2. MakeSigner(t, k[t] + 1)
      BY <1>2, <2>6 DEF SignerStarted
    <3> QED BY <2>1, <2>3, <2>4, <3>1, <3>2, MakeSignerTyped
  <2> QED BY <2>5, <2>6
<1>3. CASE SignerFails(t)
  BY <1>3 DEF SignerFails, CloseFrom, Goto, clients, Others
<1>4. CASE Cancel(t)
  BY <1>4 DEF Cancel, Goto, clients
<1>5. CASE Close(t)
  BY <1>5 DEF Close, CloseFrom, Goto, clients, Others
<1>6. CASE CloseSigner(t)
  BY <1>6 DEF CloseSigner, history
<1>7. CASE Clear(t)
  <2>1. lost' \in BOOLEAN /\ vault_signers' \in Seq(Tasks \X (1..N))
    BY <1>7 DEF Clear
  <2> HIDE DEF Identities, Signers
  <2>2. /\ registry' \in {"none", "open", "closed"} /\ http' \in BOOLEAN
        /\ pc' \in [Tasks -> Stages]
    BY <1>7 DEF Clear, DropRegistry, Goto
  <2>3. UNCHANGED <<started, signers, open, k, i, abandoned, disturbed, cut, raced>>
    BY <1>7 DEF Clear
  <2> QED BY <2>1, <2>2, <2>3 DEF Signers, Identities
<1>8. CASE RegistryClosed(t)
  BY <1>8 DEF RegistryClosed, DropRegistry, Goto
<1>9. CASE Closed(t)
  BY <1>9 DEF Closed, Goto, clients, Others
<1>10. CASE CutShort(t)
  BY <1>10 DEF CutShort, Goto, clients
<1> QED BY <1>1, <1>2, <1>3, <1>4, <1>5, <1>6, <1>7, <1>8, <1>9, <1>10 DEF Step

-----------------------------------------------------------------------------
(* What the steps of _start do: it is over, waits for a signer, or closes. *)

Opens(t, n) ==
    /\ pc' = [pc EXCEPT ![t] = "start"] /\ k' = [k EXCEPT ![t] = n]
    /\ open' = open \cup {<<t, n>>}
    /\ disturbed' = (disturbed \/ Others(t, Closing))
    /\ UNCHANGED <<i, raced>>

LEMMA StartCases ==
    ASSUME NEW t \in Tasks, Start(t)
    PROVE  /\ pc[t] = "idle"
           /\ UNCHANGED <<started, vault_signers, signers, abandoned, cut, lost>>
           /\ \/ /\ started /\ pc' = [pc EXCEPT ![t] = "ready"]
                 /\ UNCHANGED <<http, registry, open, k, i, disturbed, raced>>
              \/ /\ ~ started /\ http' = TRUE
                 /\ registry' = IF registry = "none" THEN "open" ELSE registry
                 /\ Opens(t, 1) \/ (CloseFrom(t) /\ UNCHANGED <<k, open>>)
BY DEF Start, MakeSigner, Opens, Goto, clients, HttpReopened

LEMMA Listed ==
    ASSUME TypeOK, NEW signer \in Signers,
           vault_signers' = Append(vault_signers, signer)
    PROVE  /\ Len(vault_signers) \in Nat /\ Len(vault_signers') = Len(vault_signers) + 1
           /\ DOMAIN vault_signers = 1..Len(vault_signers)
           /\ DOMAIN vault_signers' = 1..(Len(vault_signers) + 1)
           /\ \A n \in DOMAIN vault_signers : vault_signers'[n] = vault_signers[n]
           /\ vault_signers'[Len(vault_signers) + 1] = signer
BY DEF TypeOK

LEMMA SignerStartedCases ==
    ASSUME NEW t \in Tasks, SignerStarted(t)
    PROVE  /\ pc[t] = "start"
           /\ vault_signers' = Append(vault_signers, <<t, k[t]>>)
           /\ signers' = [signers EXCEPT ![k[t]] = <<t, k[t]>>]
           /\ UNCHANGED <<http, registry, abandoned, cut, lost>>
           /\ \/ /\ k[t] = N /\ started' = TRUE /\ pc' = [pc EXCEPT ![t] = "ready"]
                 /\ UNCHANGED <<open, k, i, disturbed, raced>>
              \/ k[t] # N /\ started' = started /\ Opens(t, k[t] + 1)
              \/ k[t] # N /\ started' = started /\ CloseFrom(t) /\ UNCHANGED <<k, open>>
BY DEF SignerStarted, MakeSigner, Opens, Goto, Tracked, Last

LEMMA SignerStartedLocals ==
    ASSUME TypeOK, NEW t \in Tasks, SignerStarted(t)
    PROVE  /\ \A u \in Tasks \ {t} : pc'[u] = pc[u] /\ k'[u] = k[u] /\ i'[u] = i[u]
           /\ pc'[t] \in {"ready", "start", "signers"}
           /\ pc'[t] = "start" => k'[t] = k[t] + 1 /\ open' = open \cup {<<t, k'[t]>>}
           /\ pc'[t] # "start" => open' = open
           /\ pc'[t] = "signers" => i'[t] = 1
           /\ raced => raced'
<1> USE DEF TypeOK
<1>1. CASE pc' = [pc EXCEPT ![t] = "ready"] /\ UNCHANGED <<open, k, i, raced>>
  BY <1>1
<1>2. CASE Opens(t, k[t] + 1)
  <2>1. pc'[t] = "start" /\ \A u \in Tasks \ {t} : pc'[u] = pc[u]
    BY <1>2 DEF Opens
  <2>2. k'[t] = k[t] + 1 /\ \A u \in Tasks \ {t} : k'[u] = k[u]
    BY <1>2 DEF Opens
  <2>3. open' = open \cup {<<t, k'[t]>>} /\ UNCHANGED <<i, raced>>
    BY <1>2, <2>2 DEF Opens
  <2> QED BY <2>1, <2>2, <2>3
<1>3. CASE CloseFrom(t) /\ UNCHANGED <<k, open>>
  BY <1>3 DEF CloseFrom, Goto
<1> QED BY <1>1, <1>2, <1>3, SignerStartedCases

-----------------------------------------------------------------------------
(* _start *)

LEMMA StepApart ==
    ASSUME TypeOK, Apart, NEW t \in Tasks, Step(t)
    PROVE  Apart'
<1> USE LifecycleAssumption DEF TypeOK, Apart, NobodyClosing
<1>1. CASE Start(t)
  BY <1>1 DEF Start, MakeSigner, CloseFrom, Goto, clients, HttpReopened, Others
<1>2. CASE SignerStarted(t)
  BY <1>2 DEF SignerStarted, MakeSigner, CloseFrom, Goto, Tracked, Last, Others
<1>3. CASE SignerFails(t)
  BY <1>3 DEF SignerFails, CloseFrom, Goto, clients, Others
<1>4. CASE Cancel(t)
  BY <1>4 DEF Cancel, Goto, clients
<1>5. CASE Close(t)
  BY <1>5 DEF Close, CloseFrom, Goto, clients, Others
<1>6. CASE CloseSigner(t)
  BY <1>6 DEF CloseSigner, history
<1>7. CASE Clear(t)
  BY <1>7 DEF Clear, DropRegistry, Goto
<1>8. CASE RegistryClosed(t)
  BY <1>8 DEF RegistryClosed, DropRegistry, Goto
<1>9. CASE Closed(t)
  BY <1>9 DEF Closed, Goto, clients, Others
<1>10. CASE CutShort(t)
  BY <1>10 DEF CutShort, Goto, clients
<1> QED BY <1>1, <1>2, <1>3, <1>4, <1>5, <1>6, <1>7, <1>8, <1>9, <1>10 DEF Step

LEMMA StepClosed ==
    ASSUME TypeOK, ClosedIsClosing, NEW t \in Tasks, Step(t)
    PROVE  ClosedIsClosing'
<1> USE LifecycleAssumption DEF TypeOK, ClosedIsClosing
<1>1. CASE Start(t)
  BY <1>1 DEF Start, MakeSigner, CloseFrom, Goto, clients, HttpReopened, Others
<1>2. CASE SignerStarted(t)
  BY <1>2 DEF SignerStarted, MakeSigner, CloseFrom, Goto, Tracked, Last, Others
<1>3. CASE SignerFails(t)
  BY <1>3 DEF SignerFails, CloseFrom, Goto, clients, Others
<1>4. CASE Cancel(t)
  BY <1>4 DEF Cancel, Goto, clients
<1>5. CASE Close(t)
  BY <1>5 DEF Close, CloseFrom, Goto, clients, Others
<1>6. CASE CloseSigner(t)
  BY <1>6 DEF CloseSigner, history
<1>7. CASE Clear(t)
  BY <1>7 DEF Clear, DropRegistry, Goto
<1>8. CASE RegistryClosed(t)
  BY <1>8 DEF RegistryClosed, DropRegistry, Goto
<1>9. CASE Closed(t)
  BY <1>9 DEF Closed, Goto, clients, Others
<1>10. CASE CutShort(t)
  BY <1>10 DEF CutShort, Goto, clients
<1> QED BY <1>1, <1>2, <1>3, <1>4, <1>5, <1>6, <1>7, <1>8, <1>9, <1>10 DEF Step

LEMMA StepOpen ==
    ASSUME TypeOK, Apart, ClosedIsClosing, OpenSoFar, NEW t \in Tasks, Step(t)
    PROVE  OpenSoFar'
<1> USE LifecycleAssumption DEF TypeOK, Apart, ClosedIsClosing, OpenSoFar, NobodyClosing, Usable
<1>1. CASE Start(t)
  <2>1. CASE started
    BY <1>1, <2>1, StartCases
  <2>2. CASE ~ started /\ Opens(t, 1)
    <3> SUFFICES ASSUME ~ disturbed', NobodyClosing' PROVE OpenSoFar'
      BY DEF OpenSoFar, NobodyClosing
    <3>1. ~ disturbed /\ NobodyClosing /\ registry # "closed"
      <4>1. ~ disturbed /\ \A u \in Tasks \ {t} : pc[u] \notin Closing
        BY <2>2 DEF Opens, Others
      <4>2. pc[t] = "idle"
        BY <1>1, StartCases
      <4> QED BY <4>1, <4>2
    <3>2. ~ started' /\ http' /\ registry' = "open"
      BY <1>1, <2>2, <3>1, StartCases
    <3>3. ASSUME NEW u \in Tasks, pc'[u] = "start"
          PROVE  /\ <<u, k'[u]>> \in open'
                 /\ \A n \in Identities : n < k'[u] => signers'[n] \in open'
      <4>1. CASE u = t
        BY <1>1, <2>2, <4>1, StartCases DEF Opens
      <4>2. CASE u # t
        BY <1>1, <2>2, <3>1, <3>3, <4>2, StartCases DEF Opens
      <4> QED BY <4>1, <4>2
    <3> QED BY <3>2, <3>3
  <2>3. CASE CloseFrom(t)
    BY <1>1, <2>3, StartCases DEF CloseFrom, Goto, Others
  <2> QED BY <1>1, <2>1, <2>2, <2>3, StartCases
<1>2. CASE SignerStarted(t)
  <2>1. CASE CloseFrom(t)
    BY <1>2, <2>1, SignerStartedCases DEF CloseFrom, Goto, Others
  <2>2. CASE (k[t] = N /\ started' = TRUE) \/ Opens(t, k[t] + 1)
    <3> SUFFICES ASSUME ~ disturbed', NobodyClosing' PROVE OpenSoFar'
      BY DEF OpenSoFar, NobodyClosing
    <3>1. ~ disturbed /\ NobodyClosing /\ open \subseteq open'
      BY <1>2, <2>2, SignerStartedCases DEF Opens, Others
    <3>2. /\ http /\ registry = "open" /\ <<t, k[t]>> \in open
          /\ \A n \in Identities : n < k[t] => signers[n] \in open
      BY <1>2, <3>1, SignerStartedCases
    <3>3. /\ http' /\ registry' = "open"
          /\ \A n \in Identities : n = k[t] \/ signers[n] \in open => signers'[n] \in open'
      <4>1. http' /\ registry' = "open"
        BY <1>2, <3>2, SignerStartedCases
      <4>2. signers' = [signers EXCEPT ![k[t]] = <<t, k[t]>>]
        BY <1>2, SignerStartedCases
      <4> QED BY <3>1, <3>2, <4>1, <4>2
    <3>4. started' => Usable'
      <4>1. CASE k[t] = N
        BY <3>2, <3>3, <4>1
      <4>2. CASE k[t] # N
        BY <1>2, <3>1, <3>3, <4>2, SignerStartedCases
      <4> QED BY <4>1, <4>2
    <3>5. ASSUME NEW u \in Tasks, pc'[u] = "start"
          PROVE  /\ <<u, k'[u]>> \in open'
                 /\ \A n \in Identities : n < k'[u] => signers'[n] \in open'
      <4>1. CASE u = t
        <5>1. k'[u] = k[t] + 1 /\ <<u, k'[u]>> \in open'
          BY <1>2, <2>2, <3>5, <4>1, SignerStartedCases, SignerStartedLocals
        <5>2. ASSUME NEW n \in Identities, n < k[t] + 1 PROVE n = k[t] \/ n < k[t]
          BY <5>2
        <5> QED BY <3>2, <3>3, <5>1, <5>2
      <4>2. CASE u # t
        <5>1. k'[u] = k[u] /\ pc[u] = "start"
          BY <1>2, <3>5, <4>2, SignerStartedLocals
        <5> QED BY <3>1, <3>3, <5>1
      <4> QED BY <4>1, <4>2
    <3> QED BY <3>3, <3>4, <3>5
  <2> QED BY <1>2, <2>1, <2>2, SignerStartedCases
<1>3. CASE SignerFails(t)
  BY <1>3 DEF SignerFails, CloseFrom, Goto, clients, Others
<1>4. CASE Cancel(t)
  BY <1>4 DEF Cancel, Goto, clients
<1>5. CASE Close(t)
  BY <1>5 DEF Close, CloseFrom, Goto, clients, Others
<1>6. CASE CloseSigner(t)
  BY <1>6 DEF CloseSigner, history
<1>7. CASE Clear(t)
  BY <1>7 DEF Clear, DropRegistry, Goto
<1>8. CASE RegistryClosed(t)
  BY <1>8 DEF RegistryClosed, DropRegistry, Goto
<1>9. CASE Closed(t)
  BY <1>9 DEF Closed, Goto, clients, Others
<1>10. CASE CutShort(t)
  BY <1>10 DEF CutShort, Goto, clients
<1> QED BY <1>1, <1>2, <1>3, <1>4, <1>5, <1>6, <1>7, <1>8, <1>9, <1>10 DEF Step

-----------------------------------------------------------------------------
(* close *)

LEMMA StepOneCloses ==
    ASSUME TypeOK, OneCloses, NEW t \in Tasks, Step(t)
    PROVE  OneCloses'
<1> USE LifecycleAssumption DEF TypeOK, OneCloses
<1>0. CASE CloseFrom(t)
  BY <1>0 DEF CloseFrom, Goto, Others
<1>11. ASSUME UNCHANGED raced, NEW stage \in {"ready", "start"}, pc' = [pc EXCEPT ![t] = stage]
      PROVE  OneCloses'
  BY <1>11
<1>1. CASE Start(t)
  BY <1>0, <1>1, <1>11, StartCases DEF Opens
<1>2. CASE SignerStarted(t)
  BY <1>0, <1>2, <1>11, SignerStartedCases DEF Opens
<1>3. CASE SignerFails(t)
  BY <1>3 DEF SignerFails, CloseFrom, Goto, clients, Others
<1>4. CASE Cancel(t)
  BY <1>4 DEF Cancel, Goto, clients
<1>5. CASE Close(t)
  BY <1>5 DEF Close, CloseFrom, Goto, clients, Others
<1>6. CASE CloseSigner(t)
  BY <1>6 DEF CloseSigner, history
<1>7. CASE Clear(t)
  BY <1>7 DEF Clear, DropRegistry, Goto
<1>8. CASE RegistryClosed(t)
  BY <1>8 DEF RegistryClosed, DropRegistry, Goto
<1>9. CASE Closed(t)
  BY <1>9 DEF Closed, Goto, clients, Others
<1>10. CASE CutShort(t)
  BY <1>10 DEF CutShort, Goto, clients
<1> QED BY <1>1, <1>2, <1>3, <1>4, <1>5, <1>6, <1>7, <1>8, <1>9, <1>10 DEF Step

LEMMA StepListed ==
    ASSUME TypeOK, ListedAreStarted, NEW t \in Tasks, Step(t)
    PROVE  ListedAreStarted'
<1> USE LifecycleAssumption DEF TypeOK, ListedAreStarted
<1>1. CASE Start(t)
  BY <1>1 DEF Start, MakeSigner, CloseFrom, Goto, clients, HttpReopened, Others
<1>2. CASE SignerStarted(t)
  <2>1. <<t, k[t]>> \in Signers /\ vault_signers' = Append(vault_signers, <<t, k[t]>>)
    BY <1>2, SignerStartedCases
  <2>2. /\ \A u \in Tasks \ {t} : pc'[u] = pc[u] /\ k'[u] = k[u]
        /\ pc[t] = "start" /\ pc'[t] # "idle"
        /\ pc'[t] = "start" => k'[t] = k[t] + 1
    BY <1>2, SignerStartedCases, SignerStartedLocals
  <2>3. ASSUME NEW n \in DOMAIN vault_signers', NEW u \in Tasks, NEW m \in Identities,
               vault_signers'[n] = <<u, m>>
        PROVE  pc'[u] # "idle" /\ (pc'[u] = "start" => m < k'[u])
    <3>1. CASE n \in DOMAIN vault_signers
      <4>1. pc[u] # "idle" /\ (pc[u] = "start" => m < k[u])
        BY <2>1, <2>3, <3>1, Listed
      <4> QED BY <2>2, <4>1
    <3>2. CASE n \notin DOMAIN vault_signers
      <4>1. u = t /\ m = k[t]
        <5>1. n = Len(vault_signers) + 1
          BY <2>1, <3>2, Listed
        <5>2. <<u, m>> = <<t, k[t]>>
          BY <2>1, <2>3, <5>1, Listed
        <5> QED BY <5>2
      <4> QED BY <2>2, <4>1
    <3> QED BY <3>1, <3>2
  <2> QED BY <2>3
<1>3. CASE SignerFails(t)
  BY <1>3 DEF SignerFails, CloseFrom, Goto, clients, Others
<1>4. CASE Cancel(t)
  BY <1>4 DEF Cancel, Goto, clients
<1>5. CASE Close(t)
  BY <1>5 DEF Close, CloseFrom, Goto, clients, Others
<1>6. CASE CloseSigner(t)
  BY <1>6 DEF CloseSigner, history
<1>7. CASE Clear(t)
  BY <1>7 DEF Clear, DropRegistry, Goto
<1>8. CASE RegistryClosed(t)
  BY <1>8 DEF RegistryClosed, DropRegistry, Goto
<1>9. CASE Closed(t)
  BY <1>9 DEF Closed, Goto, clients, Others
<1>10. CASE CutShort(t)
  BY <1>10 DEF CutShort, Goto, clients
<1> QED BY <1>1, <1>2, <1>3, <1>4, <1>5, <1>6, <1>7, <1>8, <1>9, <1>10 DEF Step

LEMMA StepPassed ==
    ASSUME TypeOK, OneCloses, ListedAreStarted, PassedAreClosed, NEW t \in Tasks, Step(t)
    PROVE  PassedAreClosed'
<1> USE LifecycleAssumption DEF TypeOK, OneCloses, ListedAreStarted, PassedAreClosed
<1>1. CASE Start(t)
  BY <1>1 DEF Start, MakeSigner, CloseFrom, Goto, clients, HttpReopened, Others
<1>2. CASE SignerStarted(t)
  <2>1. <<t, k[t]>> \in Signers /\ vault_signers' = Append(vault_signers, <<t, k[t]>>)
    BY <1>2, SignerStartedCases
  <2> SUFFICES ASSUME ~ raced', NEW u \in Tasks
               PROVE  /\ pc'[u] = "signers" =>
                            /\ i'[u] <= Len(vault_signers') + 1
                            /\ \A n \in DOMAIN vault_signers' :
                                  n < i'[u] => vault_signers'[n] \notin open'
                      /\ pc'[u] = "registry" => registry' = "closed"
    OBVIOUS
  <2>2. ~ raced
    BY <1>2, SignerStartedCases DEF Opens, CloseFrom
  <2>3. open' \subseteq open \cup {<<t, k[t] + 1>>}
    BY <1>2, SignerStartedCases DEF Opens, CloseFrom
  <2>4. \A n \in DOMAIN vault_signers : vault_signers[n] # <<t, k[t] + 1>>
    <3> SUFFICES ASSUME NEW n \in DOMAIN vault_signers, vault_signers[n] = <<t, k[t] + 1>>
                 PROVE  FALSE
      OBVIOUS
    <3>1. pc[t] = "start" /\ k[t] \in Nat
      <4>1. pc[t] = "start"
        BY <1>2, SignerStartedCases
      <4> QED BY <4>1
    <3>2. vault_signers[n] \in Tasks \X Identities
      OBVIOUS
    <3>3. k[t] + 1 \in Identities
      BY <3>2
    <3>4. k[t] + 1 < k[t]
      BY <3>1, <3>3
    <3> QED BY <3>1, <3>4
  <2>5. \A n \in DOMAIN vault_signers : vault_signers[n] \notin open => vault_signers[n] \notin open'
    BY <2>3, <2>4
  <2>6. pc'[u] = "registry" => registry' = "closed"
    BY <1>2, <2>2, SignerStartedCases, SignerStartedLocals
  <2>7. ASSUME pc'[u] = "signers"
        PROVE  \/ i'[u] = 1
               \/ pc[u] = "signers" /\ i'[u] = i[u]
    BY <1>2, <2>7, SignerStartedLocals
  <2>8. ASSUME pc'[u] = "signers"
        PROVE  /\ i'[u] \in Nat /\ i'[u] <= Len(vault_signers) + 1
               /\ \A n \in DOMAIN vault_signers :
                     n < i'[u] => vault_signers[n] \notin open
    <3>1. i'[u] = 1 \/ (pc[u] = "signers" /\ i'[u] = i[u])
      BY <2>7, <2>8
    <3>2. CASE pc[u] = "signers" /\ i'[u] = i[u]
      <4>1. i[u] \in Nat
        OBVIOUS
      <4> QED BY <2>2, <3>2, <4>1
    <3>3. CASE i'[u] = 1
      BY <2>1, <3>3, Listed
    <3> QED BY <3>1, <3>2, <3>3
  <2>9. ASSUME pc'[u] = "signers"
        PROVE  /\ i'[u] <= Len(vault_signers') + 1
               /\ \A n \in DOMAIN vault_signers' :
                     n < i'[u] => vault_signers'[n] \notin open'
    <3>1. /\ i'[u] \in Nat /\ i'[u] <= Len(vault_signers) + 1
          /\ \A n \in DOMAIN vault_signers :
                n < i'[u] => vault_signers[n] \notin open'
      BY <2>5, <2>8, <2>9
    <3>2. i'[u] <= Len(vault_signers') + 1
      BY <2>1, <3>1, Listed
    <3>3. ASSUME NEW n \in DOMAIN vault_signers', n < i'[u]
          PROVE  n \in DOMAIN vault_signers /\ vault_signers'[n] = vault_signers[n]
      <4>1. /\ Len(vault_signers) \in Nat
            /\ DOMAIN vault_signers = 1..Len(vault_signers)
            /\ DOMAIN vault_signers' = 1..(Len(vault_signers) + 1)
        BY <2>1, Listed
      <4>2. n \in DOMAIN vault_signers
        BY <3>1, <3>3, <4>1
      <4> QED BY <2>1, <4>2, Listed
    <3> QED BY <3>1, <3>2, <3>3
  <2> QED BY <2>6, <2>9
<1>3. CASE SignerFails(t)
  BY <1>3 DEF SignerFails, CloseFrom, Goto, clients, Others
<1>4. CASE Cancel(t)
  BY <1>4 DEF Cancel, Goto, clients
<1>5. CASE Close(t)
  BY <1>5 DEF Close, CloseFrom, Goto, clients, Others
<1>6. CASE CloseSigner(t)
  BY <1>6 DEF CloseSigner, history
<1>7. CASE Clear(t)
  BY <1>7 DEF Clear, DropRegistry, Goto
<1>8. CASE RegistryClosed(t)
  BY <1>8 DEF RegistryClosed, DropRegistry, Goto
<1>9. CASE Closed(t)
  BY <1>9 DEF Closed, Goto, clients, Others
<1>10. CASE CutShort(t)
  BY <1>10 DEF CutShort, Goto, clients
<1> QED BY <1>1, <1>2, <1>3, <1>4, <1>5, <1>6, <1>7, <1>8, <1>9, <1>10 DEF Step

LEMMA StepReach ==
    ASSUME TypeOK, PassedAreClosed, NothingOutOfReach, NEW t \in Tasks, Step(t)
    PROVE  NothingOutOfReach'
<1> USE LifecycleAssumption DEF TypeOK, PassedAreClosed, NothingOutOfReach, Starting
<1>1. CASE Start(t)
  BY <1>1 DEF Start, MakeSigner, CloseFrom, Goto, clients, HttpReopened, Others
<1>2. CASE SignerStarted(t)
  <2>1. <<t, k[t]>> \in Signers /\ vault_signers' = Append(vault_signers, <<t, k[t]>>)
    BY <1>2, SignerStartedCases
  <2> SUFFICES ASSUME ~ raced'
               PROVE  /\ ~ lost'
                      /\ \A s \in open' \ abandoned' :
                            \/ \E n \in DOMAIN vault_signers' : vault_signers'[n] = s
                            \/ \E u \in Tasks : pc'[u] = "start" /\ s = <<u, k'[u]>>
    OBVIOUS
  <2>2. ~ raced /\ ~ lost'
    BY <1>2, SignerStartedCases DEF Opens, CloseFrom
  <2>3. /\ \A u \in Tasks \ {t} : pc'[u] = pc[u] /\ k'[u] = k[u]
        /\ abandoned' = abandoned
        /\ \A s \in open' : s \in open \/ (pc'[t] = "start" /\ s = <<t, k'[t]>>)
    <3>1. abandoned' = abandoned
      BY <1>2, SignerStartedCases
    <3>2. /\ \A u \in Tasks \ {t} : pc'[u] = pc[u] /\ k'[u] = k[u]
          /\ pc'[t] = "start" => k'[t] = k[t] + 1 /\ open' = open \cup {<<t, k'[t]>>}
          /\ pc'[t] # "start" => open' = open
      BY <1>2, SignerStartedLocals
    <3> QED BY <3>1, <3>2
  <2>4. ASSUME NEW s \in open' \ abandoned'
        PROVE  \/ \E n \in DOMAIN vault_signers' : vault_signers'[n] = s
               \/ \E u \in Tasks : pc'[u] = "start" /\ s = <<u, k'[u]>>
    <3>1. CASE s \notin open
      BY <2>3, <3>1
    <3>2. CASE s \in open
      <4>1. CASE \E n \in DOMAIN vault_signers : vault_signers[n] = s
        <5>1. PICK n \in DOMAIN vault_signers : vault_signers[n] = s
          BY <4>1
        <5>2. /\ Len(vault_signers) \in Nat
              /\ DOMAIN vault_signers = 1..Len(vault_signers)
              /\ DOMAIN vault_signers' = 1..(Len(vault_signers) + 1)
              /\ vault_signers'[n] = vault_signers[n]
          BY <2>1, <5>1, Listed
        <5>3. n \in DOMAIN vault_signers'
          BY <5>1, <5>2
        <5> QED BY <5>1, <5>2, <5>3
      <4>2. CASE \E u \in Tasks : pc[u] = "start" /\ s = <<u, k[u]>>
        <5>1. PICK u \in Tasks : pc[u] = "start" /\ s = <<u, k[u]>>
          BY <4>2
        <5>2. CASE u = t
          <6>1. /\ Len(vault_signers) + 1 \in DOMAIN vault_signers'
                /\ vault_signers'[Len(vault_signers) + 1] = s
            BY <2>1, <5>1, <5>2, Listed
          <6> QED BY <6>1
        <5>3. CASE u # t
          BY <2>3, <5>1, <5>3
        <5> QED BY <5>2, <5>3
      <4> QED BY <2>2, <2>3, <3>2, <4>1, <4>2
    <3> QED BY <3>1, <3>2
  <2> QED BY <2>2, <2>4
<1>3. CASE SignerFails(t)
  BY <1>3 DEF SignerFails, CloseFrom, Goto, clients, Others
<1>4. CASE Cancel(t)
  BY <1>4 DEF Cancel, Goto, clients
<1>5. CASE Close(t)
  BY <1>5 DEF Close, CloseFrom, Goto, clients, Others
<1>6. CASE CloseSigner(t)
  BY <1>6 DEF CloseSigner, history
<1>7. CASE Clear(t)
  <2>1. /\ lost' = (lost \/ \E n \in DOMAIN vault_signers : vault_signers[n] \in open)
        /\ UNCHANGED <<open, k, abandoned, raced>>
        /\ pc[t] = "signers" /\ i[t] > Len(vault_signers)
        /\ \A u \in Tasks : pc[u] = "start" => pc'[u] = "start"
    BY <1>7 DEF Clear, DropRegistry, Goto
  <2>2. ~ raced => \A n \in DOMAIN vault_signers : vault_signers[n] \notin open
    BY <2>1
  <2> QED BY <2>1, <2>2
<1>8. CASE RegistryClosed(t)
  BY <1>8 DEF RegistryClosed, DropRegistry, Goto
<1>9. CASE Closed(t)
  BY <1>9 DEF Closed, Goto, clients, Others
<1>10. CASE CutShort(t)
  BY <1>10 DEF CutShort, Goto, clients
<1> QED BY <1>1, <1>2, <1>3, <1>4, <1>5, <1>6, <1>7, <1>8, <1>9, <1>10 DEF Step

-----------------------------------------------------------------------------
(* The theorems *)

LEMMA NextIInv == IInv /\ [Next]_vars => IInv'
<1> SUFFICES ASSUME IInv, [Next]_vars PROVE IInv'
  OBVIOUS
<1>1. ASSUME NEW t \in Tasks, Step(t) PROVE IInv'
  BY <1>1, StepTyped, StepApart, StepClosed, StepOpen, StepOneCloses,
     StepListed, StepPassed, StepReach DEF IInv
<1>2. CASE UNCHANGED vars
  BY <1>2 DEF vars, clients, locals, history, IInv, TypeOK, Apart, ClosedIsClosing,
       OpenSoFar, OneCloses, ListedAreStarted, PassedAreClosed, NothingOutOfReach,
       NobodyClosing, Usable, Starting
<1> QED BY <1>1, <1>2 DEF Next

LEMMA Inductive == Spec => []IInv
BY InitIInv, NextIInv, PTL DEF Spec

\* The variables keep their types.
THEOREM TypeCorrect == Spec => []TypeOK
<1>1. IInv => TypeOK
  BY DEF IInv
<1> QED BY <1>1, Inductive, PTL

\* What _start has started can be used, however many coroutines started it,
\* until a start and a close overlap or a close is cut short.
THEOREM StartedUsable == Spec => []StartedIsUsable
<1>1. IInv => StartedIsUsable
  BY DEF IInv, OpenSoFar, NobodyClosing, StartedIsUsable
<1> QED BY <1>1, Inductive, PTL

\* Every open Vault client can still be closed by the next close, unless two
\* closes overlap.
THEOREM AllInReach == Spec => []NothingOutOfReach
<1>1. IInv => NothingOutOfReach
  BY DEF IInv
<1> QED BY <1>1, Inductive, PTL
=============================================================================
