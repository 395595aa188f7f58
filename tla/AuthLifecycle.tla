--------------------------- MODULE AuthLifecycle ---------------------------
(***************************************************************************)
(* Starting and closing one AgentAuth (_start and close of                 *)
(* agent_auth/_auth.py) by coroutines of one event loop: calls, runs and   *)
(* endpoints start it, "async with" and run_sync also close it, and a      *)
(* server's shutdown only closes it.  They interleave where the code       *)
(* awaits: at the first request of a VaultSigner and at the aclose of every*)
(* client.  Without Vault _start never waits, so the identities have keys  *)
(* in Vault here (mode "local" or "production"); N is their number.        *)
(*                                                                         *)
(* A VaultSigner is named after the coroutine that made it and the number  *)
(* of its identity; its client is open from its start until its close.     *)
(***************************************************************************)
EXTENDS Integers, Sequences

CONSTANTS Tasks, N, NoSigner

ASSUME LifecycleAssumption == N \in Nat \ {0} /\ NoSigner \notin Tasks \X (1..N)

VARIABLES started, http,    \* _started; _http is not closed
          registry,         \* _registry._client: "none", "open", "closed"
          vault_signers,    \* _vault_signers
          signers,          \* _signers
          open,             \* the signers whose client is open
          pc, k,            \* the identity _start is at
          i,                \* the position of close in _vault_signers
          abandoned,        \* history: the signers whose start did not finish
          disturbed,        \* history: since the last close that overlapped
                            \* nothing, a start and a close overlapped or a
                            \* close was cut short
          cut,              \* history: the closes under way when another one
                            \* was cut short
          raced,            \* history: two closes overlapped
          lost              \* history: an open client is out of reach

clients == <<http, registry, vault_signers, signers, open>>
locals == <<pc, k, i>>
history == <<abandoned, disturbed, cut, raced, lost>>
vars == <<started, clients, locals, history>>

Identities == 1..N
Signers == Tasks \X Identities
Closing == {"signers", "registry", "http"}
Stages == {"idle", "start", "ready", "done"} \cup Closing
Starting(t) == pc[t] = "start"
Others(t, stages) == \E u \in Tasks \ {t} : pc[u] \in stages

Init ==
    /\ started = FALSE /\ http = TRUE /\ registry = "none"
    /\ vault_signers = <<>>
    /\ signers = [n \in Identities |-> NoSigner]
    /\ open = {}
    /\ pc = [t \in Tasks |-> "idle"]
    /\ k = [t \in Tasks |-> 1] /\ i = [t \in Tasks |-> 1]
    /\ abandoned = {} /\ cut = {}
    /\ disturbed = FALSE /\ raced = FALSE /\ lost = FALSE

Goto(t, stage) == pc' = [pc EXCEPT ![t] = stage]

-----------------------------------------------------------------------------
(* close *)

\* "for signer in self._vault_signers", whose length may change while it waits.
CloseFrom(t) ==
    /\ Goto(t, "signers")
    /\ i' = [i EXCEPT ![t] = 1]
    /\ disturbed' = (disturbed \/ Others(t, {"start"}))
    /\ raced' = (raced \/ Others(t, Closing))

Close(t) ==
    /\ pc[t] \in {"idle", "ready"}
    /\ CloseFrom(t)
    /\ UNCHANGED <<started, clients, k, abandoned, cut, lost>>

CloseSigner(t) ==
    /\ pc[t] = "signers" /\ i[t] <= Len(vault_signers)
    /\ open' = open \ {vault_signers[i[t]]}
    /\ i' = [i EXCEPT ![t] = @ + 1]
    /\ UNCHANGED <<started, http, registry, vault_signers, signers, pc, k, history>>

\* The Registry's client is dropped when its aclose is over, at once if it is
\* closed already or was never opened; then the aclose of _http begins.
DropRegistry(t) ==
    /\ registry' = "none" /\ http' = FALSE
    /\ Goto(t, "http")

Clear(t) ==
    /\ pc[t] = "signers" /\ i[t] > Len(vault_signers)
    /\ lost' = (lost \/ \E n \in DOMAIN vault_signers : vault_signers[n] \in open)
    /\ vault_signers' = <<>>
    /\ \/ registry # "open" /\ DropRegistry(t)
       \/ /\ registry = "open" /\ registry' = "closed"
          /\ Goto(t, "registry")
          /\ UNCHANGED http
    /\ UNCHANGED <<started, signers, open, k, i, abandoned, disturbed, cut, raced>>

RegistryClosed(t) ==
    /\ pc[t] = "registry"
    /\ DropRegistry(t)
    /\ lost' = (lost \/ registry = "open")
    /\ UNCHANGED <<started, vault_signers, signers, open, k, i, abandoned,
                   disturbed, cut, raced>>

Closed(t) ==
    /\ pc[t] = "http"
    /\ started' = FALSE
    /\ disturbed' = (disturbed /\ (t \in cut \/ Others(t, Closing \cup {"start"})))
    /\ Goto(t, "done")
    /\ UNCHANGED <<clients, k, i, abandoned, cut, raced, lost>>

\* A close ends where it waits for an aclose, by a CancelledError or because
\* the aclose fails: what it has begun to close is closed, and the rest, the
\* list and _started stay as they are.
CutShort(t) ==
    /\ pc[t] \in {"registry", "http"} \/ (pc[t] = "signers" /\ i[t] > 1)
    /\ Goto(t, "done")
    /\ disturbed' = TRUE
    /\ cut' = cut \cup {u \in Tasks \ {t} : pc[u] \in Closing}
    /\ UNCHANGED <<started, clients, k, i, abandoned, raced, lost>>

-----------------------------------------------------------------------------
(* _start *)

\* VaultSigner(...) opens no client; its start opens one and waits for Vault.
\* Without a token the constructor fails and _start calls close.
MakeSigner(t, n) ==
    \/ /\ Goto(t, "start")
       /\ k' = [k EXCEPT ![t] = n]
       /\ open' = open \cup {<<t, n>>}
       /\ disturbed' = (disturbed \/ Others(t, Closing))
       /\ UNCHANGED <<i, raced>>
    \/ CloseFrom(t) /\ UNCHANGED <<k, open>>

\* Mutant: the HTTP client of an AgentAuth that was closed is kept.
HttpKept == http

\* "if self._http.is_closed: self._http = httpx.AsyncClient(...)"
HttpReopened == TRUE

Start(t) ==
    /\ pc[t] = "idle"
    /\ \/ /\ started
          /\ Goto(t, "ready")
          /\ UNCHANGED <<clients, k, i, disturbed, raced>>
       \/ /\ ~ started
          /\ http' = HttpReopened
          /\ registry' = IF registry = "none" THEN "open" ELSE registry
          /\ MakeSigner(t, 1)
          /\ UNCHANGED <<vault_signers, signers>>
    /\ UNCHANGED <<started, abandoned, cut, lost>>

\* Mutant: a started signer is not remembered for close.
Untracked(signer) == vault_signers

Tracked(signer) == Append(vault_signers, signer)

\* Mutant: one identity too many.
PastLast(n) == n > N

Last(n) == n = N

SignerStarted(t) ==
    LET signer == <<t, k[t]>> IN
    /\ pc[t] = "start"
    /\ vault_signers' = Tracked(signer)
    /\ signers' = [signers EXCEPT ![k[t]] = signer]
    /\ \/ /\ Last(k[t])
          /\ started' = TRUE
          /\ Goto(t, "ready")
          /\ UNCHANGED <<open, k, i, disturbed, raced>>
       \/ ~ Last(k[t]) /\ MakeSigner(t, k[t] + 1) /\ UNCHANGED started
    /\ UNCHANGED <<http, registry, abandoned, cut, lost>>

\* VAULT_REQUEST_FAILED, VAULT_KEY_VERSION_NOT_FOUND: the signer is not in the
\* list when close is called.
SignerFails(t) ==
    /\ pc[t] = "start"
    /\ abandoned' = abandoned \cup {<<t, k[t]>>}
    /\ CloseFrom(t)
    /\ UNCHANGED <<started, clients, k, cut, lost>>

\* A CancelledError while _start waits is no Exception: close is not called.
Cancel(t) ==
    /\ pc[t] = "start"
    /\ abandoned' = abandoned \cup {<<t, k[t]>>}
    /\ Goto(t, "done")
    /\ UNCHANGED <<started, clients, k, i, disturbed, cut, raced, lost>>

Step(t) ==
    \/ Start(t) \/ SignerStarted(t) \/ SignerFails(t) \/ Cancel(t)
    \/ Close(t) \/ CloseSigner(t) \/ Clear(t)
    \/ RegistryClosed(t) \/ Closed(t) \/ CutShort(t)

Next == \E t \in Tasks : Step(t)

Spec == Init /\ [][Next]_vars

-----------------------------------------------------------------------------
(* Properties *)

\* The type invariant.
TypeOK ==
    /\ started \in BOOLEAN /\ http \in BOOLEAN
    /\ registry \in {"none", "open", "closed"}
    /\ vault_signers \in Seq(Signers)
    /\ signers \in [Identities -> Signers \cup {NoSigner}]
    /\ open \subseteq Signers /\ abandoned \subseteq Signers /\ cut \subseteq Tasks
    /\ pc \in [Tasks -> Stages]
    /\ k \in [Tasks -> Identities] /\ i \in [Tasks -> Nat \ {0}]
    /\ disturbed \in BOOLEAN /\ raced \in BOOLEAN /\ lost \in BOOLEAN

Usable ==
    /\ http /\ registry = "open"
    /\ \A n \in Identities : signers[n] \in open

\* While _started is set and nobody is closing, the clients that _start found
\* or opened are open, however many coroutines started at the same time and
\* whose signers the last one to come put in _signers; unless a start and a
\* close (or the close of a start that failed) overlapped, or a close was cut
\* short, and then a close that goes to its end and overlaps with no other
\* start and close repairs it.
StartedIsUsable ==
    started /\ ~ disturbed /\ (\A t \in Tasks : pc[t] \notin Closing) => Usable

\* "close() closes the Vault, Registry and HTTP clients"
\* (docs/API_REFERENCE.md:49): every open Vault client is in the list that the
\* next close walks through, is being started, or belongs to a start that
\* failed or was cancelled, which nobody closes; also when a start appends to
\* the list while a close walks through it.  Only two closes at the same time
\* can drop a client.
NothingOutOfReach ==
    raced \/ /\ ~ lost
             /\ \A s \in open \ abandoned :
                   \/ \E n \in DOMAIN vault_signers : vault_signers[n] = s
                   \/ \E t \in Tasks : Starting(t) /\ s = <<t, k[t]>>
=============================================================================
