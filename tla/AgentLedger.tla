----------------------------- MODULE AgentLedger -----------------------------
(***************************************************************************)
(* What the Registry promises about identities, whatever happens to it:    *)
(* an Agent is registered once, keeps its owner for ever, changes its key  *)
(* one active generation at a time to a key id that nobody ever used, and  *)
(* once retired never changes again.  A spent key id is bound for ever to  *)
(* one Agent and one public key.                                           *)
(***************************************************************************)
CONSTANTS Agents, Clients, Kids, Keys

VARIABLES ledger,   \* registered Agents, [owner, kid, key, active]
          spent     \* every kid ever used, [agent, key]

entries == <<ledger, spent>>

Add(f, x, y) == [z \in DOMAIN f \cup {x} |-> IF z = x THEN y ELSE f[z]]

Init ==
    /\ ledger = [a \in {} |-> <<>>]
    /\ spent = [k \in {} |-> <<>>]

Spend(agent, kid, key) ==
    /\ kid \notin DOMAIN spent
    /\ spent' = Add(spent, kid, [agent |-> agent, key |-> key])

Register(agent, owner, kid, key) ==
    /\ agent \notin DOMAIN ledger
    /\ Spend(agent, kid, key)
    /\ ledger' = Add(ledger, agent, [owner |-> owner, kid |-> kid,
                                     key |-> key, active |-> TRUE])

Rotate(agent, kid, key) ==
    /\ agent \in DOMAIN ledger
    /\ ledger[agent].active
    /\ Spend(agent, kid, key)
    /\ ledger' = [ledger EXCEPT ![agent].kid = kid, ![agent].key = key]

Retire(agent) ==
    /\ agent \in DOMAIN ledger
    /\ ledger[agent].active
    /\ ledger' = [ledger EXCEPT ![agent].active = FALSE]
    /\ UNCHANGED spent

Next ==
    \E agent \in Agents :
        \/ Retire(agent)
        \/ \E kid \in Kids, key \in Keys :
              \/ Rotate(agent, kid, key)
              \/ \E owner \in Clients : Register(agent, owner, kid, key)

Spec == Init /\ [][Next]_entries
=============================================================================
