----------------------------- MODULE MCRegistry -----------------------------
(***************************************************************************)
(* Instances of Registry for TLC: two developers, two Agents of one host   *)
(* (one below the other's team), two keys, and the sets of deliveries and  *)
(* administrator commands that the runs choose from.                       *)
(***************************************************************************)
EXTENDS Registry, TLC

CONSTANTS c1, c2,           \* client_ids
          s1, s2, s3,       \* API keys
          key1, key2,       \* public keys
          n1, n2, n3, n4,   \* namespace uuids
          Peer              \* an audience that is not this Registry

alpha == [host |-> "x", path |-> <<"team", "a">>]
beta  == [host |-> "x", path |-> <<"other", "b">>]
MCAgents == {alpha, beta}
MCClients == {c1, c2, "nobody"}
MCSecrets == {s1, s2, s3}
MCKeys == {key1, key2}
home   == [host |-> "x", name |-> "home"]
moved  == [host |-> "x", name |-> "moved"]
astray == [host |-> "y", name |-> "astray"]
MCEndpoints == {home, moved, astray}
team  == [domain |-> "x", prefix |-> <<"team">>]
teamA == [domain |-> "x", prefix |-> <<"team", "a">>]
other == [domain |-> "x", prefix |-> <<"other">>]
root  == [domain |-> "x", prefix |-> Root]
MCScopes == {team, teamA, other, root}
MCNamespaceIds == {n1, n2, n3, n4}

Provision ==
    [c \in {c1, c2} |-> [secret |-> IF c = c1 THEN s1 ELSE s2,
                         status |-> "active"]]
ProvisionScopes ==
    [n \in {n1, n2} |-> [owner |-> IF n = n1 THEN c1 ELSE c2,
                         scope |-> IF n = n1 THEN team ELSE other,
                         status |-> "active"]]
Nobody == [c \in {} |-> <<>>]
NoScopes == [n \in {} |-> <<>>]

-----------------------------------------------------------------------------
(* Envelopes *)

kid(a, v) == [agent |-> a, version |-> v]

Envelope_(id, a, k, signer, type, issued, body) ==
    [id |-> id, sender |-> a, audience |-> RegistryUrl, kid |-> k,
     issued |-> issued, type |-> type, replyTo |-> NoReply,
     signer |-> signer, body |-> body]

PublishOf(id, a, v, key, endpoint, issued) ==
    Envelope_(id, a, kid(a, v), key, "registry.publish", issued,
              [agent |-> a, endpoint |-> endpoint, kid |-> kid(a, v),
               key |-> key])

ProofOf(id, outer, a, k, key, issued) ==
    [Envelope_(id, a, k, key, "registry.rotate.proof", issued,
               [agent |-> a, newKid |-> k, newKey |-> key])
     EXCEPT !.replyTo = outer]

RotateOf(id, a, v, key, w, newKey, issued) ==
    Envelope_(id, a, kid(a, v), key, "registry.rotate", issued,
              [agent |-> a, newKid |-> kid(a, w), newKey |-> newKey,
               proof |-> ProofOf("proof", id, a, kid(a, w), newKey, issued)])

RevokeOf(id, a, v, key, issued) ==
    Envelope_(id, a, kid(a, v), key, "registry.revoke", issued,
              [agent |-> a])

By(c, e) == [client |-> c, secret |-> IF c = c1 THEN s1 ELSE s2, env |-> e]

-----------------------------------------------------------------------------
(* The life of one Agent: registered, moved, re-keyed, revoked, and what     *)
(* comes too late with the old key or from a key that is not its own.        *)

publish1  == PublishOf("publish", alpha, 1, key1, home, 0)
move1     == PublishOf("move", alpha, 1, key1, moved, 2)
move2     == PublishOf("move2", alpha, 2, key2, moved, 2)
rotate1   == RotateOf("rotate", alpha, 1, key1, 2, key2, 0)
revoke1   == RevokeOf("revoke", alpha, 1, key1, 0)
revoke2   == RevokeOf("revoke2", alpha, 2, key2, 2)
back2     == RotateOf("back", alpha, 2, key2, 1, key1, 2)
unsigned1 == [publish1 EXCEPT !.signer = key2, !.id = "unsigned"]

LifeDeliveries ==
    {By(c1, e) : e \in {publish1, move1, move2, rotate1, revoke1, revoke2,
                        back2, unsigned1}}

-----------------------------------------------------------------------------
(* The administrator works while requests are in flight: the namespace of    *)
(* the owner is revoked and given to another developer, who then tries to    *)
(* take the Agent over; the developer or the Agent is revoked.               *)

Command(op, c) == [op |-> op, client |-> c, scope |-> team, secret |-> s3,
                   id |-> n1, agent |-> alpha]

InterferingCommands ==
    {Command("namespace.revoke", c1),
     [Command("namespace.grant", c2) EXCEPT !.id = n3],
     Command("developer.revoke", c1),
     Command("agent.revoke", c1)}
TransferDeliveries ==
    {By(c1, publish1), By(c1, rotate1), By(c1, revoke1),
     By(c2, [publish1 EXCEPT !.id = "takeover"]),
     By(c2, [revoke1 EXCEPT !.id = "theirs"])}

-----------------------------------------------------------------------------
(* Every way to be refused, next to a publish and a rotation that are not.   *)

badRotation(proof) ==
    [rotate1 EXCEPT !.id = "bad", !.body.proof = proof]
proof1 == rotate1.body.proof

RefusedEnvelopes ==
    {NotJson, NotEnvelope,
     [publish1 EXCEPT !.type = "registry.forget"],
     [publish1 EXCEPT !.body = BadPayload],
     [publish1 EXCEPT !.sender = beta],
     [publish1 EXCEPT !.body.kid = kid(alpha, 2)],
     [publish1 EXCEPT !.body.endpoint = astray],
     PublishOf("zero", alpha, 0, key1, home, 0),
     PublishOf("other", beta, 1, key2, home, 0),
     PublishOf("early", alpha, 1, key1, home, 4),
     [publish1 EXCEPT !.audience = Peer],
     PublishOf("rekey", alpha, 1, key2, home, 0),
     PublishOf("skip", alpha, 2, key2, home, 0),
     [rotate1 EXCEPT !.signer = key2],
     RotateOf("same", alpha, 1, key1, 1, key2, 0),
     [publish1 EXCEPT !.id = "swap", !.body.key = key2],
     badRotation(NoProof),
     badRotation([proof1 EXCEPT !.replyTo = "bad", !.type = "agent.call"]),
     badRotation(proof1),
     badRotation([proof1 EXCEPT !.replyTo = "bad", !.body.newKid = kid(alpha, 0)]),
     badRotation([proof1 EXCEPT !.replyTo = "bad", !.signer = key1]),
     RotateOf("zero", alpha, 1, key1, 0, key2, 0),
     [rotate1 EXCEPT !.id = "proof",
                     !.body.proof = [proof1 EXCEPT !.replyTo = "proof"]]}
CredentialCommands ==
    {[Command("developer.add", c1) EXCEPT !.scope = NoScope],
     Command("developer.rotate-key", c1)}
RefusedDeliveries ==
    {By(c1, e) : e \in RefusedEnvelopes \cup {publish1, rotate1, revoke1}} \cup
    {[By(c1, publish1) EXCEPT !.secret = NoCredentials],
     [By(c1, publish1) EXCEPT !.secret = s3],
     [By(c1, publish1) EXCEPT !.client = "nobody"]}

-----------------------------------------------------------------------------
(* Namespace administration on a database that holds nothing.                *)

AddDeveloper(c, secret, scope, id) ==
    [Command("developer.add", c) EXCEPT
        !.secret = secret, !.scope = scope, !.id = id]
Grant(c, scope, id) ==
    [Command("namespace.grant", c) EXCEPT !.scope = scope, !.id = id]
Revoke(id) == [Command("namespace.revoke", c1) EXCEPT !.id = id]

NamespaceCommands ==
    {AddDeveloper(c1, s1, team, n1), AddDeveloper(c2, s2, NoScope, n1),
     Grant(c2, teamA, n2), Grant(c2, root, n3), Grant(c1, team, n4),
     Revoke(n1), Revoke(n2),
     [Command("developer.rotate-key", c2) EXCEPT !.secret = s3],
     Command("developer.revoke", c1)}
OverlapCommands ==
    {AddDeveloper(c1, s1, team, n1), AddDeveloper(c2, s2, teamA, n2)}

NoCommands == {}
NoDeliveries == {}
Symmetry == Permutations(Requests)
=============================================================================
