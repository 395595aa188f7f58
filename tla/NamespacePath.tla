---------------------------- MODULE NamespacePath ----------------------------
(***************************************************************************)
(* Path arithmetic of the Registry's namespaces.                           *)
(*                                                                         *)
(* An Agent ID agent://host/s1/.../sn is [host, path] with path the        *)
(* sequence of its segments; a namespace scope is [domain, prefix] with    *)
(* prefix the segments of the normalized path_prefix, so "/" is <<>>.      *)
(***************************************************************************)
EXTENDS Sequences
LOCAL INSTANCE SequencesExt

Root == <<>>

\* namespace_matches: prefix == "/" matches every Agent ID of the domain.
Matches(agent, scope) ==
    /\ agent.host = scope.domain
    /\ IsPrefix(scope.prefix, agent.path)

\* other.startswith(prefix + "/"): for "/" the code tests startswith("//"),
\* which no normalized prefix satisfies, so the root is above nothing.
StrictlyAbove(prefix, other) ==
    /\ prefix \notin {Root, other}
    /\ IsPrefix(prefix, other)

\* Mutant: only a new scope below an existing one is refused.
OverlapsBelowOnly(held, wanted) ==
    /\ held.domain = wanted.domain
    /\ \/ held.prefix = wanted.prefix
       \/ StrictlyAbove(held.prefix, wanted.prefix)

\* The three comparisons of grant_namespace, for two scopes of one domain.
Overlaps(held, wanted) ==
    /\ held.domain = wanted.domain
    /\ \/ held.prefix = wanted.prefix
       \/ StrictlyAbove(wanted.prefix, held.prefix)
       \/ StrictlyAbove(held.prefix, wanted.prefix)
=============================================================================
