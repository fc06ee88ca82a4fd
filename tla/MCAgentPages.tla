---------------------------- MODULE MCAgentPages ----------------------------
(* Instances of AgentPages for TLC.                                        *)
EXTENDS AgentPages, TLC

CONSTANTS owner, viewer, alice, bob, chosen, made, g1, g2, r1, r2

ByBrowser(path, k) ==
  [path |-> path, encrypted |-> TRUE, sender |-> k, keyId |-> k, token |-> None, code |-> None]

WithToken(e, c) == [ByBrowser("page", viewer) EXCEPT !.token = e, !.code = c]

Meta(public, emails, code) == [public |-> public, emails |-> emails, code |-> code]

AllEdits == {Meta(TRUE, {}, None),
             Meta(TRUE, {alice}, None), Meta(FALSE, {alice}, None), Meta(FALSE, {alice}, chosen)}

(* Everything a browser asks, and the page alone, by the owner and by an   *)
(* invited viewer.                                                         *)
Everything ==
  {ByBrowser("page", k) : k \in {owner, viewer}}
  \cup {WithToken(alice, c) : c \in {made, chosen, None}}
  \cup {WithToken(bob, made)}
  \cup {ByBrowser(path, owner) : path \in (Paths \ {"page"})}
  \cup {ByBrowser("auth-check", viewer),
        [ByBrowser("page", owner) EXCEPT !.keyId = None],
        [ByBrowser("page", owner) EXCEPT !.encrypted = FALSE],
        [ByBrowser("pages", viewer) EXCEPT !.keyId = owner]}

PageOnly == {ByBrowser("page", owner), WithToken(alice, made)}

AllAsks == (r1 :> Everything) @@ (r2 :> PageOnly)

Symmetry == Permutations({g1, g2})
=============================================================================
