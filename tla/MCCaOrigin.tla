----------------------------- MODULE MCCaOrigin -----------------------------
(***************************************************************************)
(* A small site for TLC: alice's enrollment on one host, that host's own   *)
(* enrollment and one X.509 certificate on it.                             *)
(***************************************************************************)
EXTENDS CaOriginRefinement, TLC

CONSTANTS p1, p2, u, h, x, k1, k2, r1, r2

Req(i, k, r) == [id |-> i, key |-> k, ren |-> r]

Kinds(ids) == [i \in ids |-> CASE i = u -> "user" [] i = h -> "host" [] OTHER -> "x509"]

Approves(reqs) == [op : {"approve"}, req : reqs]
Imports(reqs)  == [op : {"import"}, req : reqs]
Revokes(scopes) == [op : {"revoke"}, scope : scopes]
Apply == [op |-> "apply"]

Empty(ids) == [prov |-> [i \in ids |-> NoProv], old |-> {}]

\* Unbound provisioners of an older site, by renewal JWK.
Legacy(ids, jwk) ==
  [prov |-> [i \in ids |-> IF i \in DOMAIN jwk
                             THEN [ren |-> jwk[i], key |-> Unbound, deny |-> FALSE] ELSE NoProv],
   old  |-> {"SSHPOP", "ACME"}]

SymProc == Permutations(Proc)

-----------------------------------------------------------------------------
\* Two operators; alice asks with two key pairs that share the renewal JWK, and
\* the host with a pair whose certified key is alice's second one.
IdsUH == {u, h}
KindUH == Kinds(IdsUH)
PoliciesUH == {IdsUH}
InitUH == {Empty(IdsUH)}
RequestsUH == {Req(u, k1, r1), Req(u, k2, r1), Req(h, k2, r2)}
CommandUH == Approves(RequestsUH) \union Revokes({{u}, {u, h}})

-----------------------------------------------------------------------------
\* A site whose ca.json predates the registry: alice's provisioner and the host's
\* are unbound, and import asserts either of two keys for alice and one for the host.
InitLegacy == {Empty(IdsUH), Legacy(IdsUH, u :> r1 @@ h :> r2)}
CommandLegacy ==
  Approves(RequestsUH) \union Imports(RequestsUH) \union Revokes({{u}, {u, h}}) \union {Apply}

-----------------------------------------------------------------------------
\* One host with an X.509 certificate whose declaration comes and goes.
IdsHX == {h, x}
KindHX == Kinds(IdsHX)
PoliciesHX == {IdsHX, {h}}
InitHX == {Empty(IdsHX), [Empty(IdsHX) EXCEPT !.old = {"ACME"}]}

\* The certificate alone, with one revocation, whose repetition is fair.
CommandX == Approves({Req(x, k1, r1), Req(x, k2, r2)}) \union Revokes({{x}}) \union {Apply}
=============================================================================
