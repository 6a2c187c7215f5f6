----------------------------- MODULE MCHostSsh -----------------------------
(***************************************************************************)
(* A host whose server role comes and goes, and ledgers of different age.  *)
(***************************************************************************)
EXTENDS HostSshProperties, TLC

CONSTANTS a, b, u1, u2, h1, e1, e2

Full(e, keys) == [role |-> Role, edition |-> e, revoked |-> keys]
ClientOnly(e, keys) == [role |-> {"client"}, edition |-> e, revoked |-> keys]

\* Two ledgers, neither of which contains the other, and a host that stops serving.
PoliciesMC == {Full(e1, {u1}), Full(e2, {u2, h1}), ClientOnly(e2, {u1})}
FirstMC == {Full(e1, {u1})}
PoliciesTwo == {Full(e1, {u1}), ClientOnly(e2, {u1, h1})}

\* /etc/ssh/auth_principals, /etc/ssh/grafhome, ssh_config.d, sshd_config.d
ByName == <<"principals", "hostKrl", "userKrl", "knownHosts", "userCa", "sshConf", "sshdConf">>
\* Enough to part a KRL from its fragment, and the client's files from the server's.
KrlsAndFragments == <<"hostKrl", "userKrl", "sshConf", "sshdConf">>
=============================================================================
