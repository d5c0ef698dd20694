------------------------------- MODULE MCAuth -------------------------------
(***************************************************************************)
(* An instance of AuthSync with two rules.                                 *)
(***************************************************************************)
EXTENDS AuthSync

CONSTANTS c1, c2

x == Word("x", {})
X == Word("x", {"caps"})
y == Word("y", {})
Y == Word("y", {"caps"})
default == Word("default", {"caps"})
blank == Word("", {"spaces"})

\* Rule(t, given): a rule of type t with the given fields.
Rule(t, given) ==
    [type |-> t,
     fields |-> [f \in RuleFields |-> IF f \in DOMAIN given THEN given[f] ELSE Empty]]

MCRuleSpecs ==
    {Rule("USERMAP", [clntuser |-> x, mcauser |-> X, chckclnt |-> default]),
     Rule("USERMAP", [clntuser |-> x, address |-> y]),
     Rule("USERMAP", [clntuser |-> x, address |-> Y, mcauser |-> x]),
     Rule("ADDRESSMAP", [address |-> x, usersrc |-> x, descr |-> y]),
     Rule("SSLPEERMAP", [sslpeer |-> x, address |-> y, chckclnt |-> x]),
     Rule("QMGRMAP", [qmname |-> x, mcauser |-> blank]),
     Rule("BLOCKUSER", [userlist |-> y, address |-> x]),
     Rule("BLOCKUSER", [userlist |-> X]),
     Rule("BLOCKADDR", [address |-> x])}

\* The CRD lets a list name an authority in lower and in upper case.
MCAuthorityLists ==
    LET texts == {Authority(1, {}), Authority(2, {"caps"}), Authority(2, {}), Authority(3, {})}
    IN  {l \in UNION {[1..n -> texts] : n \in 1..3} : \A i, j \in DOMAIN l : l[i] = l[j] => i = j}
=============================================================================
