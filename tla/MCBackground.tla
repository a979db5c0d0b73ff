---------------------------- MODULE MCBackground ----------------------------
(***************************************************************************)
(* Small instances of streams, of OIDC sessions and of access control over  *)
(* the country database, with the fairness of their goroutines.  They share *)
(* no state: `part' is chosen at the start and only that part moves.        *)
(***************************************************************************)
EXTENDS Streams, Auth, Acl

VARIABLE part

Parts == {"streams", "auth", "acl"}

MCKind == [pub |-> "public", priv |-> "private"]
MCCountry == [pub |-> "X", priv |-> "Y"]
Rule(t, v) == [type |-> t, val |-> v]
AclConfig(d, allow, deny, log, notify) ==
    [default |-> d, allowLocal |-> (d = "allow"), allow |-> allow, deny |-> deny, log |-> log,
     notify |-> notify, notifyAllowed |-> notify]
MCAclConfigs ==
    { AclConfig("allow", {}, {Rule("country", {"X"})}, TRUE, FALSE),
      AclConfig("deny", {Rule("cidr", {"priv"}), Rule("country", {"X"})}, {}, FALSE, TRUE),
      AclConfig("deny", {}, {}, TRUE, FALSE) }

\* One initial state for the parts that do not move.
Pinned(p, choice) == part # p => choice

MCInit ==
    /\ part \in Parts
    /\ SInit /\ AuthInit /\ AclInit
    /\ dbFile.db = 1
    /\ Pinned("streams", sProto = "tcp")
    /\ Pinned("acl", acl = AclConfig("allow", {}, {Rule("country", {"X"})}, TRUE, FALSE))

MCNext ==
    /\ UNCHANGED part
    /\ \/ part = "streams" /\ SNext /\ UNCHANGED <<authVars, aclVars, mmVars>>
       \/ part = "auth" /\ AuthNext /\ UNCHANGED <<sVars, aclVars, mmVars>>
       \/ part = "acl" /\ AclNext /\ UNCHANGED <<sVars, authVars>>

\* The fair actions of a part are not enabled before it has moved.
MCSpec ==
    /\ MCInit
    /\ [][MCNext]_<<part, sVars, authVars, aclVars, mmVars>>
    /\ SFair /\ AuthFair /\ AclFair
=============================================================================
