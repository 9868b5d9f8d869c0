----------------------------- MODULE MCResources -----------------------------
(* The requests and the tree of the runs of Resources. *)
EXTENDS Resources

\* The root, the discovery path, a resource "a" and a path below it.
MCStartsWith == (Paths \X {Root}) \cup {<<p, p>> : p \in Paths} \cup {<<"ab", "a">>}

MCPathLength == [p \in Paths |-> CASE p = Root -> 1 [] p = "a" -> 2
                                   [] p = "ab" -> 4 [] OTHER -> 17]

MCAncestors == [p \in Paths |-> IF p = "ab" THEN {"a"} ELSE {}]

Message(s, t, m, p, o) ==
    [src |-> s, token |-> t, method |-> m, path |-> p, observe |-> o]

MCRegister == Message("c", 1, "GET", "a", "register")
MCCancel   == Message("c", 1, "GET", "a", "cancel")
MCPut      == Message("d", 1, "PUT", "a", "no")
MCDelete   == Message("d", 2, "DELETE", "a", "no")
MCCreate   == Message("d", 2, "POST", "ab", "no")
MCDiscover == Message("d", 2, "GET", "core", "register")

MCMessages == {MCRegister, MCCancel, MCPut, MCDelete, MCCreate, MCDiscover}

\* One client registers, another changes the resource, and one of them cancels
\* under the same token, deletes it, makes one below it or discovers.
MCSaying ==
    << {MCRegister}, {MCPut}, {MCCancel, MCDelete, MCCreate, MCDiscover} >>

MCRequests == DOMAIN MCSaying

\* This node has observed the first client under the token it will use.
MCOutbound == {<<"c", 1>>}

==============================================================================
