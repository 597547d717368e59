------------------------------ MODULE MCLocalRV ------------------------------
(***************************************************************************)
(* Instances of LocalRV for TLC.                                           *)
(***************************************************************************)
EXTENDS LocalRV, TLC

Req(types, nodes, id, prefix, strategy) ==
    [type: types, node: nodes, id: {id}, prefix: {prefix},
     strategy: {strategy}]

ScopeTypes == {"PUBLISH_SCOPE", "UNPUBLISH_SCOPE", "SUBSCRIBE_SCOPE",
               "UNSUBSCRIBE_SCOPE"}
InfoTypes == {"PUBLISH_INFO", "UNPUBLISH_INFO", "SUBSCRIBE_INFO",
              "UNSUBSCRIBE_INFO"}

\* A root scope /a, which one node uses, a scope /a/b and an item /a/b/c.
TreeRequests ==
    Req(ScopeTypes, {"n1"}, <<"a">>, <<>>, "DOMAIN_LOCAL")
    \cup Req(ScopeTypes, Node, <<"b">>, <<"a">>, "DOMAIN_LOCAL")
    \cup Req(InfoTypes, Node, <<"c">>, <<"a", "b">>, "DOMAIN_LOCAL")

\* Roots /a and /b.  Scope /a/c may also be put under /b; it holds a subscope
\* /a/c/d and an item /a/c/e, which is subscribed to by its other ID.
ScopeDagRequests ==
    Req({"PUBLISH_SCOPE"}, {"n1"}, <<"a">>, <<>>, "DOMAIN_LOCAL")
    \cup Req({"PUBLISH_SCOPE", "SUBSCRIBE_SCOPE", "UNSUBSCRIBE_SCOPE"}, {"n1"},
             <<"b">>, <<>>, "DOMAIN_LOCAL")
    \cup Req({"PUBLISH_SCOPE", "UNPUBLISH_SCOPE"}, {"n1"}, <<"c">>, <<"a">>,
             "DOMAIN_LOCAL")
    \cup Req({"PUBLISH_SCOPE"}, {"n1"}, <<"a", "c">>, <<"b">>, "DOMAIN_LOCAL")
    \cup Req({"UNPUBLISH_SCOPE", "SUBSCRIBE_SCOPE", "UNSUBSCRIBE_SCOPE"},
             {"n1"}, <<"c">>, <<"b">>, "DOMAIN_LOCAL")
    \cup Req({"PUBLISH_SCOPE", "UNPUBLISH_SCOPE"}, {"n1"}, <<"d">>,
             <<"a", "c">>, "DOMAIN_LOCAL")
    \cup Req({"PUBLISH_INFO", "UNPUBLISH_INFO"}, {"n1"}, <<"e">>,
             <<"a", "c">>, "DOMAIN_LOCAL")
    \cup Req({"SUBSCRIBE_INFO", "UNSUBSCRIBE_INFO"}, {"n1"}, <<"e">>,
             <<"b", "c">>, "DOMAIN_LOCAL")

\* Roots /a and /b and item /a/e, which may also be put under /b.
ItemDagRequests ==
    Req({"PUBLISH_SCOPE", "SUBSCRIBE_SCOPE", "UNSUBSCRIBE_SCOPE",
         "UNPUBLISH_SCOPE"}, {"n1"}, <<"a">>, <<>>, "DOMAIN_LOCAL")
    \cup Req({"PUBLISH_SCOPE", "SUBSCRIBE_SCOPE", "UNSUBSCRIBE_SCOPE"},
             {"n1"}, <<"b">>, <<>>, "DOMAIN_LOCAL")
    \cup Req(InfoTypes, {"n1"}, <<"e">>, <<"a">>, "DOMAIN_LOCAL")
    \cup Req({"PUBLISH_INFO"}, Node, <<"a", "e">>, <<"b">>, "DOMAIN_LOCAL")
    \cup Req({"UNPUBLISH_INFO", "SUBSCRIBE_INFO", "UNSUBSCRIBE_INFO"},
             Node, <<"e">>, <<"b">>, "DOMAIN_LOCAL")

\* /k is one of the *-over-ICN roots: the items /k/c and /k/b/c under it.
OneShotRequests ==
    Req(ScopeTypes, {"n1"}, <<"k">>, <<>>, "DOMAIN_LOCAL")
    \cup Req(ScopeTypes, {"n1"}, <<"b">>, <<"k">>, "DOMAIN_LOCAL")
    \cup Req(InfoTypes, Node, <<"c">>, <<"k", "b">>, "DOMAIN_LOCAL")
    \cup Req({"PUBLISH_INFO", "SUBSCRIBE_INFO", "UNSUBSCRIBE_INFO"}, {"n2"},
             <<"c">>, <<"k">>, "DOMAIN_LOCAL")

\* The applications of one node, with the NODE_LOCAL strategy, next to a
\* DOMAIN_LOCAL scope of the same node; some requests name the wrong strategy.
LocalRequests ==
    Req(ScopeTypes, {"n1"}, <<"a">>, <<>>, "NODE_LOCAL")
    \cup Req(ScopeTypes, {"n1"}, <<"b">>, <<"a">>, "NODE_LOCAL")
    \cup Req({"PUBLISH_SCOPE", "UNPUBLISH_SCOPE"}, Node, <<"b">>, <<>>,
             "DOMAIN_LOCAL")
    \cup Req({"PUBLISH_SCOPE", "PUBLISH_INFO"}, {"n1"}, <<"b">>, <<"a">>,
             "DOMAIN_LOCAL")
    \cup Req(InfoTypes, {"n1"}, <<"c">>, <<"a">>, "NODE_LOCAL")
    \cup Req({"PUBLISH_INFO", "SUBSCRIBE_INFO"}, {"n1"}, <<"b">>, <<"a">>,
             "NODE_LOCAL")

\* One behaviour makes the requests of one workload.
Workload == [tree |-> TreeRequests, scopedag |-> ScopeDagRequests,
             itemdag |-> ItemDagRequests, oneshot |-> OneShotRequests,
             local |-> LocalRequests]
AllRequests == UNION {Workload[w] : w \in DOMAIN Workload}

\* Addresses, named after the first ID of the objects that get them.
Scopes == {<<"a">>, <<"b">>, <<"k">>, <<"a", "b">>, <<"a", "c">>, <<"k", "b">>,
           <<"a", "c", "d">>}
             \cup {<<"scope", i>> : i \in 1..2}
Items == {<<"a", "b", "c">>, <<"a", "c", "e">>, <<"a", "e">>, <<"k", "c">>,
          <<"k", "b", "c">>} \cup {<<"item", i>> : i \in 1..3}

VARIABLE load

MCInit == Init /\ load \in DOMAIN Workload

MCNext ==
    /\ \/ \E r \in Workload[load] : push(r)
       \/ load = "oneshot" /\ \E N \in SUBSET Node : ImplicitSubscription(N)
    /\ UNCHANGED load

MCSpec == MCInit /\ [][MCNext]_<<rv, load>>

-----------------------------------------------------------------------------
(***************************************************************************)
(* Scope::recursivelyUpdateIDs as the code computes it: an object takes    *)
(* the IDs its fathers give it, then its subscopes and items are visited.  *)
(***************************************************************************)
TakeFatherIDs(s, x) ==
    AddIDs(s, [y \in Obj |->
      IF y # x THEN {}
      ELSE UNION {IDsUnder(s, f, SuffixOf(s, x)) : f \in s.fathers[x]}])

RECURSIVE UpdateIDs(_, _), Visit(_, _)
UpdateIDs(s, x) ==
    Visit(TakeFatherIDs(s, x),
          getSubscopes(s, x) \cup getInformationItems(s, x))
Visit(s, C) ==
    IF C = {} THEN s
    ELSE LET c == CHOOSE c \in C : TRUE
         IN  Visit(UpdateIDs(s, c), C \ {c})

\* Publishing an object under one more scope gives every object below it the
\* IDs that the recursion of the code gives it.
LinkIsRecursion ==
    \A old \in DOMAIN rv.scopeIndex : \A f \in ScopeObj :
      LET x == rv.scopeIndex[old]
          linked == Link(rv, x, f, old)
      IN  /\ rv.ids[f] # {}
          /\ \A p \in rv.ids[f] : /\ ~IsPrefixOf(old, p)
                                  /\ Append(p, Suffix(old)) \notin
                                       DOMAIN rv.scopeIndex \cup DOMAIN rv.pubIndex
          => linked = UpdateIDs([rv EXCEPT !.fathers[x] = @ \cup {f}], x)
=============================================================================
