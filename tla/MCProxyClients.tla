---------------------------- MODULE MCProxyClients ----------------------------
(* Instances of ProxyClients for model checking: the configurations that     *)
(* exercise each route, and the kinds of connection a client asks for.       *)
EXTENDS ProxyClients

\* Everything off: a client goes straight to plain TCP.
Bare == [fakeTls |-> FALSE, direct |-> {}, pooled |-> FALSE, fronting |-> FALSE,
         workers |-> FALSE, cfproxy |-> FALSE, h2 |-> FALSE]

\* Fake TLS alone, the default routes without a pool, a pool with a Worker, and
\* on-demand sockets with fronting and nothing but TCP to fall back to.
MCConfigs ==
  { [Bare EXCEPT !.fakeTls = TRUE],
    [Bare EXCEPT !.direct = DCs, !.cfproxy = TRUE, !.h2 = TRUE],
    [Bare EXCEPT !.direct = DCs, !.pooled = TRUE, !.workers = TRUE],
    [Bare EXCEPT !.direct = DCs, !.fronting = TRUE] }

MCKinds ==
  { [media |-> TRUE, test |-> FALSE], [media |-> FALSE, test |-> TRUE] }

=============================================================================
