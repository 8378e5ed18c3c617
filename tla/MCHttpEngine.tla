---------------------------- MODULE MCHttpEngine -----------------------------
(***************************************************************************)
(* Scenarios for HttpEngine, and how proxies answer.                       *)
(***************************************************************************)
EXTENDS HttpEngine

Nothing == [mods |-> {"nonblocking"}, arrivals |-> {}, reqs |-> {}, own |-> {}, closes |-> FALSE, stops |-> FALSE]
MCScenarios ==
  {[Nothing EXCEPT !.mods = {"mixed"}, !.arrivals = {1, 2, 3}],
   [Nothing EXCEPT !.mods = {"mixed", "blocking", "nonblocking"}, !.arrivals = {1, 2}, !.stops = TRUE],
   [Nothing EXCEPT !.arrivals = {1}, !.reqs = {1}, !.stops = TRUE],
   [Nothing EXCEPT !.reqs = {1, 2, 3}, !.closes = TRUE],
   [Nothing EXCEPT !.reqs = {1, 2, 3}, !.own = {1, 2, 3}]}

Socks == [scheme |-> "socks5", version |-> 5, method |-> "none", accepts |-> TRUE, reply |-> 0,
          atyp |-> "ip4", addr |-> 4, sends |-> 12]
MCProxies ==
  {Direct, Socks, [Socks EXCEPT !.sends = 9], [Socks EXCEPT !.version = 4], [Socks EXCEPT !.reply = 5],
   [Socks EXCEPT !.method = "password", !.atyp = "domain", !.addr = 3, !.sends = 14],
   [Socks EXCEPT !.method = "password", !.accepts = FALSE], [Socks EXCEPT !.atyp = "ip6", !.addr = 16, !.sends = 24],
   [scheme |-> "http", sends |-> 1, status |-> 200, reason |-> TRUE],
   [scheme |-> "http", sends |-> 1, status |-> 407, reason |-> TRUE],
   [scheme |-> "http", sends |-> 1, status |-> 407, reason |-> FALSE]}
=============================================================================
