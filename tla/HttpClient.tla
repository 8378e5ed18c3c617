---------------------------- MODULE HttpClient -------------------------------
(***************************************************************************)
(* nbhttp/client.go and client_conn.go: the HTTP client for one host.      *)
(* Client.Do takes a ClientConn from the host's pool, or makes one, and    *)
(* sends the request on it; the handler gives it back.  A ClientConn dials *)
(* when it has no connection; its methods hold c.mux, so that each is one  *)
(* step, the handlers it calls included.  A request may also be sent on a  *)
(* ClientConn of the user's own, which then has several under way.         *)
(***************************************************************************)
EXTENDS Integers, Sequences, FiniteSets, SequencesExt

CONSTANTS
  Reqs,         \* requests
  MaxConnNum,   \* MaxConnsPerHost
  MaxDials,     \* bound: connections that are dialed at most
  Proxies       \* how a proxy may answer, see Socks5Connect; Direct for none

ASSUME ClientAssumption == MaxConnNum \in Nat \ {0} /\ MaxDials \in Nat

\* A proxy may stop early, but sends no more than its protocol says (RFC 1928).
AddrLength(p) == CASE p.atyp = "ip4" -> 4 [] p.atyp = "ip6" -> 16 [] OTHER -> 1 + p.addr
ReplyLength(p) ==
  CASE p.scheme = "none" -> 0
    [] p.scheme = "http" -> 1
    [] OTHER -> 2 + (IF p.method = "password" THEN 2 ELSE 0) + 4 + AddrLength(p) + 2
ASSUME ProxyAssumption ==
  \A p \in Proxies :
    /\ p.scheme \in {"none", "http", "socks5"} /\ p.sends \in 0 .. ReplyLength(p)
    /\ p.scheme = "socks5" => p.addr \in Nat
    /\ p.scheme = "http" => p.reason \in BOOLEAN

VARIABLES
  cliClosed,    \* Client.closed
  closing,      \* ClientConns that CloseWithError is still to visit, with hcs.mux held
  connNum,      \* hostConns.connNum
  chConnss,     \* free ClientConns
  req,          \* of each request: [at, hc, calls, got]
  hcs,          \* the ClientConns: [closed, conn, handlers]; own is the user's
  net,          \* the connections: [hc, open, wire, jobs, notified, junk]
  dialerConns,  \* Engine.dialerConns
  deadlines,    \* the connections that have a read deadline
  panicked,     \* ClientConns on which a Do panicked, and called no handler
  crossed       \* a late clean-up closed another connection, whose response was in its jobs

clientVars == <<cliClosed, closing, connNum, chConnss, req, hcs, net, dialerConns, deadlines, panicked, crossed>>

Own == 0
Direct == [scheme |-> "none", sends |-> 0]
NoConn == 0
Fresh == [closed |-> FALSE, conn |-> NoConn, handlers |-> <<>>]

ClientInit ==
  /\ cliClosed = FALSE /\ closing = {} /\ connNum = 0 /\ chConnss = <<>>
  /\ req = [r \in Reqs |-> [at |-> "new", hc |-> Own, calls |-> 0, got |-> <<>>]]
  /\ hcs = [h \in {Own} |-> Fresh] /\ net = <<>> /\ dialerConns = {}
  /\ deadlines = {} /\ panicked = {} /\ crossed = FALSE

-----------------------------------------------------------------------------
(* Calling handlers, and closing.                                          *)

\* Mutant: a handler that failed does not give the ClientConn back.
CallKeeps(h, rs, got) ==
  /\ req' = [r \in Reqs |-> IF r \in ToSet(rs)
                            THEN [req[r] EXCEPT !.at = "done", !.calls = @ + 1, !.got = got]
                            ELSE req[r]]
  /\ chConnss' = IF h = Own \/ got = <<"error">> THEN chConnss
                 ELSE chConnss \o [k \in 1 .. Len(rs) |-> h]

\* The handlers of rs are called; Client.Do's give the ClientConn back first.
Call(h, rs, got) ==
  /\ req' = [r \in Reqs |-> IF r \in ToSet(rs)
                            THEN [req[r] EXCEPT !.at = "done", !.calls = @ + 1, !.got = got]
                            ELSE req[r]]
  /\ chConnss' = IF h = Own THEN chConnss ELSE chConnss \o [k \in 1 .. Len(rs) |-> h]

\* Mutant: only the oldest request learns of it.
closeWithErrorWithoutLockFirst(h, rs, c) ==
  LET k == hcs[h].conn IN
  /\ Call(h, IF rs = <<>> THEN rs ELSE <<Head(rs)>>, <<"error">>)
  /\ hcs' = [hcs EXCEPT ![h] = [Fresh EXCEPT !.closed = c]]
  /\ net' = IF k = NoConn THEN net ELSE [net EXCEPT ![k].open = FALSE]
  /\ dialerConns' = dialerConns \ {k}

\* closeWithErrorWithoutLock on h, that has the handlers rs and maybe a new
\* connection; c is what becomes of c.closed.
closeWithErrorWithoutLock(h, rs, c) ==
  LET k == hcs[h].conn IN
  /\ Call(h, rs, <<"error">>)
  /\ hcs' = [hcs EXCEPT ![h] = [Fresh EXCEPT !.closed = c]]
  /\ net' = IF k = NoConn THEN net ELSE [net EXCEPT ![k].open = FALSE]
  /\ dialerConns' = dialerConns \ {k}

\* ClientConn.CloseWithError
HcCloseWithError(h) ==
  IF hcs[h].closed THEN UNCHANGED <<chConnss, req, hcs, net, dialerConns>>
  ELSE closeWithErrorWithoutLock(h, hcs[h].handlers, TRUE)

\* Client.CloseWithError
CloseClient ==
  /\ ~cliClosed
  /\ cliClosed' = TRUE /\ closing' = DOMAIN hcs \ {Own}
  /\ UNCHANGED <<crossed, deadlines, panicked, connNum, chConnss, req, hcs, net, dialerConns>>

CloseHc(h) ==
  /\ h \in closing
  /\ HcCloseWithError(h)
  /\ closing' = closing \ {h}
  /\ UNCHANGED <<cliClosed, crossed, deadlines, panicked, connNum>>

-----------------------------------------------------------------------------
(* The pool.                                                               *)

Finish(r, got) == req' = [req EXCEPT ![r].at = "done", ![r].calls = @ + 1, ![r].got = got]
At(r, at) == req' = [req EXCEPT ![r].at = at]
Take(r) ==
  /\ chConnss # <<>>
  /\ req' = [req EXCEPT ![r].at = "reset", ![r].hc = Head(chConnss)]
  /\ chConnss' = Tail(chConnss)

\* Client.getConn
getConn(r) ==
  /\ req[r].at = "new"
  /\ IF cliClosed THEN Finish(r, <<"error">>) ELSE At(r, "get")
  /\ UNCHANGED <<cliClosed, crossed, deadlines, panicked, closing, connNum, chConnss, hcs, net, dialerConns>>

\* hostConns.getConn: 1. an existing free connection; c.Timeout may pass.
GetFree(r) ==
  /\ req[r].at = "get"
  /\ \/ cliClosed /\ Finish(r, <<"error">>) /\ UNCHANGED chConnss
     \/ ~cliClosed /\ Take(r)
     \/ ~cliClosed /\ chConnss = <<>> /\ At(r, "count") /\ UNCHANGED chConnss
  /\ UNCHANGED <<cliClosed, crossed, deadlines, panicked, closing, connNum, hcs, net, dialerConns>>

\* 2. a new one, that hcs.mux guards, or the count is taken back.
GetNew(r) ==
  /\ req[r].at = "count"
  /\ connNum' = connNum + 1
  /\ IF connNum + 1 <= MaxConnNum
     THEN /\ closing = {}
          /\ LET h == Cardinality(DOMAIN hcs) IN
             /\ hcs' = [g \in DOMAIN hcs \cup {h} |-> IF g = h THEN Fresh ELSE hcs[g]]
             /\ req' = [req EXCEPT ![r].at = "reset", ![r].hc = h]
     ELSE At(r, "over") /\ UNCHANGED hcs
  /\ UNCHANGED <<cliClosed, crossed, deadlines, panicked, closing, chConnss, net, dialerConns>>

TakeBack(r) ==
  /\ req[r].at = "over"
  /\ connNum' = connNum - 1
  /\ At(r, "wait")
  /\ UNCHANGED <<cliClosed, crossed, deadlines, panicked, closing, chConnss, hcs, net, dialerConns>>

\* 3. one that becomes free, or the timeout.
GetWait(r) ==
  /\ req[r].at = "wait"
  /\ Take(r)
  /\ UNCHANGED <<cliClosed, crossed, deadlines, panicked, closing, connNum, hcs, net, dialerConns>>

GetTimeout(r) ==
  /\ req[r].at \in {"get", "wait"} /\ ~(req[r].at = "get" /\ cliClosed)
  /\ Finish(r, <<"error">>)
  /\ UNCHANGED <<cliClosed, crossed, deadlines, panicked, closing, connNum, chConnss, hcs, net, dialerConns>>

-----------------------------------------------------------------------------
(* Dialing.                                                                *)

\* Mutant: the port is left in the connection.
Socks5StepsNoPort(p) ==
  LET auth == IF p.method = "password" THEN 2 ELSE 0
      size == IF p.atyp = "domain" THEN 1 ELSE 0
      addr == CASE p.atyp = "ip4" -> 4 [] p.atyp = "ip6" -> 16 [] OTHER -> p.addr
  IN << [upTo |-> 2, ok |-> p.version = 5 /\ p.method # "refused"],
        [upTo |-> 2 + auth, ok |-> p.method = "password" => p.accepts],
        [upTo |-> 6 + auth, ok |-> p.reply = 0 /\ p.atyp \in {"ip4", "ip6", "domain"}],
        [upTo |-> 6 + auth + size + addr, ok |-> TRUE] >>

\* How connect reads a SOCKS5 proxy's answer p: the greeting, the reply to a
\* password if that method was chosen, a reply, the address with the length a
\* name has in front, and the port; upTo is how many units that makes.
Socks5Steps(p) ==
  LET auth == IF p.method = "password" THEN 2 ELSE 0
      size == IF p.atyp = "domain" THEN 1 ELSE 0
      addr == CASE p.atyp = "ip4" -> 4 [] p.atyp = "ip6" -> 16 [] OTHER -> p.addr
  IN << [upTo |-> 2, ok |-> p.version = 5 /\ p.method # "refused"],
        [upTo |-> 2 + auth, ok |-> p.method = "password" => p.accepts],
        [upTo |-> 6 + auth, ok |-> p.reply = 0 /\ p.atyp \in {"ip4", "ip6", "domain"}],
        [upTo |-> 6 + auth + size, ok |-> TRUE],
        [upTo |-> 6 + auth + size + addr, ok |-> TRUE],
        [upTo |-> 6 + auth + size + addr + 2, ok |-> TRUE] >>

\* Whether connect returns nil, for which the proxy must have sent all it reads,
\* and how many units it has read then.
Socks5Connect(p) ==
  LET steps == Socks5Steps(p)
  IN [ok |-> \A i \in DOMAIN steps : steps[i].ok /\ steps[i].upTo <= p.sends, read |-> steps[Len(steps)].upTo]

\* An HTTP proxy answers CONNECT with one unit.  Dial returns the reason of an
\* error, and panics when there is none.
HttpProxyDial(p) == [ok |-> p.sends = 1 /\ p.status = 200, read |-> 1]
Panics(p) == p.scheme = "http" /\ p.sends = 1 /\ p.status # 200 /\ ~p.reason

\* Can a dial by way of p succeed?
ProxyDial(p) ==
  CASE p.scheme = "none" -> [ok |-> TRUE, read |-> 0]
    [] p.scheme = "socks5" -> Socks5Connect(p)
    [] p.scheme = "http" -> HttpProxyDial(p)
    [] OTHER -> [ok |-> FALSE, read |-> 0]
Junk(p) == p.sends - ProxyDial(p).read

\* ClientConn.Reset
Reset(r) ==
  LET h == req[r].hc IN
  /\ req[r].at = "reset"
  /\ At(r, "do")
  /\ hcs' = IF hcs[h].closed THEN [hcs EXCEPT ![h] = Fresh] ELSE hcs
  /\ UNCHANGED <<cliClosed, crossed, deadlines, panicked, closing, connNum, chConnss, net, dialerConns>>

Ask(r) ==       \* the user's own ClientConn
  /\ req[r].at = "new"
  /\ At(r, "do")
  /\ UNCHANGED <<cliClosed, crossed, deadlines, panicked, closing, connNum, chConnss, hcs, net, dialerConns>>

\* ClientConn.Do, with c.mux held: on the connection it has, which is given a
\* read deadline (Timeout is set) if no other request is under way on it,
DoOpen(r) ==
  LET h == req[r].hc   k == hcs[h].conn   rs == Append(hcs[h].handlers, r) IN
  /\ req[r].at = "do"
  /\ IF hcs[h].closed THEN Call(h, <<r>>, <<"error">>) /\ UNCHANGED <<hcs, net, dialerConns>>
     ELSE /\ k # NoConn
          /\ IF net[k].open
             THEN /\ At(r, "sent")
                  /\ hcs' = [hcs EXCEPT ![h].handlers = rs]
                  /\ net' = [net EXCEPT ![k].wire = Append(@, r)]
                  /\ UNCHANGED <<chConnss, dialerConns>>
             ELSE closeWithErrorWithoutLock(h, rs, FALSE)
  /\ deadlines' = IF ~hcs[h].closed /\ Len(rs) = 1 /\ net[k].open THEN deadlines \cup {k} ELSE deadlines
  /\ UNCHANGED <<cliClosed, crossed, panicked, closing, connNum>>

\* or on a new one: dialing may fail (the proxy, the handshake and the poller
\* included), and the socket of a proxy that refused is closed.  The deadline
\* netDial sets is that of the socket which NBConn duplicates and closes: the
\* connection has none.
DoDial(r, p) ==
  LET h == req[r].hc   rs == Append(hcs[h].handlers, r) IN
  /\ req[r].at = "do" /\ ~hcs[h].closed /\ hcs[h].conn = NoConn /\ ~Panics(p)
  /\ IF ProxyDial(p).ok /\ Len(net) < MaxDials
     THEN /\ At(r, "sent")
          /\ net' = Append(net, [hc |-> h, open |-> TRUE, wire |-> <<r>>, jobs |-> <<>>,
                                 notified |-> FALSE, junk |-> Junk(p)])
          /\ dialerConns' = dialerConns \cup {Len(net) + 1}
          /\ hcs' = [hcs EXCEPT ![h].conn = Len(net) + 1, ![h].handlers = rs]
          /\ UNCHANGED chConnss
     ELSE closeWithErrorWithoutLock(h, rs, FALSE)
  /\ UNCHANGED <<cliClosed, crossed, deadlines, panicked, closing, connNum>>

\* Do recovers from a panic of the dialer: the handler stays in the list.
DoPanics(r, p) ==
  LET h == req[r].hc IN
  /\ req[r].at = "do" /\ ~hcs[h].closed /\ hcs[h].conn = NoConn /\ Panics(p)
  /\ At(r, "sent")
  /\ hcs' = [hcs EXCEPT ![h].handlers = Append(@, r)]
  /\ panicked' = panicked \cup {h}
  /\ UNCHANGED <<cliClosed, crossed, deadlines, closing, connNum, chConnss, net, dialerConns>>

DialFails(r) ==
  /\ req[r].at = "do" /\ ~hcs[req[r].hc].closed /\ hcs[req[r].hc].conn = NoConn
  /\ closeWithErrorWithoutLock(req[r].hc, Append(hcs[req[r].hc].handlers, r), FALSE)
  /\ UNCHANGED <<cliClosed, crossed, deadlines, panicked, closing, connNum>>

-----------------------------------------------------------------------------
(* The connections.  The responses are parsed in the poller and handled by *)
(* the jobs of the connection.                                             *)

Reply(k) ==
  /\ net[k].open /\ net[k].wire # <<>>
  /\ net' = [net EXCEPT ![k].wire = Tail(@), ![k].jobs = Append(@, <<"response", Head(net[k].wire)>>)]
  /\ UNCHANGED <<cliClosed, crossed, deadlines, panicked, closing, connNum, chConnss, req, hcs, dialerConns>>

\* The peer closes the connection; its read deadline passes.
NetCloses(k) ==
  /\ net[k].open
  /\ net' = [net EXCEPT ![k].open = FALSE]
  /\ UNCHANGED <<cliClosed, crossed, deadlines, panicked, closing, connNum, chConnss, req, hcs, dialerConns>>
Deadline(k) == k \in deadlines /\ NetCloses(k)

\* The engine's OnClose function.
NetNotifies(k) ==
  /\ ~net[k].open /\ ~net[k].notified
  /\ net' = [net EXCEPT ![k].notified = TRUE, ![k].jobs = Append(@, <<"close">>)]
  /\ UNCHANGED <<cliClosed, crossed, deadlines, panicked, closing, connNum, chConnss, req, hcs, dialerConns>>

\* onResponse: the head handler is called, then removed; a handler behind it
\* whose time has passed fails with all others, otherwise the deadline stays
\* as it is until no handler is left.
onResponse(k, r) ==
  LET h == net[k].hc   rs == hcs[h].handlers IN
  IF hcs[h].closed \/ rs = <<>>
  THEN /\ net' = [net EXCEPT ![k].jobs = Tail(@)]
       /\ UNCHANGED <<chConnss, req, hcs, dialerConns, deadlines>>
  ELSE /\ Call(h, <<Head(rs)>>, <<"response", r>>)
       /\ hcs' = [hcs EXCEPT ![h].handlers = Tail(@)]
       /\ net' = [net EXCEPT ![k].jobs = Tail(@)]
       /\ deadlines' = IF Len(rs) = 1 THEN deadlines \ {hcs[h].conn} ELSE deadlines
       /\ UNCHANGED dialerConns

\* The same when the next handler's time has passed.
onResponseLate(k, r) ==
  LET h == net[k].hc   rs == hcs[h].handlers   c == hcs[h].conn IN
  /\ ~hcs[h].closed /\ Len(rs) > 1
  /\ req' = [q \in Reqs |-> IF q \in ToSet(rs)
                            THEN [req[q] EXCEPT !.at = "done", !.calls = @ + 1,
                                    !.got = IF q = Head(rs) THEN <<"response", r>> ELSE <<"error">>]
                            ELSE req[q]]
  /\ chConnss' = IF h = Own THEN chConnss ELSE chConnss \o [j \in 1 .. Len(rs) |-> h]
  /\ hcs' = [hcs EXCEPT ![h] = Fresh]
  /\ net' = [j \in DOMAIN net |->
               [net[j] EXCEPT !.jobs = IF j = k THEN Tail(@) ELSE @, !.open = @ /\ j # c]]
  /\ dialerConns' = dialerConns \ {c}

\* A response is in the jobs of connection k.
Answered(k) == \E i \in DOMAIN net[k].jobs : net[k].jobs[i][1] = "response"

\* The clean-up job: the parser's OnClose closes the ClientConn, whichever
\* connection that has by now.
NetCleans(k) ==
  LET h == net[k].hc   c == hcs[h].conn IN
  /\ IF hcs[h].closed
     THEN net' = [net EXCEPT ![k].jobs = Tail(@)] /\ UNCHANGED <<chConnss, req, hcs>>
     ELSE /\ Call(h, hcs[h].handlers, <<"error">>)
          /\ hcs' = [hcs EXCEPT ![h] = [Fresh EXCEPT !.closed = TRUE]]
          /\ net' = [j \in DOMAIN net |->
                       [net[j] EXCEPT !.jobs = IF j = k THEN Tail(@) ELSE @, !.open = @ /\ j # c]]
  /\ dialerConns' = dialerConns \ {k, c}
  /\ crossed' = (crossed \/ (~hcs[h].closed /\ c \notin {NoConn, k} /\ Answered(c)))

NetJob(k) ==
  /\ net[k].jobs # <<>>
  /\ LET j == Head(net[k].jobs) IN
     \/ j[1] = "response" /\ onResponse(k, j[2]) /\ UNCHANGED crossed
     \/ j[1] = "response" /\ onResponseLate(k, j[2]) /\ UNCHANGED <<crossed, deadlines>>
     \/ j[1] = "close" /\ NetCleans(k) /\ UNCHANGED deadlines
  /\ UNCHANGED <<cliClosed, panicked, closing, connNum>>

-----------------------------------------------------------------------------
(* Properties.                                                             *)

Pooled == {r \in Reqs : req[r].hc # Own}
Users(h) == Cardinality({r \in Pooled : req[r].hc = h /\ req[r].at \in {"reset", "do", "sent"}})
            + Cardinality({k \in DOMAIN chConnss : chConnss[k] = h})

\* A request's handler is called once, and a ClientConn of the pool is free or
\* belongs to one request, whatever closes it meanwhile: it is never lost and
\* never in the pool twice, so that giving it back, which is done with c.mux
\* held, does not block (client.go, getConn, releaseConn and Do; client_conn.go).
PoolExact ==
  /\ \A r \in Reqs : req[r].calls = (IF req[r].at = "done" THEN 1 ELSE 0)
  /\ \A h \in DOMAIN hcs \ {Own} :
       /\ Users(h) = 1
       /\ Len(hcs[h].handlers) <= 1
  /\ Cardinality(DOMAIN hcs \ {Own}) <= MaxConnNum /\ Len(chConnss) <= MaxConnNum
  /\ connNum = Cardinality(DOMAIN hcs \ {Own}) + Cardinality({r \in Reqs : req[r].at = "over"})

\* Until the client is closed, a handler of Client.Do gets the response to its
\* own request: a connection carries one at a time, nothing of a proxy's answer
\* is left in front of it, and a late event of an old connection brings no
\* other response, unless the clean-up of the old connection closed a new one
\* whose response was already in its jobs: that one goes to whoever sends next
\* (client_conn.go, onResponse; client.go, the proxy dialers).
ResponseMatches ==
  /\ cliClosed \/ crossed \/ \A r \in Pooled : req[r].got \in {<<>>, <<"error">>, <<"response", r>>}
  /\ \A k \in DOMAIN net : net[k].junk = 0
=============================================================================
