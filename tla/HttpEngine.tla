----------------------------- MODULE HttpEngine ------------------------------
(***************************************************************************)
(* nbhttp/engine.go: the listeners (with Lmux in IOModMixed), the table of *)
(* connections, serving and closing them, and Shutdown; with the           *)
(* connections an HttpClient dials, which are in a table of the same       *)
(* engine.                                                                 *)
(*                                                                         *)
(* A connection is <<c, "tcp">> while a goroutine of its own reads it      *)
(* (rd[c]) and <<c, "nbc">> when it is in a poller (nb[c]); a WebSocket    *)
(* upgrade may turn the one into the other.                                *)
(***************************************************************************)
EXTENDS Lmux, HttpClient

CONSTANTS
  Scenarios,    \* what happens: [mods, arrivals, reqs, own, closes, stops]
  MaxLoad

ASSUME EngineAssumption == MaxLoad \in Nat \ {0}

VARIABLES
  ioMod,        \* "mixed", "blocking" or "nonblocking"
  scenario,
  shutdown,     \* e.shutdown
  la,           \* the goroutines of listen: [at, conn]
  conns,        \* e.conns
  open,         \* open connections
  via,          \* the listener that gave a connection out
  rd,           \* "no", "table", "reading", "convert", "transfer", "ending", "ended", "gone"
  nb,           \* "no", "table", "polled", "gone"
  sd,           \* Shutdown: "no", "listeners", "close", "tick", "stop", "pollers", "deferred", "done", "timeout"
  stuck         \* Engine.Stop waits for connections that cannot end

serverVars == <<shutdown, la, conns, open, via, rd, nb, stuck>>
fixed == <<ioMod, scenario>>
vars == <<lmuxVars, clientVars, fixed, serverVars, sd>>

Listeners == IF ioMod = "mixed" THEN {"A", "B"} ELSE {"L"}
Blocking(x) == x = "A" \/ (x = "L" /\ ioMod = "blocking")
Idle == [at |-> "check", conn |-> Error]

Init ==
  /\ scenario \in Scenarios /\ ioMod \in scenario.mods
  /\ LmuxInit(ioMod = "mixed") /\ ClientInit
  /\ shutdown = FALSE /\ la = [x \in {"A", "B", "L"} |-> Idle]
  /\ conns = {} /\ open = {} /\ via = [c \in Conns |-> "no"]
  /\ rd = [c \in Conns |-> "no"] /\ nb = [c \in Conns |-> "no"]
  /\ sd = "no" /\ stuck = FALSE

-----------------------------------------------------------------------------
(* listen                                                                  *)

Arrive(c) ==
  /\ c \in scenario.arrivals /\ listening /\ via[c] = "no" /\ c \notin backlog
  /\ \A d \in scenario.arrivals : d < c => via[d] # "no" \/ d \in backlog
  /\ <<c, "tcp">> \notin open
  /\ backlog' = backlog \cup {c} /\ open' = open \cup {<<c, "tcp">>}
  /\ UNCHANGED <<listening, lmShutdown, onlineA, mux, chEvent, chClose, clientVars, fixed, shutdown, la,
                 conns, via, rd, nb, sd, stuck>>

ListenCheck(x) ==
  /\ la[x].at = "check"
  /\ la' = [la EXCEPT ![x].at = IF shutdown THEN "gone" ELSE "accept"]
  /\ UNCHANGED <<lmuxVars, clientVars, fixed, shutdown, conns, open, via, rd, nb, sd, stuck>>

\* What Accept returned: a connection is added, unless the engine shuts down,
\* when it is dropped as it is.
Got(x, e) ==
  /\ la' = [la EXCEPT ![x] = IF e \in Conns /\ ~shutdown THEN [at |-> "add", conn |-> e] ELSE Idle]
  /\ via' = IF e \in Conns THEN [via EXCEPT ![e] = x] ELSE via
  /\ UNCHANGED <<clientVars, fixed, shutdown, conns, open, rd, nb, sd, stuck>>

ListenMux(x) ==
  /\ x # "L" /\ la[x].at = "accept"
  /\ \E e \in AcceptOutcomes(x) : Accepted(x, e) /\ Got(x, e)
  /\ UNCHANGED <<backlog, listening, lmShutdown, onlineA, mux, chClose>>

ListenDirect ==
  /\ la["L"].at = "accept"
  /\ \/ \E c \in backlog : backlog' = backlog \ {c} /\ Got("L", c)
     \/ ~listening /\ Got("L", Error) /\ UNCHANGED backlog
  /\ UNCHANGED <<listening, lmShutdown, onlineA, mux, chEvent, chClose>>

-----------------------------------------------------------------------------
(* Adding a connection: AddConnNonTLSBlocking and AddConnTLSBlocking,      *)
(* AddConnNonTLSNonBlocking and AddConnTLSNonBlocking.                     *)

Handle(x) == <<la[x].conn, IF Blocking(x) THEN "tcp" ELSE "nbc">>
Convert(x) == (open \ {<<la[x].conn, "tcp">>}) \cup {Handle(x)}     \* NBConn

\* Too many connections, or one that cannot be converted: it is closed.
AddRefuse(x) ==
  /\ la[x].at = "add"
  /\ open' = open \ {<<la[x].conn, "tcp">>}
  /\ la' = [la EXCEPT ![x] = Idle]
  /\ Decrease(x)
  /\ IF Blocking(x) THEN rd' = [rd EXCEPT ![la[x].conn] = "gone"] /\ UNCHANGED nb
                    ELSE nb' = [nb EXCEPT ![la[x].conn] = "gone"] /\ UNCHANGED rd
  /\ UNCHANGED <<backlog, listening, lmShutdown, mux, chEvent, chClose, clientVars, fixed, shutdown,
                 conns, via, sd, stuck>>

AddTable(x) ==
  /\ la[x].at = "add" /\ Cardinality(conns) < MaxLoad
  /\ open' = Convert(x)
  /\ conns' = conns \cup {Handle(x)}
  /\ la' = [la EXCEPT ![x].at = "start"]
  /\ IF Blocking(x) THEN rd' = [rd EXCEPT ![la[x].conn] = "table"] /\ UNCHANGED nb
                    ELSE nb' = [nb EXCEPT ![la[x].conn] = "table"] /\ UNCHANGED rd
  /\ UNCHANGED <<lmuxVars, clientVars, fixed, shutdown, via, sd, stuck>>

\* The goroutine that reads is started,
StartReading(x) ==
  /\ la[x].at = "start" /\ Blocking(x)
  /\ rd' = [rd EXCEPT ![la[x].conn] = "reading"]
  /\ la' = [la EXCEPT ![x] = Idle]
  /\ UNCHANGED <<lmuxVars, clientVars, fixed, shutdown, conns, open, via, nb, sd, stuck>>

\* or nbio's AddConn called.  It fails when closeAllConns has closed the
\* connection, which then stays counted, for want of a descriptor, or when the
\* pollers are gone; behind the snapshot of Engine.Stop nobody closes what is
\* added.
PollersGone == sd \in {"deferred", "done"}
Poll(c, ok) ==
  IF ok /\ <<c, "nbc">> \in open /\ ~PollersGone
  THEN /\ nb' = [nb EXCEPT ![c] = "polled"]
       /\ stuck' \in {stuck, stuck \/ sd = "stop"}
       /\ UNCHANGED <<conns, open>>
  ELSE /\ nb' = [nb EXCEPT ![c] = "gone"] /\ stuck' = (stuck \/ (ok /\ ~PollersGone))
       /\ conns' = conns \ {<<c, "nbc">>} /\ open' = open \ {<<c, "nbc">>}

StartPolling(x, ok) ==
  /\ la[x].at = "start" /\ ~Blocking(x)
  /\ Poll(la[x].conn, ok)
  /\ la' = [la EXCEPT ![x] = Idle]
  /\ UNCHANGED <<lmuxVars, clientVars, fixed, shutdown, via, rd, sd>>

-----------------------------------------------------------------------------
(* Serving and closing.                                                    *)

ConnCloses(h) ==      \* the peer, a deadline, a handler
  /\ h \in open /\ (h[2] = "tcp" => rd[h[1]] = "reading") /\ (h[2] = "nbc" => nb[h[1]] = "polled")
  /\ open' = open \ {h}
  /\ UNCHANGED <<lmuxVars, clientVars, fixed, shutdown, la, conns, via, rd, nb, sd, stuck>>

\* An upgrade, called from a handler of a blocking connection, turns it into
\* one for a poller: NBConn closes the old one,
Transfer(c) ==
  /\ rd[c] = "reading" /\ nb[c] = "no" /\ <<c, "tcp">> \in open
  /\ open' = (open \ {<<c, "tcp">>}) \cup {<<c, "nbc">>}
  /\ rd' = [rd EXCEPT ![c] = "convert"]
  /\ UNCHANGED <<lmuxVars, clientVars, fixed, shutdown, la, conns, via, nb, sd, stuck>>

\* whose goroutine ends whether AddTransferredConn adds the new one or not.
AddTransferredConn(c) ==
  /\ rd[c] = "convert"
  /\ IF Cardinality(conns) >= MaxLoad
     THEN /\ open' = open \ {<<c, "nbc">>}
          /\ nb' = [nb EXCEPT ![c] = "gone"] /\ UNCHANGED conns
          /\ rd' = [rd EXCEPT ![c] = "ending"]
     ELSE /\ conns' = conns \cup {<<c, "nbc">>}
          /\ nb' = [nb EXCEPT ![c] = "table"] /\ UNCHANGED open
          /\ rd' = [rd EXCEPT ![c] = "transfer"]
  /\ UNCHANGED <<lmuxVars, clientVars, fixed, shutdown, la, via, sd, stuck>>

TransferPolls(c, ok) ==
  /\ rd[c] = "transfer"
  /\ Poll(c, ok)
  /\ rd' = [rd EXCEPT ![c] = "ending"]
  /\ UNCHANGED <<lmuxVars, clientVars, fixed, shutdown, la, via, sd>>

\* readConnBlocking and readTLSConnBlocking end: the parser is cleaned, the
\* connection deleted,
ReadEnds(c) ==
  /\ \/ rd[c] = "reading" /\ <<c, "tcp">> \notin open
     \/ rd[c] = "ending"
  /\ rd' = [rd EXCEPT ![c] = "ended"]
  /\ conns' = conns \ {<<c, "tcp">>}
  /\ UNCHANGED <<lmuxVars, clientVars, fixed, shutdown, la, open, via, nb, sd, stuck>>

\* Mutant: not for a connection that was transferred.
ReadEndedOwn(c) ==
  /\ rd[c] = "ended"
  /\ rd' = [rd EXCEPT ![c] = "gone"]
  /\ IF nb[c] = "no" THEN Decrease(via[c]) ELSE UNCHANGED onlineA
  /\ UNCHANGED <<backlog, listening, lmShutdown, mux, chEvent, chClose, clientVars, fixed, shutdown,
                 la, conns, open, via, nb, sd, stuck>>

\* and its place in A free.
ReadEnded(c) ==
  /\ rd[c] = "ended"
  /\ rd' = [rd EXCEPT ![c] = "gone"]
  /\ Decrease(via[c])
  /\ UNCHANGED <<backlog, listening, lmShutdown, mux, chEvent, chClose, clientVars, fixed, shutdown,
                 la, conns, open, via, nb, sd, stuck>>

\* Mutant: the connection stays in the table.
OnCloseKeeps(c) ==
  /\ nb[c] = "polled" /\ <<c, "nbc">> \notin open
  /\ nb' = [nb EXCEPT ![c] = "gone"]
  /\ UNCHANGED <<lmuxVars, clientVars, fixed, shutdown, la, conns, open, via, rd, sd, stuck>>

\* The job of the engine's OnClose function.
OnClose(c) ==
  /\ nb[c] = "polled" /\ <<c, "nbc">> \notin open
  /\ nb' = [nb EXCEPT ![c] = "gone"]
  /\ conns' = conns \ {<<c, "nbc">>}
  /\ UNCHANGED <<lmuxVars, clientVars, fixed, shutdown, la, open, via, rd, sd, stuck>>

-----------------------------------------------------------------------------
(* Shutdown                                                                *)

ShutdownStart ==
  /\ sd = "no" /\ scenario.stops
  /\ shutdown' = TRUE /\ sd' = "listeners"
  /\ UNCHANGED <<lmuxVars, clientVars, fixed, la, conns, open, via, rd, nb, stuck>>

\* stopListeners: the kernel resets what is in the backlog.
stopListeners ==
  /\ sd = "listeners"
  /\ MuxStop
  /\ open' = open \ {<<c, "tcp">> : c \in backlog}
  /\ sd' = "close"
  /\ UNCHANGED <<clientVars, fixed, shutdown, la, conns, via, rd, nb, stuck>>

closeAllConns ==
  /\ open' = open \ conns
  /\ net' = [k \in DOMAIN net |-> [net[k] EXCEPT !.open = @ /\ k \notin dialerConns]]
  /\ UNCHANGED <<lmuxVars, cliClosed, crossed, deadlines, panicked, closing, connNum, chConnss, req, hcs, dialerConns, fixed,
                 shutdown, la, conns, via, rd, nb, stuck>>

ShutdownCloses == sd = "close" /\ closeAllConns /\ sd' = "tick"

ShutdownTick ==
  /\ sd = "tick"
  /\ sd' = IF conns = {} /\ dialerConns = {} THEN "stop" ELSE "close"
  /\ UNCHANGED <<lmuxVars, clientVars, fixed, serverVars>>

\* nbio's Engine.Stop closes what the pollers have and waits until that is done,
\* when the jobs of OnClose are pushed but need not have run;
StopCloses ==
  /\ sd = "stop" /\ \E c \in Conns : nb[c] = "polled" /\ <<c, "nbc">> \in open
  /\ ~stuck
  /\ open' = {h \in open : h[2] = "nbc" => nb[h[1]] # "polled"}
  /\ UNCHANGED <<lmuxVars, clientVars, fixed, shutdown, la, conns, via, rd, nb, sd, stuck>>

StopWaited ==
  /\ sd = "stop" /\ ~stuck
  /\ \A c \in Conns : nb[c] = "polled" => <<c, "nbc">> \notin open
  /\ sd' = "pollers"
  /\ UNCHANGED <<lmuxVars, clientVars, fixed, serverVars>>

\* it then stops the pollers and waits for the goroutines of listen.
EngineStops ==
  /\ sd = "pollers"
  /\ \A x \in Listeners : la[x].at = "gone"
  /\ sd' = "deferred"
  /\ UNCHANGED <<lmuxVars, clientVars, fixed, serverVars>>

\* Mutant: Shutdown returns without closing what was added meanwhile.
ShutdownReturnsEarly ==
  sd = "deferred" /\ sd' = "done" /\ UNCHANGED <<lmuxVars, clientVars, fixed, serverVars>>

\* The deferred closeAllConns.
ShutdownReturns == sd = "deferred" /\ closeAllConns /\ sd' = "done"

ShutdownTimeout ==
  /\ sd \in {"tick", "stop", "pollers"}
  /\ closeAllConns /\ sd' = "timeout"

-----------------------------------------------------------------------------
Client ==
  /\ \/ \E r \in Reqs : \/ (r \in scenario.reqs \ scenario.own /\ getConn(r))
                        \/ (r \in scenario.own /\ Ask(r))
                        \/ GetFree(r) \/ GetNew(r) \/ TakeBack(r) \/ GetWait(r) \/ GetTimeout(r)
                        \/ Reset(r) \/ DoOpen(r) \/ (\E p \in Proxies : DoDial(r, p) \/ DoPanics(r, p))
                        \/ DialFails(r)
     \/ scenario.closes /\ CloseClient
     \/ \E h \in closing : CloseHc(h)
     \/ \E k \in DOMAIN net : Reply(k) \/ NetCloses(k) \/ NetNotifies(k) \/ NetJob(k)
  /\ UNCHANGED <<lmuxVars, fixed, serverVars, sd>>

Mux == (\E c \in Conns : MuxAccept(c)) \/ MuxTakeBack \/ MuxFails
MuxStep == Mux /\ UNCHANGED <<clientVars, fixed, serverVars, sd>>
Listen(x) == ListenCheck(x) \/ ListenMux(x) \/ (x = "L" /\ ListenDirect)
             \/ AddRefuse(x) \/ AddTable(x) \/ StartReading(x) \/ (\E ok \in BOOLEAN : StartPolling(x, ok))
Serve(c) == AddTransferredConn(c) \/ (\E ok \in BOOLEAN : TransferPolls(c, ok)) \/ ReadEnds(c) \/ ReadEnded(c) \/ OnClose(c)
Shutdown == stopListeners \/ ShutdownCloses \/ ShutdownTick \/ StopCloses \/ StopWaited \/ EngineStops
            \/ ShutdownReturns

Next ==
  \/ Client \/ MuxStep
  \/ \E x \in Listeners : Listen(x)
  \/ \E c \in Conns : Arrive(c) \/ Serve(c) \/ Transfer(c)
  \/ \E h \in Conns \X {"tcp", "nbc"} : ConnCloses(h)
  \/ ShutdownStart \/ Shutdown \/ ShutdownTimeout

\* A goroutine that can go on does; a job is run, and a deadline that is set
\* passes, until OnStop and Timer.Stop.  Nothing is assumed of the user, of the
\* servers and of ctx.
ClientGoesOn(r) ==
  /\ r \in scenario.reqs
  /\ GetFree(r) \/ GetNew(r) \/ TakeBack(r) \/ GetWait(r) \/ GetTimeout(r) \/ Reset(r) \/ DoOpen(r)
     \/ (\E p \in Proxies : DoDial(r, p) \/ DoPanics(r, p))
  /\ UNCHANGED <<lmuxVars, fixed, serverVars, sd>>
EngineRuns == sd \in {"no", "listeners", "close", "tick", "stop"}
NetGoesOn(k) ==
  /\ k \in DOMAIN net /\ EngineRuns
  /\ Deadline(k) \/ NetNotifies(k) \/ NetJob(k)
  /\ UNCHANGED <<lmuxVars, fixed, serverVars, sd>>
CloseGoesOn == (\E h \in closing : CloseHc(h)) /\ UNCHANGED <<lmuxVars, fixed, serverVars, sd>>

Spec ==
  /\ Init /\ [][Next]_vars
  /\ \A r \in Reqs : WF_vars(ClientGoesOn(r))
  /\ \A k \in 1 .. MaxDials : WF_vars(NetGoesOn(k))
  /\ WF_vars(CloseGoesOn) /\ WF_vars(MuxStep /\ ~MuxFails) /\ WF_vars(Shutdown)
  /\ \A x \in {"A", "B", "L"} : WF_vars(x \in Listeners /\ Listen(x))
  /\ \A c \in Conns : WF_vars(c \in scenario.arrivals /\ Serve(c))

-----------------------------------------------------------------------------
(* Properties.                                                             *)

ToA(c) == via[c] = "A" \/ \E k \in DOMAIN chEvent["A"] : chEvent["A"][k] = c
InChannel(c) == \E x \in {"A", "B"} : \E k \in DOMAIN chEvent[x] : chEvent[x][k] = c
Held(c) == c \in backlog \/ mux.conn = c \/ InChannel(c) \/ \E x \in Listeners : la[x].at = "add" /\ la[x].conn = c

\* Until the engine shuts down every open connection is in the table, waits to
\* be added or is being transferred; the table keeps to MaxLoad; onlineA counts
\* the connections sent to A that have not ended, whichever way they did, and
\* keeps to its limit when what is about to be taken back is left out (lmux.go,
\* Start; engine.go, AddConn*, AddTransferredConn and readConnBlocking).
TableAndOnlineExact ==
  /\ ~shutdown => \A h \in open : \/ h \in conns \/ (h[2] = "tcp" /\ Held(h[1]))
                                  \/ (h[2] = "nbc" /\ rd[h[1]] = "convert")
  /\ Cardinality(conns) <= MaxLoad
  /\ onlineA = Cardinality({c \in Conns : ToA(c) /\ rd[c] # "gone"}) + (IF mux.at = "over" THEN 1 ELSE 0)
  /\ Cardinality({c \in Conns : ToA(c) /\ rd[c] # "gone"}) <= MaxOnlineA

\* When Shutdown has returned without an error, every connection in the table
\* is closed, also one that a listener was adding when the tables were seen
\* empty; only one that is being transferred may be open, which the next step
\* of AddTransferredConn closes (engine.go, Shutdown, listen and
\* AddTransferredConn).
ShutdownClosesAll ==
  sd = "done" => \A h \in open \cap conns : h[2] = "nbc" /\ rd[h[1]] = "transfer"

\* The connection r waits on is open and has no read deadline, and nothing of
\* its answer is there.
Unwatched(r) ==
  LET k == hcs[req[r].hc].conn IN
  /\ req[r].at = "sent" /\ k # NoConn
  /\ net[k].open /\ k \notin deadlines /\ net[k].wire # <<>> /\ net[k].jobs = <<>>

\* A handler is called for every request the client accepted, for a response, a
\* closed connection, the timeout of the pool or of the request (client.go, Do
\* and getConn; client_conn.go).  Three kinds of request are left out: one that
\* waits for a silent server on a connection that was never given a deadline,
\* which is every request that had to dial, and what is sent behind it; one on
\* a ClientConn whose Do panicked; and one that nbio's Engine.Stop overtakes or
\* may, Shutdown having given up.
RequestsAnswered ==
  \A r \in Reqs : (req[r].at # "new") ~>
                     (\/ req[r].at = "done" \/ Unwatched(r) \/ req[r].hc \in panicked
                      \/ ~EngineRuns)

\* Shutdown returns, unless Engine.Stop waits for a connection that was closed
\* before, or is added after, the pollers knew it (engine.go, Shutdown).
ShutdownEnds == (sd # "no") ~> (sd \in {"done", "timeout"} \/ stuck)
=============================================================================
