--------------------------- MODULE EngineLifecycle ---------------------------
(***************************************************************************)
(* engine.go, engine_unix.go, poller_epoll.go: how connections enter and   *)
(* leave an Engine, and how Stop waits for them.  An acceptor goroutine    *)
(* and a dialing goroutine register Conns while users, pollers and Stop    *)
(* close them.  fd numbers are reused as soon as they are closed, and the  *)
(* table connsUnix is read and written without a lock.                     *)
(*                                                                         *)
(* Closing takes three steps (closing[c]): c.closed is set under c.mux,    *)
(* deleteConn clears the table and hands the OnClose handler to            *)
(* Timer.Async, and the fd is closed.  Timer.Async is the serial executor  *)
(* that TimerAsync implements.                                             *)
(***************************************************************************)
EXTENDS Integers, Sequences, FiniteSets

CONSTANTS
  Conns, NoConn,
  NFds,          \* fds the process may have are 1 .. NFds
  MaxOpenFiles   \* the length of connsUnix: larger fds are refused

ASSUME NoConnAssumption == NoConn \notin Conns
ASSUME FdAssumption == NFds \in Nat /\ MaxOpenFiles \in 2 .. NFds + 1

Fds == 1 .. NFds
Slots == 1 .. MaxOpenFiles - 1
Adders == {"accept", "dial"}   \* acceptorLoop, and DialAsyncTimeout's caller
NoFd == 0
AsyncFuncs == {"onClose", "close"} \X Conns   \* what Timer.Async is given

VARIABLES
  fdOf,       \* c.fd, NoFd before the Conn exists
  owner,      \* whose fd the kernel has open
  epoll,      \* fds registered with the poller's epoll instance
  connsUnix,  \* g.connsUnix
  closing,    \* how far the close of c is: "no", "closed", "deleted", "done"
  added,      \* g.wgConn.Add(1) was called for c
  notified,   \* how often the OnClose handler has run for c
  shared,     \* Conns that user goroutines know
  apc, acur,  \* where an adder is, and its Conn
  asyncList,  \* functions waiting in Timer.Async
  asyncRun,   \* the Conn whose Close the Async goroutine is executing
  pev,        \* the fd whose event the poller handles
  wgConn,     \* the counter of g.wgConn
  stopPc,     \* where Stop is
  idx,        \* its index in connsUnix
  early,      \* a Conn was closed while it was being added, or its adding failed
  late,       \* a Conn was being added after Stop was called
  dialFailed  \* the registration of a dialed Conn failed

vars == <<fdOf, owner, epoll, connsUnix, closing, added, notified, shared, apc, acur,
          asyncList, asyncRun, pev, wgConn, stopPc, idx, early, late, dialFailed>>
fdVars == <<fdOf, owner, epoll, connsUnix>>
connVars == <<closing, added, notified, shared>>
asyncVars == <<asyncList, asyncRun>>
stopVars == <<stopPc, idx>>
history == <<early, late, dialFailed>>

Init ==
  /\ fdOf = [c \in Conns |-> NoFd]
  /\ owner = [f \in Fds |-> NoConn] /\ epoll = {}
  /\ connsUnix = [f \in Slots |-> NoConn]
  /\ closing = [c \in Conns |-> "no"] /\ added = {} /\ shared = {}
  /\ notified = [c \in Conns |-> 0]
  /\ apc = [a \in Adders |-> "idle"] /\ acur = [a \in Adders |-> NoConn]
  /\ asyncList = <<>> /\ asyncRun = NoConn
  /\ pev = NoFd
  /\ wgConn = 1                       \* initHandlers
  /\ stopPc = "no" /\ idx = 1
  /\ early = FALSE /\ late = FALSE /\ dialFailed = FALSE

-----------------------------------------------------------------------------
(* Closing a Conn.                                                         *)

Open(c) == fdOf[c] # NoFd /\ closing[c] = "no"

\* Mutant: c.closed is not checked.
closeWithErrorAgain(c) ==
  /\ closing' = [closing EXCEPT ![c] = "closed"]
  /\ early' = (early \/ c \in {acur[a] : a \in Adders})

\* closeWithError: only the first caller goes on to close the Conn.
closeWithError(c) ==
  IF Open(c)
  THEN /\ closing' = [closing EXCEPT ![c] = "closed"]
       /\ early' = (early \/ c \in {acur[a] : a \in Adders})
  ELSE UNCHANGED <<closing, early>>

\* Mutant: the table is left alone.
deleteConnKeeps(c) ==
  /\ closing[c] = "closed"
  /\ closing' = [closing EXCEPT ![c] = "deleted"]
  /\ asyncList' = Append(asyncList, <<"onClose", c>>)
  /\ UNCHANGED <<fdVars, added, notified, shared, apc, acur, asyncRun, pev, wgConn, stopVars, history>>

\* Mutant: onClose is only called for a Conn found in the table.
deleteConnIfListed(c) ==
  /\ closing[c] = "closed"
  /\ closing' = [closing EXCEPT ![c] = "deleted"]
  /\ IF connsUnix[fdOf[c]] = c
     THEN /\ connsUnix' = [connsUnix EXCEPT ![fdOf[c]] = NoConn]
          /\ asyncList' = Append(asyncList, <<"onClose", c>>)
     ELSE UNCHANGED <<connsUnix, asyncList>>
  /\ UNCHANGED <<fdOf, owner, epoll, added, notified, shared, apc, acur, asyncRun, pev, wgConn,
                 stopVars, history>>

\* The table entry is cleared if it is still c's, and onClose hands the
\* handler to Async.
deleteConn(c) ==
  /\ closing[c] = "closed"
  /\ closing' = [closing EXCEPT ![c] = "deleted"]
  /\ connsUnix' = IF connsUnix[fdOf[c]] = c THEN [connsUnix EXCEPT ![fdOf[c]] = NoConn] ELSE connsUnix
  /\ asyncList' = Append(asyncList, <<"onClose", c>>)
  /\ UNCHANGED <<fdOf, owner, epoll, added, notified, shared, apc, acur, asyncRun, pev, wgConn,
                 stopVars, history>>

\* syscall.Close; the kernel drops the registration with the fd.
CloseFd(c) ==
  /\ closing[c] = "deleted"
  /\ closing' = [closing EXCEPT ![c] = "done"]
  /\ owner' = [owner EXCEPT ![fdOf[c]] = NoConn]
  /\ epoll' = epoll \ {fdOf[c]}
  /\ UNCHANGED <<fdOf, connsUnix, added, notified, shared, apc, acur, asyncVars, pev, wgConn,
                 stopVars, history>>

Close(c) ==
  /\ c \in shared
  /\ Open(c)
  /\ closeWithError(c)
  /\ UNCHANGED <<fdVars, added, notified, shared, apc, acur, asyncVars, pev, wgConn, stopVars,
                 late, dialFailed>>

-----------------------------------------------------------------------------
(* Adding a Conn: acceptorLoop with addConn, DialAsyncTimeout with         *)
(* addDialer.                                                              *)

At(a, place) == apc[a] = place
Goto(a, place) == /\ apc' = [apc EXCEPT ![a] = place]
                  /\ UNCHANGED acur
Leave(a) == /\ apc' = [apc EXCEPT ![a] = "idle"]
            /\ acur' = [acur EXCEPT ![a] = NoConn]
Adding == late' = (late \/ stopPc # "no")

\* Accept and NBConn, or Socket and Connect: a new Conn on any free fd.  The
\* listener is closed when Stop begins.
NewConn(a, c, f) ==
  /\ At(a, "idle")
  /\ a = "accept" => stopPc = "no"
  /\ stopPc # "stopped"
  /\ fdOf[c] = NoFd
  /\ owner[f] = NoConn
  /\ fdOf' = [fdOf EXCEPT ![c] = f]
  /\ owner' = [owner EXCEPT ![f] = c]
  /\ apc' = [apc EXCEPT ![a] = "new"]
  /\ acur' = [acur EXCEPT ![a] = c]
  /\ Adding
  /\ UNCHANGED <<epoll, connsUnix, connVars, asyncVars, pev, wgConn, stopVars, early, dialFailed>>

\* The fd is too large: the Conn is closed before it has a poller, without
\* OnClose.  (DialAsyncTimeout takes its Add back.)
TooManyFiles(a) ==
  /\ At(a, "new")
  /\ LET c == acur[a] IN
     /\ fdOf[c] >= MaxOpenFiles
     /\ closing' = [closing EXCEPT ![c] = "done"]
     /\ owner' = [owner EXCEPT ![fdOf[c]] = NoConn]
  /\ Leave(a)
  /\ Adding
  /\ UNCHANGED <<fdOf, epoll, connsUnix, added, notified, shared, asyncVars, pev, wgConn,
                 stopVars, early, dialFailed>>

\* Mutant: the Add is forgotten.
OnOpenUncounted(a) ==
  /\ At(a, "new")
  /\ LET c == acur[a] IN
     /\ fdOf[c] < MaxOpenFiles
     /\ added' = added \cup {c}
     /\ shared' = IF a = "accept" THEN shared \cup {c} ELSE shared
  /\ Goto(a, "store")
  /\ Adding
  /\ UNCHANGED <<fdVars, closing, notified, asyncVars, pev, wgConn, stopVars, early, dialFailed>>

\* onOpen: wgConn.Add, then the OnOpen handler, which may close c or hand it
\* to other goroutines.  A dialed Conn is only counted.
OnOpen(a) ==
  /\ At(a, "new")
  /\ LET c == acur[a] IN
     /\ fdOf[c] < MaxOpenFiles
     /\ added' = added \cup {c}
     /\ shared' = IF a = "accept" THEN shared \cup {c} ELSE shared
  /\ wgConn' = wgConn + 1
  /\ Goto(a, "store")
  /\ Adding
  /\ UNCHANGED <<fdVars, closing, notified, asyncVars, pev, stopVars, early, dialFailed>>

Store(a) ==
  /\ At(a, "store")
  /\ connsUnix' = [connsUnix EXCEPT ![fdOf[acur[a]]] = acur[a]]
  /\ Goto(a, "register")
  /\ Adding
  /\ UNCHANGED <<fdOf, owner, epoll, connVars, asyncVars, pev, wgConn, stopVars, early, dialFailed>>

\* EPOLL_CTL_ADD fails for an fd that is not open or is registered already,
\* and may fail for any other (ENOMEM, ENOSPC); then the entry is cleared and c is closed, and DialAsyncTimeout calls
\* wgConn.Done besides.
Register(a) ==
  /\ At(a, "register")
  /\ LET c == acur[a]
         f == fdOf[c]
         ok == owner[f] # NoConn /\ f \notin epoll
     IN
     \/ /\ ok
        /\ epoll' = epoll \cup {f}
        /\ shared' = shared \cup {c}
        /\ UNCHANGED <<connsUnix, closing, early, wgConn, dialFailed>>
     \/ /\ connsUnix' = [connsUnix EXCEPT ![f] = NoConn]
        /\ closeWithError(c)
        /\ wgConn' = IF a = "dial" THEN wgConn - 1 ELSE wgConn
        /\ dialFailed' = (dialFailed \/ a = "dial")
        /\ UNCHANGED <<epoll, shared>>
  /\ Leave(a)
  /\ Adding
  /\ UNCHANGED <<fdOf, owner, added, notified, asyncVars, pev, stopVars>>

-----------------------------------------------------------------------------
(* The poller: an event is fetched for an fd, and the Conn is looked up    *)
(* only when it is handled.                                                *)

EpollWait(f) ==
  /\ pev = NoFd
  /\ stopPc # "stopped"
  /\ f \in epoll
  /\ pev' = f
  /\ UNCHANGED <<fdVars, connVars, apc, acur, asyncVars, wgConn, stopVars, history>>

\* Reading and writing leave this state alone; an error or a hangup closes
\* the Conn.
HandleEvent ==
  /\ pev # NoFd
  /\ pev' = NoFd
  /\ \/ UNCHANGED <<closing, early>>
     \/ connsUnix[pev] # NoConn /\ closeWithError(connsUnix[pev])
  /\ UNCHANGED <<fdVars, added, notified, shared, apc, acur, asyncVars, wgConn, stopVars,
                 late, dialFailed>>

-----------------------------------------------------------------------------
(* The goroutine of Timer.Async: one function after the other.             *)

AsyncIdle == asyncRun \in {NoConn} \cup {c \in Conns : closing[c] = "done"}

\* The OnClose handler, returning or panicking, and the deferred Done.
AsyncOnClose ==
  /\ AsyncIdle
  /\ asyncList # <<>>
  /\ Head(asyncList)[1] = "onClose"
  /\ notified' = [notified EXCEPT ![Head(asyncList)[2]] = @ + 1]
  /\ wgConn' = wgConn - 1
  /\ asyncList' = Tail(asyncList)
  /\ asyncRun' = NoConn
  /\ UNCHANGED <<fdVars, closing, added, shared, apc, acur, pev, stopVars, history>>

\* A Close that Stop has handed over; it occupies the goroutine to its end.
AsyncClose ==
  /\ AsyncIdle
  /\ asyncList # <<>>
  /\ Head(asyncList)[1] = "close"
  /\ LET c == Head(asyncList)[2] IN
     /\ closeWithError(c)
     /\ asyncRun' = IF Open(c) THEN c ELSE NoConn
  /\ asyncList' = Tail(asyncList)
  /\ UNCHANGED <<fdVars, added, notified, shared, apc, acur, pev, wgConn, stopVars, late, dialFailed>>

-----------------------------------------------------------------------------
(* Stop.                                                                   *)

StopCalled ==
  /\ stopPc = "no"
  /\ stopPc' = "done"
  /\ late' = (\E a \in Adders : ~At(a, "idle"))
  /\ UNCHANGED <<fdVars, connVars, apc, acur, asyncVars, pev, wgConn, idx, early, dialFailed>>

\* The Done for the Add of initHandlers.
StopDone ==
  /\ stopPc = "done"
  /\ stopPc' = "iterate"
  /\ wgConn' = wgConn - 1
  /\ UNCHANGED <<fdVars, connVars, apc, acur, asyncVars, pev, idx, history>>

\* Mutant: the first entry of the table is skipped.
StopIterateSkips ==
  /\ stopPc = "iterate"
  /\ idx' = idx + 1
  /\ stopPc' = IF idx + 1 = MaxOpenFiles THEN "wait" ELSE "iterate"
  /\ asyncList' = IF connsUnix[idx] # NoConn /\ idx > 1
                  THEN Append(asyncList, <<"close", connsUnix[idx]>>) ELSE asyncList
  /\ UNCHANGED <<fdVars, connVars, apc, acur, asyncRun, pev, wgConn, history>>

\* The loop over connsUnix reads each entry when it gets there.
StopIterate ==
  /\ stopPc = "iterate"
  /\ idx' = idx + 1
  /\ stopPc' = IF idx + 1 = MaxOpenFiles THEN "wait" ELSE "iterate"
  /\ asyncList' = IF connsUnix[idx] # NoConn
                  THEN Append(asyncList, <<"close", connsUnix[idx]>>) ELSE asyncList
  /\ UNCHANGED <<fdVars, connVars, apc, acur, asyncRun, pev, wgConn, history>>

\* wgConn.Wait returns; then the pollers are stopped.
StopWait ==
  /\ stopPc = "wait"
  /\ wgConn = 0
  /\ stopPc' = "stopping"
  /\ UNCHANGED <<fdVars, connVars, apc, acur, asyncVars, pev, wgConn, idx, history>>

\* g.Wait: the acceptor and the poller have left their loops.
StopEnd ==
  /\ stopPc = "stopping"
  /\ At("accept", "idle") /\ pev = NoFd
  /\ stopPc' = "stopped"
  /\ UNCHANGED <<fdVars, connVars, apc, acur, asyncVars, pev, wgConn, idx, history>>

-----------------------------------------------------------------------------
AddStep(a) == TooManyFiles(a) \/ OnOpen(a) \/ Store(a) \/ Register(a)
CloseStep(c) == deleteConn(c) \/ CloseFd(c)
AsyncStep == AsyncOnClose \/ AsyncClose
StopStep == StopDone \/ StopIterate \/ StopWait \/ StopEnd

Next == \/ \E a \in Adders, c \in Conns, f \in Fds : NewConn(a, c, f)
        \/ \E a \in Adders : AddStep(a)
        \/ \E c \in Conns : CloseStep(c) \/ Close(c)
        \/ \E f \in Fds : EpollWait(f)
        \/ HandleEvent \/ AsyncStep \/ StopCalled \/ StopStep

\* Goroutines that have something to do get to run.  Users and peers need not
\* do anything.
Fairness ==
  /\ \A a \in Adders : WF_vars(AddStep(a))
  /\ \A c \in Conns : WF_vars(CloseStep(c))
  /\ WF_vars(HandleEvent) /\ WF_vars(AsyncStep) /\ WF_vars(StopStep)

Spec == Init /\ [][Next]_vars /\ Fairness

-----------------------------------------------------------------------------
TypeOK ==
  /\ fdOf \in [Conns -> Fds \cup {NoFd}]
  /\ owner \in [Fds -> Conns \cup {NoConn}] /\ epoll \subseteq Fds
  /\ connsUnix \in [Slots -> Conns \cup {NoConn}]
  /\ closing \in [Conns -> {"no", "closed", "deleted", "done"}]
  /\ added \subseteq Conns /\ shared \subseteq Conns
  /\ notified \in [Conns -> 0 .. 1]
  /\ apc \in [Adders -> {"idle", "new", "store", "register"}]
  /\ acur \in [Adders -> Conns \cup {NoConn}]
  /\ asyncList \in Seq(AsyncFuncs)
  /\ asyncRun \in Conns \cup {NoConn} /\ pev \in Fds \cup {NoFd}
  /\ wgConn \in Int
  /\ stopPc \in {"no", "done", "iterate", "wait", "stopping", "stopped"} /\ idx \in 1 .. MaxOpenFiles
  /\ early \in BOOLEAN /\ late \in BOOLEAN /\ dialFailed \in BOOLEAN

Unnotified == {c \in added : notified[c] = 0}

\* The WaitGroup that Stop waits on counts exactly the Conns that were added
\* and whose OnClose handler has not run, whoever closes them and however
\* adding them ends (but for a dial whose registration fails, which is taken
\* back twice): Stop cannot pass a live handler, and the counter cannot go
\* below zero, which would panic.
WgExact ==
  ~dialFailed =>
    wgConn = (IF stopPc \in {"no", "done"} THEN 1 ELSE 0)
             + Cardinality(Unnotified)

\* A Conn's fd stays its own until its single syscall.Close: no close ever
\* hits an fd that has been given to another Conn.
FdOwned == \A c \in Conns : fdOf[c] # NoFd /\ closing[c] # "done" => owner[fdOf[c]] = c

\* Unless a Conn is closed while it is being added (as it is when
\* EPOLL_CTL_ADD fails), the table leads an event only to the Conn that has
\* the fd, and every registered Conn that is not being closed is found there
\* by the poller and by Stop.
TableExact ==
  ~early => \A f \in Slots :
    /\ connsUnix[f] # NoConn => owner[f] = connsUnix[f]
    /\ f \in epoll /\ closing[owner[f]] = "no" => connsUnix[f] = owner[f]

\* Every Conn that was added and closed gets its OnClose handler run, exactly
\* once, also while the Engine stops.
ClosedIsNotified ==
  \A c \in Conns : (c \in added /\ closing[c] # "no") ~> (notified[c] = 1)

\* Stop ends, when no Conn is being added any more after the call and none was
\* closed while it was being added.
StopEnds == (stopPc # "no") ~> (stopPc = "stopped" \/ late \/ early)

\* Stop ends ("Stop closes listeners/pollers/conns/timer").
StopAlwaysEnds == (stopPc # "no") ~> (stopPc = "stopped")
=============================================================================
