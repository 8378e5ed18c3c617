------------------------ MODULE EngineLifecycleProofs ------------------------
(***************************************************************************)
(* The Engine's fds, its table of Conns and its WaitGroup, for any number  *)
(* of Conns, fds and table entries.                                        *)
(***************************************************************************)
EXTENDS EngineLifecycle, TLAPS, FiniteSetTheorems, SequenceTheorems

\* The kernel's table and the Conns agree in the other direction too, and only
\* open fds that fit the table are registered.
OwnerBack == \A f \in Fds :
  /\ owner[f] # NoConn => fdOf[owner[f]] = f /\ closing[owner[f]] # "done"
  /\ f \in epoll => owner[f] # NoConn /\ f \in Slots

\* What an adder knows of its Conn: before onOpen nobody else knows it.
AdderKnows == \A a \in Adders :
  /\ apc[a] = "idle" <=> acur[a] = NoConn
  /\ apc[a] # "idle" => fdOf[acur[a]] # NoFd
  /\ apc[a] = "new" => acur[a] \notin added /\ closing[acur[a]] = "no"
  /\ apc[a] \in {"store", "register"} => acur[a] \in added
  /\ \A b \in Adders : a # b /\ apc[a] # "idle" => acur[a] # acur[b]

\* Only Conns that were added, and so fit the table, can be found by users, by
\* the poller, by Stop or by Async.
KnownAdded ==
  /\ \A c \in Conns : fdOf[c] = NoFd => closing[c] = "no" /\ c \notin added
  /\ \A c \in added : fdOf[c] \in Slots
  /\ shared \subseteq added
  /\ \A c \in Conns : closing[c] \in {"closed", "deleted"} => c \in added
  /\ \A f \in Slots : connsUnix[f] # NoConn => connsUnix[f] \in added /\ fdOf[connsUnix[f]] = f
  /\ pev # NoFd => pev \in Slots

\* OnClose is handed to Async by the one close that deletes the Conn, and not
\* again.
HandlerOnce ==
  /\ \A k \in 1 .. Len(asyncList) : asyncList[k][2] \in added
  /\ \A k \in 1 .. Len(asyncList) : asyncList[k][1] = "onClose" =>
       /\ closing[asyncList[k][2]] \in {"deleted", "done"}
       /\ notified[asyncList[k][2]] = 0
       /\ \A m \in 1 .. Len(asyncList) : asyncList[m] = asyncList[k] => m = k

\* The OnClose handler runs only after the table entry was deleted.
NotifiedClosed == \A c \in Conns : notified[c] = 1 => closing[c] \in {"deleted", "done"}

\* Once its table entry is deleted, an added Conn's OnClose handler has run or
\* is waiting in Async: it is never lost.
HandlerKept == \A c \in added : closing[c] \in {"deleted", "done"} /\ notified[c] = 0 =>
  \E k \in 1 .. Len(asyncList) : asyncList[k] = <<"onClose", c>>

\* As long as no Conn is closed while it is being added, an adder's Conn is
\* open, it is in the table when it is registered, and only Conns whose
\* deletion is still to come are there.
TableKept == ~early =>
  /\ \A a \in Adders : apc[a] # "idle" => closing[acur[a]] = "no"
  /\ \A a \in Adders : apc[a] = "register" => connsUnix[fdOf[acur[a]]] = acur[a]
  /\ \A f \in Slots : connsUnix[f] # NoConn => closing[connsUnix[f]] \in {"no", "closed"}

\* Stop's index is in the table as long as it iterates.
StopIndex == /\ stopPc \in {"no", "done"} => idx = 1
             /\ stopPc = "iterate" => idx < MaxOpenFiles

IInv == /\ TypeOK /\ FdOwned /\ OwnerBack /\ AdderKnows /\ KnownAdded /\ HandlerOnce
        /\ NotifiedClosed /\ HandlerKept /\ TableKept /\ TableExact /\ StopIndex
        /\ IsFiniteSet(added) /\ WgExact

USE NoConnAssumption, FdAssumption DEF Fds, Slots, NoFd, Adders

\* No Conn exists, and the Add of initHandlers is the only one.
LEMMA InitIInv == Init => IInv
<1> SUFFICES ASSUME Init PROVE IInv
  OBVIOUS
<1>1. TypeOK
  <2>1. early \in BOOLEAN /\ late \in BOOLEAN /\ dialFailed \in BOOLEAN
    BY DEF Init
  <2> QED
    BY <2>1 DEF Init, TypeOK
<1>2. FdOwned /\ OwnerBack /\ AdderKnows /\ KnownAdded /\ StopIndex
  BY DEF Init, FdOwned, OwnerBack, AdderKnows, KnownAdded, StopIndex
<1>3. HandlerOnce /\ NotifiedClosed /\ HandlerKept
  BY DEF Init, HandlerOnce, NotifiedClosed, HandlerKept
<1>4. TableKept /\ TableExact
  BY DEF Init, TableKept, TableExact
<1>5. Unnotified = {}
  BY DEF Init, Unnotified
<1>6. IsFiniteSet(added) /\ WgExact
  BY <1>5, FS_EmptySet DEF Init, WgExact
<1> QED
  BY <1>1, <1>2, <1>3, <1>4, <1>6 DEF IInv

\* A step that counts nobody and notifies nobody leaves the WaitGroup exact.
LEMMA WgFrame ==
  ASSUME IInv, UNCHANGED <<added, notified, wgConn, dialFailed>>,
         stopPc' \in {"no", "done"} <=> stopPc \in {"no", "done"}
  PROVE  IsFiniteSet(added)' /\ WgExact'
<1>1. Unnotified' = Unnotified
  BY DEF Unnotified
<1> QED
  BY <1>1 DEF IInv, WgExact

\* A step that leaves Async's list and the life of the Conns alone.
LEMMA AsyncFrame ==
  ASSUME IInv, UNCHANGED <<asyncList, added, closing, notified>>
  PROVE  HandlerOnce' /\ NotifiedClosed' /\ HandlerKept'
<1>1. HandlerOnce /\ NotifiedClosed /\ HandlerKept
  BY DEF IInv
<1>2. HandlerOnce'
  BY <1>1, Zenon DEF HandlerOnce
<1>3. NotifiedClosed'
  BY <1>1, Zenon DEF NotifiedClosed
<1>4. HandlerKept'
  BY <1>1, Zenon DEF HandlerKept
<1> QED BY <1>2, <1>3, <1>4

LEMMA NewConnIInv ==
  ASSUME IInv, NEW a \in Adders, NEW c \in Conns, NEW f \in Fds, NewConn(a, c, f)
  PROVE  IInv'
<1> USE DEF connVars, asyncVars, stopVars, At
<1>1. TypeOK'
  <2>1. late' \in BOOLEAN
    BY DEF NewConn, Adding
  <2> QED
    BY <2>1 DEF IInv, TypeOK, NewConn
<1>2. FdOwned' /\ OwnerBack'
  BY DEF IInv, TypeOK, NewConn, FdOwned, OwnerBack, KnownAdded
<1>3. AdderKnows'
  BY DEF IInv, TypeOK, NewConn, AdderKnows, KnownAdded
<1>4. KnownAdded' /\ StopIndex'
  BY DEF IInv, TypeOK, NewConn, KnownAdded, StopIndex
<1>5. HandlerOnce' /\ NotifiedClosed' /\ HandlerKept'
  BY AsyncFrame DEF NewConn
<1>6. TableKept'
  BY DEF IInv, TypeOK, NewConn, TableKept, AdderKnows, KnownAdded
<1>7. TableExact'
  BY DEF IInv, TypeOK, NewConn, TableExact, OwnerBack
<1>8. IsFiniteSet(added)' /\ WgExact'
  BY WgFrame DEF NewConn
<1> QED
  BY <1>1, <1>2, <1>3, <1>4, <1>5, <1>6, <1>7, <1>8 DEF IInv

\* The refused Conn was never in the table.
LEMMA TooManyFilesIInv == ASSUME IInv, NEW a \in Adders, TooManyFiles(a) PROVE IInv'
<1> USE DEF asyncVars, stopVars, At, Leave
<1>0. acur[a] \in Conns /\ fdOf[acur[a]] \in Fds /\ acur[a] \notin added /\ closing[acur[a]] = "no"
      /\ fdOf[acur[a]] \notin Slots
  BY DEF IInv, TypeOK, AdderKnows, TooManyFiles
<1>1. TypeOK'
  <2>1. late' \in BOOLEAN
    BY DEF TooManyFiles, Adding
  <2> QED
    BY <1>0, <2>1 DEF IInv, TypeOK, TooManyFiles
<1>2. FdOwned' /\ OwnerBack'
  BY <1>0 DEF IInv, TypeOK, TooManyFiles, FdOwned, OwnerBack
<1>3. AdderKnows'
  BY <1>0 DEF IInv, TypeOK, TooManyFiles, AdderKnows
<1>4. KnownAdded' /\ StopIndex'
  BY <1>0 DEF IInv, TypeOK, TooManyFiles, KnownAdded, StopIndex
<1>5. HandlerOnce'
  BY <1>0 DEF IInv, TypeOK, TooManyFiles, HandlerOnce
<1>9. NotifiedClosed'
  BY <1>0 DEF IInv, TypeOK, TooManyFiles, NotifiedClosed
<1>10. HandlerKept'
  BY <1>0 DEF IInv, TypeOK, TooManyFiles, HandlerKept
<1>6. TableKept'
  BY <1>0 DEF IInv, TypeOK, TooManyFiles, TableKept, KnownAdded, AdderKnows
<1>7. TableExact'
  BY <1>0 DEF IInv, TypeOK, TooManyFiles, TableExact, OwnerBack
<1>8. IsFiniteSet(added)' /\ WgExact'
  BY WgFrame DEF TooManyFiles
<1> QED
  BY <1>1, <1>2, <1>3, <1>4, <1>5, <1>6, <1>7, <1>8, <1>9, <1>10 DEF IInv

\* The new Conn is counted once: it was not added before.
LEMMA OnOpenIInv == ASSUME IInv, NEW a \in Adders, OnOpen(a) PROVE IInv'
<1> USE DEF fdVars, asyncVars, stopVars, At, Goto
<1>0. acur[a] \in Conns /\ fdOf[acur[a]] \in Slots /\ acur[a] \notin added /\ closing[acur[a]] = "no"
  BY DEF IInv, TypeOK, AdderKnows, OnOpen
<1>1. TypeOK'
  <2>1. late' \in BOOLEAN
    BY DEF OnOpen, Adding
  <2> QED
    BY <1>0, <2>1 DEF IInv, TypeOK, OnOpen
<1>2. FdOwned' /\ OwnerBack'
  BY DEF IInv, OnOpen, FdOwned, OwnerBack
<1>3. AdderKnows'
  BY <1>0 DEF IInv, TypeOK, OnOpen, AdderKnows
<1>4. KnownAdded' /\ StopIndex'
  BY <1>0 DEF IInv, TypeOK, OnOpen, KnownAdded, StopIndex
<1>5. HandlerOnce'
  BY <1>0 DEF IInv, TypeOK, OnOpen, HandlerOnce
<1>9. NotifiedClosed'
  BY <1>0 DEF IInv, TypeOK, OnOpen, NotifiedClosed
<1>10. HandlerKept'
  BY <1>0 DEF IInv, TypeOK, OnOpen, HandlerKept
<1>6. TableKept' /\ TableExact'
  BY <1>0 DEF IInv, TypeOK, OnOpen, TableKept, TableExact
<1>8. IsFiniteSet(added)' /\ WgExact'
  <2>1. notified[acur[a]] = 0
    BY <1>0 DEF IInv, TypeOK, NotifiedClosed
  <2>2. Unnotified' = Unnotified \cup {acur[a]} /\ acur[a] \notin Unnotified
    BY <1>0, <2>1 DEF OnOpen, Unnotified
  <2>3. IsFiniteSet(Unnotified) /\ IsFiniteSet(added')
    BY FS_Subset, FS_AddElement DEF IInv, OnOpen, Unnotified
  <2>4. Cardinality(Unnotified') = Cardinality(Unnotified) + 1 /\ Cardinality(Unnotified) \in Nat
    BY <2>2, <2>3, FS_AddElement, FS_CardinalityType
  <2> QED
    BY <2>3, <2>4 DEF IInv, TypeOK, OnOpen, WgExact
<1> QED
  BY <1>1, <1>2, <1>3, <1>4, <1>5, <1>6, <1>8, <1>9, <1>10 DEF IInv

\* The entry is written while c is still open, unless c was closed early.
LEMMA StoreIInv == ASSUME IInv, NEW a \in Adders, Store(a) PROVE IInv'
<1> USE DEF connVars, asyncVars, stopVars, At, Goto
<1>0. acur[a] \in added /\ acur[a] \in Conns /\ fdOf[acur[a]] \in Slots
  BY DEF IInv, TypeOK, AdderKnows, KnownAdded, Store
<1>1. TypeOK'
  <2>1. late' \in BOOLEAN
    BY DEF Store, Adding
  <2> QED
    BY <1>0, <2>1 DEF IInv, TypeOK, Store
<1>2. FdOwned' /\ OwnerBack'
  BY DEF IInv, Store, FdOwned, OwnerBack
<1>3. AdderKnows'
  BY <1>0 DEF IInv, TypeOK, Store, AdderKnows
<1>4. KnownAdded' /\ StopIndex'
  BY <1>0 DEF IInv, TypeOK, Store, KnownAdded, StopIndex
<1>5. HandlerOnce' /\ NotifiedClosed' /\ HandlerKept'
  BY AsyncFrame DEF Store
<1>6. ASSUME ~early PROVE TableKept' /\ TableExact'
  <2>1. closing[acur[a]] = "no" /\ owner[fdOf[acur[a]]] = acur[a]
    BY <1>0, <1>6 DEF IInv, TypeOK, TableKept, FdOwned, Store
  <2>2. \A b \in Adders : b # a /\ apc[b] # "idle" => fdOf[acur[b]] # fdOf[acur[a]]
    BY <1>0, <1>6, <2>1 DEF IInv, TypeOK, TableKept, FdOwned, AdderKnows, Store
  <2>3. TableKept'
    BY <1>0, <1>6, <2>1, <2>2 DEF IInv, TypeOK, TableKept, Store
  <2>4. TableExact'
    BY <1>0, <1>6, <2>1 DEF IInv, TypeOK, TableExact, Store
  <2> QED
    BY <2>3, <2>4
<1>7. TableKept' /\ TableExact'
  BY <1>6 DEF TableKept, TableExact, Store
<1>8. IsFiniteSet(added)' /\ WgExact'
  BY WgFrame DEF Store
<1> QED
  BY <1>1, <1>2, <1>3, <1>4, <1>5, <1>7, <1>8 DEF IInv

\* Whoever closes an added Conn: only the first call changes it, and it is
\* noted when the Conn is still being added.
LEMMA CloseParts ==
  ASSUME IInv, NEW c \in added, closeWithError(c),
         UNCHANGED <<fdVars, added, notified, shared, apc, acur>>
  PROVE  /\ closing' \in [Conns -> {"no", "closed", "deleted", "done"}] /\ early' \in BOOLEAN
         /\ FdOwned' /\ OwnerBack' /\ AdderKnows' /\ NotifiedClosed' /\ TableKept' /\ TableExact'
         /\ \A d \in Conns : closing[d] # "no" => closing'[d] = closing[d]
         /\ \A d \in Conns : closing'[d] # closing[d] => d \in added /\ closing'[d] = "closed"
<1> USE DEF fdVars
<1>0. c \in Conns /\ fdOf[c] \in Slots
  BY DEF IInv, TypeOK, KnownAdded
<1>1. CASE ~Open(c)
  <2>1. closing' = closing /\ early' = early
    BY <1>1 DEF closeWithError
  <2> QED
    BY <2>1 DEF IInv, TypeOK, FdOwned, OwnerBack, AdderKnows, NotifiedClosed, TableKept, TableExact
<1>2. CASE Open(c)
  <2>1. closing' = [closing EXCEPT ![c] = "closed"] /\ closing[c] = "no"
    BY <1>2 DEF closeWithError, Open
  <2>2. early' = (early \/ c \in {acur[a] : a \in Adders})
    BY <1>2 DEF closeWithError
  <2>3. closing' \in [Conns -> {"no", "closed", "deleted", "done"}]
    BY <1>0, <2>1 DEF IInv, TypeOK
  <2>4. early' \in BOOLEAN
    BY <2>2
  <2>5. FdOwned' /\ OwnerBack' /\ AdderKnows' /\ NotifiedClosed'
    BY <1>0, <2>1 DEF IInv, TypeOK, FdOwned, OwnerBack, AdderKnows, NotifiedClosed
  <2>6. ASSUME ~early' PROVE TableKept' /\ TableExact'
    <3>1. ~early /\ \A a \in Adders : acur[a] # c
      BY <2>2, <2>6
    <3>2. TableKept'
      BY <1>0, <2>1, <3>1 DEF IInv, TypeOK, TableKept, KnownAdded
    <3>3. TableExact'
      BY <1>0, <2>1, <3>1 DEF IInv, TypeOK, TableExact, OwnerBack
    <3> QED
      BY <3>2, <3>3
  <2>7. TableKept' /\ TableExact'
    BY <2>6 DEF TableKept, TableExact
  <2>8. /\ \A d \in Conns : closing[d] # "no" => closing'[d] = closing[d]
        /\ \A d \in Conns : closing'[d] # closing[d] => d \in added /\ closing'[d] = "closed"
    BY <1>0, <2>1 DEF IInv, TypeOK
  <2> QED
    BY <2>3, <2>4, <2>5, <2>7, <2>8
<1> QED
  BY <1>1, <1>2

\* A close that leaves Async's list alone.
LEMMA CloseIInv ==
  ASSUME IInv, NEW c \in added, closeWithError(c),
         UNCHANGED <<fdVars, added, notified, shared, apc, acur, asyncVars, wgConn, stopVars,
                     late, dialFailed>>,
         pev' \in {pev, NoFd}
  PROVE  IInv'
<1> USE DEF fdVars, asyncVars, stopVars
<1> DEFINE Parts == /\ closing' \in [Conns -> {"no", "closed", "deleted", "done"}] /\ early' \in BOOLEAN
                    /\ FdOwned' /\ OwnerBack' /\ AdderKnows' /\ NotifiedClosed' /\ TableKept' /\ TableExact'
<1>1. Parts
  BY CloseParts
<1>2. /\ \A d \in Conns : closing[d] # "no" => closing'[d] = closing[d]
      /\ \A d \in Conns : closing'[d] # closing[d] => d \in added /\ closing'[d] = "closed"
  BY CloseParts
<1>3. TypeOK'
  BY <1>1 DEF IInv, TypeOK
<1>4. KnownAdded' /\ StopIndex'
  BY <1>1, <1>2 DEF IInv, TypeOK, KnownAdded, StopIndex
<1>5. HandlerOnce'
  <2>1. \A k \in 1 .. Len(asyncList) : asyncList[k][1] = "onClose" =>
          closing'[asyncList[k][2]] = closing[asyncList[k][2]]
    BY <1>2 DEF IInv, TypeOK, HandlerOnce
  <2> QED
    BY <2>1 DEF IInv, HandlerOnce
<1>6. HandlerKept'
  BY <1>1, <1>2 DEF IInv, TypeOK, HandlerKept
<1>8. IsFiniteSet(added)' /\ WgExact'
  BY WgFrame
<1> QED
  BY <1>1, <1>3, <1>4, <1>5, <1>6, <1>8 DEF IInv

LEMMA UserCloseIInv == ASSUME IInv, NEW c \in Conns, Close(c) PROVE IInv'
<1>1. c \in added
  BY DEF IInv, KnownAdded, Close
<1> QED
  BY <1>1, CloseIInv DEF Close

\* The event may be a stale one: the Conn closed is the one in the table.
LEMMA HandleEventIInv == ASSUME IInv, HandleEvent PROVE IInv'
<1>1. pev \in Slots
  BY DEF IInv, KnownAdded, HandleEvent
<1>2. CASE UNCHANGED <<closing, early>>
  <2> USE DEF fdVars, asyncVars, stopVars
  <2>1. TypeOK'
    BY <1>2 DEF IInv, TypeOK, HandleEvent
  <2>2. FdOwned' /\ OwnerBack' /\ AdderKnows' /\ KnownAdded' /\ StopIndex'
    BY <1>2 DEF IInv, HandleEvent, FdOwned, OwnerBack, AdderKnows, KnownAdded, StopIndex
  <2>3. HandlerOnce' /\ NotifiedClosed' /\ HandlerKept'
    BY <1>2, AsyncFrame DEF HandleEvent
  <2>4. TableKept' /\ TableExact'
    BY <1>2 DEF IInv, HandleEvent, TableKept, TableExact
  <2>5. IsFiniteSet(added)' /\ WgExact'
    BY <1>2, WgFrame DEF HandleEvent
  <2> QED
    BY <2>1, <2>2, <2>3, <2>4, <2>5 DEF IInv
<1>3. CASE connsUnix[pev] # NoConn /\ closeWithError(connsUnix[pev])
  <2>1. connsUnix[pev] \in added
    BY <1>1, <1>3 DEF IInv, KnownAdded
  <2> QED
    BY <1>3, <2>1, CloseIInv DEF HandleEvent
<1> QED
  BY <1>2, <1>3 DEF HandleEvent

LEMMA EpollWaitIInv == ASSUME IInv, NEW f \in Fds, EpollWait(f) PROVE IInv'
<1> USE DEF fdVars, connVars, asyncVars, stopVars, history
<1>1. TypeOK'
  BY DEF IInv, TypeOK, EpollWait
<1>2. FdOwned' /\ OwnerBack' /\ AdderKnows' /\ StopIndex'
  BY DEF IInv, EpollWait, FdOwned, OwnerBack, AdderKnows, StopIndex
<1>3. KnownAdded'
  BY DEF IInv, EpollWait, OwnerBack, KnownAdded
<1>4. HandlerOnce' /\ NotifiedClosed' /\ HandlerKept'
  BY AsyncFrame DEF EpollWait
<1>5. TableKept' /\ TableExact'
  BY DEF IInv, EpollWait, TableKept, TableExact
<1>6. IsFiniteSet(added)' /\ WgExact'
  BY WgFrame DEF EpollWait
<1> QED
  BY <1>1, <1>2, <1>3, <1>4, <1>5, <1>6 DEF IInv

\* A registration that fails closes a Conn that is being added, which is noted.
LEMMA RegisterIInv == ASSUME IInv, NEW a \in Adders, Register(a) PROVE IInv'
<1> USE DEF asyncVars, stopVars, At, Leave
<1> DEFINE c == acur[a]
           f == fdOf[c]
           ok == owner[f] # NoConn /\ f \notin epoll
<1>0. c \in added /\ c \in Conns /\ f \in Slots /\ f \in Fds
  BY DEF IInv, TypeOK, AdderKnows, KnownAdded, Register
<1>a. apc[a] = "register" /\ apc' = [apc EXCEPT ![a] = "idle"] /\ acur' = [acur EXCEPT ![a] = NoConn]
  BY DEF Register
<1>b. UNCHANGED <<fdOf, owner, added, notified, asyncList, asyncRun, pev, stopPc, idx>>
  BY DEF Register
<1>c. late' \in BOOLEAN
  BY DEF Register, Adding
<1>1. CASE /\ ok
           /\ epoll' = epoll \cup {f}
           /\ shared' = shared \cup {c}
           /\ UNCHANGED <<connsUnix, closing, early, wgConn, dialFailed>>
  <2> HIDE DEF c, f
  <2>1. TypeOK'
    BY <1>0, <1>a, <1>b, <1>c, <1>1 DEF IInv, TypeOK
  <2>2. FdOwned' /\ OwnerBack'
    BY <1>0, <1>b, <1>1 DEF IInv, FdOwned, OwnerBack, c, f
  <2>3. AdderKnows'
    BY <1>a, <1>b, <1>1 DEF IInv, TypeOK, AdderKnows
  <2>4. KnownAdded' /\ StopIndex'
    BY <1>0, <1>b, <1>1 DEF IInv, KnownAdded, StopIndex
  <2>5. HandlerOnce' /\ NotifiedClosed' /\ HandlerKept'
    BY <1>b, <1>1, AsyncFrame
  <2>6. TableKept'
    BY <1>a, <1>b, <1>1 DEF IInv, TypeOK, TableKept
  <2>7. TableExact'
    <3>1. ~early => connsUnix[f] = c /\ owner[f] = c
      BY <1>0, <1>a DEF IInv, TableKept, FdOwned, c, f
    <3> QED
      BY <1>0, <1>b, <1>1, <3>1 DEF IInv, TableExact
  <2>8. IsFiniteSet(added)' /\ WgExact'
    BY <1>b, <1>1, WgFrame
  <2> QED
    BY <2>1, <2>2, <2>3, <2>4, <2>5, <2>6, <2>7, <2>8 DEF IInv
<1>2. CASE /\ connsUnix' = [connsUnix EXCEPT ![f] = NoConn]
           /\ closeWithError(c)
           /\ wgConn' = (IF a = "dial" THEN wgConn - 1 ELSE wgConn)
           /\ dialFailed' = (dialFailed \/ a = "dial")
           /\ UNCHANGED <<epoll, shared>>
  <2>0. /\ closing' = closing \/ (closing[c] = "no" /\ closing' = [closing EXCEPT ![c] = "closed"])
        /\ early' = early \/ early' = TRUE
    BY <1>0, <1>2 DEF closeWithError, Open
  <2>1. early'
    <3>1. early \/ Open(c)
      BY <1>0, <1>a DEF IInv, TableKept, Open
    <3> QED
      BY <1>2, <3>1 DEF closeWithError
  <2>2. TypeOK'
    <3>1. dialFailed' \in BOOLEAN
      BY <1>2
    <3>2. early' \in BOOLEAN
      BY <2>0 DEF IInv, TypeOK
    <3>3. wgConn' \in Int
      BY <1>2 DEF IInv, TypeOK
    <3> HIDE DEF c, f, ok
    <3>4. closing' \in [Conns -> {"no", "closed", "deleted", "done"}]
      BY <1>0, <2>0 DEF IInv, TypeOK
    <3>5. connsUnix' \in [Slots -> Conns \cup {NoConn}]
      BY <1>0, <1>2 DEF IInv, TypeOK
    <3>6. epoll' = epoll /\ shared' = shared
      BY <1>2
    <3> QED
      BY <1>a, <1>b, <1>c, <3>1, <3>2, <3>3, <3>4, <3>5, <3>6 DEF IInv, TypeOK
  <2>3. epoll' = epoll /\ shared' = shared /\ connsUnix' = [connsUnix EXCEPT ![f] = NoConn]
    BY <1>2
  <2> HIDE DEF c, f, ok
  <2>4. FdOwned' /\ OwnerBack'
    BY <1>0, <1>b, <2>0, <2>3 DEF IInv, TypeOK, FdOwned, OwnerBack
  <2>5. AdderKnows'
    BY <1>0, <1>a, <1>b, <2>0 DEF IInv, TypeOK, AdderKnows
  <2>6. KnownAdded' /\ StopIndex'
    BY <1>0, <1>b, <2>0, <2>3 DEF IInv, TypeOK, KnownAdded, StopIndex
  <2>7. HandlerOnce'
    BY <1>0, <1>b, <2>0 DEF IInv, TypeOK, HandlerOnce
  <2>8. NotifiedClosed' /\ HandlerKept'
    BY <1>0, <1>b, <2>0 DEF IInv, TypeOK, NotifiedClosed, HandlerKept
  <2>9. TableKept' /\ TableExact'
    BY <2>1 DEF TableKept, TableExact
  <2>10. IsFiniteSet(added)' /\ WgExact'
    <3>1. CASE a = "dial"
      <4>1. dialFailed'
        BY <1>2, <3>1
      <4> QED
        BY <1>b, <4>1 DEF IInv, WgExact
    <3>2. CASE a # "dial"
      <4>1. dialFailed' = dialFailed
        BY <1>2, <3>2 DEF IInv, TypeOK
      <4> QED
        BY <1>b, <1>2, <3>2, <4>1, WgFrame
    <3> QED
      BY <3>1, <3>2
  <2> QED
    BY <2>2, <2>4, <2>5, <2>6, <2>7, <2>8, <2>9, <2>10 DEF IInv
<1> QED
  BY <1>1, <1>2 DEF Register

\* The entries of Async's list, its head and its tail.
LEMMA AsyncEntries ==
  ASSUME TypeOK
  PROVE  /\ Len(asyncList) \in Nat
         /\ \A k \in 1 .. Len(asyncList) : asyncList[k] \in AsyncFuncs
         /\ \A e \in AsyncFuncs : /\ Append(asyncList, e) \in Seq(AsyncFuncs)
                                  /\ Len(Append(asyncList, e)) = Len(asyncList) + 1
                                  /\ \A k \in 1 .. Len(asyncList) : Append(asyncList, e)[k] = asyncList[k]
                                  /\ Append(asyncList, e)[Len(asyncList) + 1] = e
         /\ asyncList # <<>> =>
              /\ Len(asyncList) >= 1 /\ Head(asyncList) = asyncList[1]
              /\ Tail(asyncList) \in Seq(AsyncFuncs)
              /\ Len(Tail(asyncList)) = Len(asyncList) - 1
              /\ \A k \in 1 .. Len(asyncList) - 1 : Tail(asyncList)[k] = asyncList[k + 1]
<1>1. asyncList \in Seq(AsyncFuncs)
  BY DEF TypeOK
<1>2. Len(asyncList) \in Nat /\ \A k \in 1 .. Len(asyncList) : asyncList[k] \in AsyncFuncs
  BY <1>1
<1>3. ASSUME NEW e \in AsyncFuncs
      PROVE  /\ Append(asyncList, e) \in Seq(AsyncFuncs)
             /\ Len(Append(asyncList, e)) = Len(asyncList) + 1
             /\ \A k \in 1 .. Len(asyncList) : Append(asyncList, e)[k] = asyncList[k]
             /\ Append(asyncList, e)[Len(asyncList) + 1] = e
  BY <1>1, AppendProperties
<1>4. ASSUME asyncList # <<>>
      PROVE  /\ Len(asyncList) >= 1 /\ Head(asyncList) = asyncList[1]
             /\ Tail(asyncList) \in Seq(AsyncFuncs)
             /\ Len(Tail(asyncList)) = Len(asyncList) - 1
             /\ \A k \in 1 .. Len(asyncList) - 1 : Tail(asyncList)[k] = asyncList[k + 1]
  BY <1>1, <1>4, HeadTailProperties
<1> QED
  BY <1>2, <1>3, <1>4

\* The only place where OnClose is handed over.
LEMMA deleteConnIInv == ASSUME IInv, NEW c \in Conns, deleteConn(c) PROVE IInv'
<1> USE DEF stopVars, history
<1>0. c \in added /\ fdOf[c] \in Slots /\ closing[c] = "closed" /\ notified[c] = 0
  BY DEF IInv, TypeOK, KnownAdded, NotifiedClosed, deleteConn
<1>a. closing' = [closing EXCEPT ![c] = "deleted"]
  BY DEF deleteConn
<1>b. connsUnix' = IF connsUnix[fdOf[c]] = c THEN [connsUnix EXCEPT ![fdOf[c]] = NoConn] ELSE connsUnix
  BY DEF deleteConn
<1>c. UNCHANGED <<fdOf, owner, epoll, added, notified, shared, apc, acur, asyncRun, pev, wgConn,
                  stopPc, idx, early, late, dialFailed>>
  BY DEF deleteConn
<1>d. asyncList' = Append(asyncList, <<"onClose", c>>) /\ <<"onClose", c>> \in AsyncFuncs
  BY DEF deleteConn, AsyncFuncs
<1>e. /\ Len(asyncList) \in Nat
      /\ asyncList' \in Seq(AsyncFuncs)
      /\ Len(asyncList') = Len(asyncList) + 1
      /\ \A k \in 1 .. Len(asyncList) : asyncList'[k] = asyncList[k]
      /\ asyncList'[Len(asyncList) + 1] = <<"onClose", c>>
  <2>1. TypeOK
    BY DEF IInv
  <2> QED
    BY <1>d, <2>1, AsyncEntries
<1>1. TypeOK'
  <2>1. connsUnix' \in [Slots -> Conns \cup {NoConn}]
    BY <1>0, <1>b DEF IInv, TypeOK
  <2> QED
    BY <1>a, <1>c, <1>e, <2>1 DEF IInv, TypeOK
<1>2. FdOwned' /\ OwnerBack' /\ NotifiedClosed'
  BY <1>0, <1>a, <1>c DEF IInv, TypeOK, FdOwned, OwnerBack, NotifiedClosed
<1>3. AdderKnows' /\ StopIndex'
  BY <1>0, <1>a, <1>c DEF IInv, TypeOK, AdderKnows, StopIndex
<1>4. KnownAdded'
  BY <1>0, <1>a, <1>b, <1>c DEF IInv, TypeOK, KnownAdded
<1>5. HandlerOnce'
  <2>1. \A k \in 1 .. Len(asyncList) : asyncList[k] # <<"onClose", c>>
    BY <1>0 DEF IInv, HandlerOnce
  <2>2. \A k \in 1 .. Len(asyncList) : asyncList[k][2] \in Conns
    BY DEF IInv, TypeOK, HandlerOnce
  <2>3. \A k \in 1 .. Len(asyncList) : asyncList[k][1] = "onClose" =>
          /\ closing'[asyncList[k][2]] \in {"deleted", "done"}
          /\ notified'[asyncList[k][2]] = 0
    BY <1>0, <1>a, <1>c, <2>2 DEF IInv, TypeOK, HandlerOnce
  <2>4. closing'[c] = "deleted" /\ notified'[c] = 0 /\ c \in added'
    BY <1>0, <1>a, <1>c DEF IInv, TypeOK
  <2>5. \A k, m \in 1 .. Len(asyncList') :
          asyncList'[k][1] = "onClose" /\ asyncList'[m] = asyncList'[k] => m = k
    BY <1>e, <2>1 DEF IInv, HandlerOnce
  <2>6. \A k \in 1 .. Len(asyncList') : k \in 1 .. Len(asyncList) \/ k = Len(asyncList) + 1
    BY <1>e
  <2>7. \A k \in 1 .. Len(asyncList) : asyncList[k][2] \in added'
    BY <1>c DEF IInv, HandlerOnce
  <2> QED
    BY <1>e, <2>3, <2>4, <2>5, <2>6, <2>7 DEF HandlerOnce
<1>6. HandlerKept'
  <2> SUFFICES ASSUME NEW d \in added', closing'[d] \in {"deleted", "done"}, notified'[d] = 0
               PROVE  \E k \in 1 .. Len(asyncList') : asyncList'[k] = <<"onClose", d>>
    BY DEF HandlerKept
  <2>1. CASE d = c
    BY <1>e, <2>1
  <2>2. CASE d # c
    <3>1. \E k \in 1 .. Len(asyncList) : asyncList[k] = <<"onClose", d>>
      BY <1>a, <1>c, <2>2 DEF IInv, TypeOK, HandlerKept
    <3> QED
      BY <1>e, <3>1
  <2> QED
    BY <2>1, <2>2
<1>7. TableKept'
  BY <1>0, <1>a, <1>b, <1>c DEF IInv, TypeOK, TableKept, KnownAdded, AdderKnows
<1>8. TableExact'
  <2>1. owner[fdOf[c]] = c
    BY <1>0 DEF IInv, FdOwned
  <2> QED
    BY <1>0, <1>a, <1>b, <1>c, <2>1 DEF IInv, TypeOK, TableExact, OwnerBack
<1>9. IsFiniteSet(added)' /\ WgExact'
  BY <1>c, WgFrame
<1> QED
  BY <1>1, <1>2, <1>3, <1>4, <1>5, <1>6, <1>7, <1>8, <1>9 DEF IInv

\* The fd closed is still c's: it cannot have been given to another Conn.
LEMMA CloseFdIInv == ASSUME IInv, NEW c \in Conns, CloseFd(c) PROVE IInv'
<1> USE DEF asyncVars, stopVars, history
<1>0. c \in added /\ fdOf[c] \in Slots /\ closing[c] = "deleted" /\ owner[fdOf[c]] = c
  BY DEF IInv, KnownAdded, FdOwned, CloseFd
<1>1. TypeOK'
  BY <1>0 DEF IInv, TypeOK, CloseFd
<1>2. FdOwned' /\ OwnerBack'
  BY <1>0 DEF IInv, TypeOK, FdOwned, OwnerBack, CloseFd
<1>3. AdderKnows' /\ StopIndex' /\ NotifiedClosed'
  BY <1>0 DEF IInv, TypeOK, AdderKnows, StopIndex, NotifiedClosed, CloseFd
<1>4. KnownAdded'
  BY <1>0 DEF IInv, TypeOK, KnownAdded, CloseFd
<1>5. HandlerOnce'
  BY <1>0 DEF IInv, TypeOK, HandlerOnce, CloseFd
<1>6. HandlerKept'
  BY <1>0 DEF IInv, TypeOK, HandlerKept, CloseFd
<1>7. TableKept' /\ TableExact'
  BY <1>0 DEF IInv, TypeOK, TableKept, TableExact, KnownAdded, CloseFd
<1>8. IsFiniteSet(added)' /\ WgExact'
  BY WgFrame DEF CloseFd
<1> QED
  BY <1>1, <1>2, <1>3, <1>4, <1>5, <1>6, <1>7, <1>8 DEF IInv

\* Done is called once for each Conn that was added: its handler was waiting
\* once, and it had not run.
LEMMA AsyncOnCloseIInv == ASSUME IInv, AsyncOnClose PROVE IInv'
<1> USE DEF fdVars, stopVars, history
<1> DEFINE c == asyncList[1][2]
<1>a. /\ Len(asyncList) \in Nat /\ Len(asyncList) >= 1
      /\ asyncList[1][1] = "onClose"
      /\ asyncList' \in Seq(AsyncFuncs)
      /\ Len(asyncList') = Len(asyncList) - 1
      /\ \A k \in 1 .. Len(asyncList') : asyncList'[k] = asyncList[k + 1]
      /\ notified' = [notified EXCEPT ![c] = @ + 1]
  <2>1. TypeOK /\ asyncList # <<>>
    BY DEF IInv, AsyncOnClose
  <2> QED
    BY <2>1, AsyncEntries DEF AsyncOnClose
<1>b. c \in added /\ c \in Conns /\ notified[c] = 0 /\ closing[c] \in {"deleted", "done"}
  BY <1>a DEF IInv, TypeOK, HandlerOnce
<1>c. asyncList[1] = <<"onClose", c>>
  <2>1. asyncList[1] \in AsyncFuncs
    BY <1>a, AsyncEntries DEF IInv
  <2> QED
    BY <1>a, <2>1 DEF AsyncFuncs
<1>d. UNCHANGED <<fdOf, owner, epoll, connsUnix, closing, added, shared, apc, acur, pev,
                  stopPc, idx, early, late, dialFailed>>
  BY DEF AsyncOnClose
<1>e. wgConn' = wgConn - 1 /\ asyncRun' = NoConn
  BY DEF AsyncOnClose
<1> HIDE DEF c
<1>1. TypeOK'
  BY <1>a, <1>b, <1>d, <1>e DEF IInv, TypeOK
<1>2. FdOwned' /\ OwnerBack' /\ AdderKnows' /\ KnownAdded' /\ StopIndex'
  BY <1>d DEF IInv, FdOwned, OwnerBack, AdderKnows, KnownAdded, StopIndex
<1>3. HandlerOnce'
  <2>1. \A k \in 1 .. Len(asyncList') : k + 1 \in 1 .. Len(asyncList)
    BY <1>a
  <2>2. \A k \in 1 .. Len(asyncList') : asyncList'[k][2] \in added'
    BY <1>a, <1>d, <2>1 DEF IInv, HandlerOnce
  <2>3. ASSUME NEW k \in 1 .. Len(asyncList'), asyncList'[k][1] = "onClose"
        PROVE  /\ closing'[asyncList'[k][2]] \in {"deleted", "done"}
               /\ notified'[asyncList'[k][2]] = 0
    <3>1. asyncList[k + 1] \in AsyncFuncs
      BY <2>1, AsyncEntries DEF IInv
    <3>2. asyncList'[k] = asyncList[k + 1]
      BY <1>a
    <3>3. asyncList[k + 1] # <<"onClose", c>>
      <4>1. 1 \in 1 .. Len(asyncList) /\ k + 1 # 1 /\ k + 1 \in 1 .. Len(asyncList)
        BY <1>a, <2>1
      <4> QED
        BY <1>a, <1>c, <4>1 DEF IInv, HandlerOnce
    <3>4. asyncList[k + 1][2] # c
      BY <2>3, <3>1, <3>2, <3>3 DEF AsyncFuncs
    <3>5. closing[asyncList[k + 1][2]] \in {"deleted", "done"} /\ notified[asyncList[k + 1][2]] = 0
      BY <2>1, <2>3, <3>2 DEF IInv, HandlerOnce
    <3>6. asyncList[k + 1][2] \in Conns
      BY <3>1 DEF AsyncFuncs
    <3> QED
      BY <1>a, <1>d, <3>2, <3>4, <3>5, <3>6 DEF IInv, TypeOK
  <2>4. \A k, m \in 1 .. Len(asyncList') :
          asyncList'[k][1] = "onClose" /\ asyncList'[m] = asyncList'[k] => m = k
    <3> SUFFICES ASSUME NEW k \in 1 .. Len(asyncList'), NEW m \in 1 .. Len(asyncList'),
                        asyncList'[k][1] = "onClose", asyncList'[m] = asyncList'[k]
                 PROVE  m = k
      OBVIOUS
    <3>1. asyncList[k + 1][1] = "onClose" /\ asyncList[m + 1] = asyncList[k + 1]
      BY <1>a
    <3>2. m + 1 = k + 1
      BY <2>1, <3>1 DEF IInv, HandlerOnce
    <3> QED
      BY <1>a, <3>2
  <2> QED
    BY <2>2, <2>3, <2>4 DEF HandlerOnce
<1>4. NotifiedClosed'
  BY <1>a, <1>b, <1>d DEF IInv, TypeOK, NotifiedClosed
<1>5. HandlerKept'
  <2> SUFFICES ASSUME NEW d \in added', closing'[d] \in {"deleted", "done"}, notified'[d] = 0
               PROVE  \E k \in 1 .. Len(asyncList') : asyncList'[k] = <<"onClose", d>>
    BY DEF HandlerKept
  <2>1. d # c /\ notified[d] = 0 /\ d \in added
    BY <1>a, <1>b, <1>d DEF IInv, TypeOK
  <2>2. PICK k \in 1 .. Len(asyncList) : asyncList[k] = <<"onClose", d>>
    BY <1>d, <2>1 DEF IInv, HandlerKept
  <2>3. k # 1
    BY <1>c, <2>1, <2>2
  <2>4. k - 1 \in 1 .. Len(asyncList') /\ asyncList'[k - 1] = asyncList[k]
    BY <1>a, <2>3
  <2> QED
    BY <2>2, <2>4
<1>6. TableKept' /\ TableExact'
  BY <1>d DEF IInv, TableKept, TableExact
<1>7. IsFiniteSet(added)' /\ WgExact'
  <2>1. Unnotified' = Unnotified \ {c} /\ c \in Unnotified
    BY <1>a, <1>b, <1>d DEF IInv, TypeOK, Unnotified
  <2>2. IsFiniteSet(Unnotified)
    BY FS_Subset DEF IInv, Unnotified
  <2>3. Cardinality(Unnotified') = Cardinality(Unnotified) - 1 /\ Cardinality(Unnotified) \in Nat
    BY <2>1, <2>2, FS_RemoveElement, FS_CardinalityType
  <2> QED
    BY <1>d, <1>e, <2>3 DEF IInv, TypeOK, WgExact
<1> QED
  BY <1>1, <1>2, <1>3, <1>4, <1>5, <1>6, <1>7 DEF IInv

\* A Close from Stop waits in the same list as the handlers.
LEMMA AsyncCloseIInv == ASSUME IInv, AsyncClose PROVE IInv'
<1> USE DEF fdVars, stopVars
<1> DEFINE c == asyncList[1][2]
<1>a. /\ Len(asyncList) \in Nat /\ Len(asyncList) >= 1
      /\ asyncList[1] = Head(asyncList)
      /\ asyncList[1][1] = "close"
      /\ asyncList' \in Seq(AsyncFuncs)
      /\ Len(asyncList') = Len(asyncList) - 1
      /\ \A k \in 1 .. Len(asyncList') : asyncList'[k] = asyncList[k + 1]
  <2>1. TypeOK /\ asyncList # <<>>
    BY DEF IInv, AsyncClose
  <2> QED
    BY <2>1, AsyncEntries DEF AsyncClose
<1>b. c \in added /\ c \in Conns
  BY <1>a DEF IInv, TypeOK, HandlerOnce
<1>c. closeWithError(c) /\ asyncRun' = (IF Open(c) THEN c ELSE NoConn)
  BY <1>a DEF AsyncClose
<1>d. UNCHANGED <<fdOf, owner, epoll, connsUnix, added, notified, shared, apc, acur, pev, wgConn,
                  stopPc, idx, late, dialFailed>>
  BY DEF AsyncClose
<1> HIDE DEF c
<1> DEFINE Parts == /\ closing' \in [Conns -> {"no", "closed", "deleted", "done"}] /\ early' \in BOOLEAN
                    /\ FdOwned' /\ OwnerBack' /\ AdderKnows' /\ NotifiedClosed' /\ TableKept' /\ TableExact'
<1>1. Parts
  BY <1>b, <1>c, <1>d, CloseParts
<1>2. /\ \A d \in Conns : closing[d] # "no" => closing'[d] = closing[d]
      /\ \A d \in Conns : closing'[d] # closing[d] => d \in added /\ closing'[d] = "closed"
  BY <1>b, <1>c, <1>d, CloseParts
<1>3. TypeOK'
  BY <1>a, <1>b, <1>c, <1>d, <1>1 DEF IInv, TypeOK
<1>4. KnownAdded' /\ StopIndex'
  BY <1>d, <1>1, <1>2 DEF IInv, TypeOK, KnownAdded, StopIndex
<1>5. HandlerOnce'
  <2>1. \A k \in 1 .. Len(asyncList) : asyncList[k][2] \in Conns
    BY DEF IInv, TypeOK, HandlerOnce
  <2>2. \A k \in 1 .. Len(asyncList) : asyncList[k][1] = "onClose" =>
          closing'[asyncList[k][2]] = closing[asyncList[k][2]]
    BY <1>2, <2>1 DEF IInv, TypeOK, HandlerOnce
  <2>3. \A k \in 1 .. Len(asyncList') : k + 1 \in 1 .. Len(asyncList)
    BY <1>a
  <2>4. \A k \in 1 .. Len(asyncList') : asyncList'[k][2] \in added'
    BY <1>a, <1>d, <2>3 DEF IInv, HandlerOnce
  <2>5. \A k \in 1 .. Len(asyncList') : asyncList'[k][1] = "onClose" =>
          closing'[asyncList'[k][2]] \in {"deleted", "done"} /\ notified'[asyncList'[k][2]] = 0
    BY <1>a, <1>d, <2>2, <2>3 DEF IInv, HandlerOnce
  <2>6. \A k, m \in 1 .. Len(asyncList') :
          asyncList'[k][1] = "onClose" /\ asyncList'[m] = asyncList'[k] => m = k
    <3> SUFFICES ASSUME NEW k \in 1 .. Len(asyncList'), NEW m \in 1 .. Len(asyncList'),
                        asyncList'[k][1] = "onClose", asyncList'[m] = asyncList'[k]
                 PROVE  m = k
      OBVIOUS
    <3>1. asyncList[k + 1][1] = "onClose" /\ asyncList[m + 1] = asyncList[k + 1]
      BY <1>a
    <3>2. m + 1 = k + 1
      BY <2>3, <3>1 DEF IInv, HandlerOnce
    <3> QED
      BY <1>a, <3>2
  <2> QED
    BY <2>4, <2>5, <2>6 DEF HandlerOnce
<1>6. HandlerKept'
  <2> SUFFICES ASSUME NEW d \in added', closing'[d] \in {"deleted", "done"}, notified'[d] = 0
               PROVE  \E k \in 1 .. Len(asyncList') : asyncList'[k] = <<"onClose", d>>
    BY DEF HandlerKept
  <2>1. notified[d] = 0 /\ d \in added /\ closing[d] \in {"deleted", "done"}
    BY <1>d, <1>2 DEF IInv, TypeOK
  <2>2. PICK k \in 1 .. Len(asyncList) : asyncList[k] = <<"onClose", d>>
    BY <2>1 DEF IInv, HandlerKept
  <2>3. k # 1
    BY <1>a, <2>2
  <2>4. k - 1 \in 1 .. Len(asyncList') /\ asyncList'[k - 1] = asyncList[k]
    BY <1>a, <2>3
  <2> QED
    BY <2>2, <2>4
<1>8. IsFiniteSet(added)' /\ WgExact'
  BY <1>d, WgFrame
<1> QED
  BY <1>1, <1>3, <1>4, <1>5, <1>6, <1>8 DEF IInv

\* A step of Stop other than its Done and its loop changes only its place.
LEMMA StopFrame ==
  ASSUME IInv, UNCHANGED <<fdVars, connVars, apc, acur, asyncVars, pev, wgConn, idx, early, dialFailed>>,
         late' \in BOOLEAN,
         \/ stopPc = "no" /\ stopPc' = "done"
         \/ stopPc = "wait" /\ stopPc' = "stopping"
         \/ stopPc = "stopping" /\ stopPc' = "stopped"
  PROVE  IInv'
<1> USE DEF fdVars, connVars, asyncVars
<1>1. TypeOK'
  BY DEF IInv, TypeOK
<1>2. FdOwned' /\ OwnerBack' /\ AdderKnows' /\ KnownAdded' /\ StopIndex'
  BY DEF IInv, FdOwned, OwnerBack, AdderKnows, KnownAdded, StopIndex
<1>3. HandlerOnce' /\ NotifiedClosed' /\ HandlerKept'
  BY AsyncFrame
<1>4. TableKept' /\ TableExact'
  BY DEF IInv, TableKept, TableExact
<1>5. IsFiniteSet(added)' /\ WgExact'
  BY WgFrame
<1> QED
  BY <1>1, <1>2, <1>3, <1>4, <1>5 DEF IInv

\* The Done that takes back the Add of initHandlers.
LEMMA StopDoneIInv == ASSUME IInv, StopDone PROVE IInv'
<1> USE DEF fdVars, connVars, asyncVars, history
<1>1. TypeOK'
  BY DEF IInv, TypeOK, StopDone
<1>2. FdOwned' /\ OwnerBack' /\ AdderKnows' /\ KnownAdded' /\ StopIndex'
  BY DEF IInv, FdOwned, OwnerBack, AdderKnows, KnownAdded, StopIndex, StopDone
<1>3. HandlerOnce' /\ NotifiedClosed' /\ HandlerKept'
  BY DEF IInv, HandlerOnce, NotifiedClosed, HandlerKept, StopDone
<1>4. TableKept' /\ TableExact'
  BY DEF IInv, TableKept, TableExact, StopDone
<1>5. IsFiniteSet(added)' /\ WgExact'
  <2>1. Unnotified' = Unnotified
    BY DEF Unnotified, StopDone
  <2>2. Cardinality(Unnotified) \in Nat
    BY FS_Subset, FS_CardinalityType DEF IInv, Unnotified
  <2> QED
    BY <2>1, <2>2 DEF IInv, TypeOK, WgExact, StopDone
<1> QED
  BY <1>1, <1>2, <1>3, <1>4, <1>5 DEF IInv

\* Stop hands over a Close for what it finds in the table: an added Conn.
LEMMA StopIterateIInv == ASSUME IInv, StopIterate PROVE IInv'
<1> USE DEF fdVars, connVars, history
<1>a. UNCHANGED <<fdOf, owner, epoll, connsUnix, closing, added, notified, shared, apc, acur,
                  asyncRun, pev, wgConn, early, late, dialFailed>>
  BY DEF StopIterate
<1>b. /\ stopPc = "iterate" /\ idx \in Slots /\ idx' = idx + 1
      /\ stopPc' = (IF idx + 1 = MaxOpenFiles THEN "wait" ELSE "iterate")
  BY DEF IInv, TypeOK, StopIndex, StopIterate
<1>1. TypeOK' /\ HandlerOnce' /\ HandlerKept'
  <2>1. CASE asyncList' = asyncList
    <3>1. TypeOK'
      BY <1>a, <1>b, <2>1 DEF IInv, TypeOK
    <3>2. HandlerOnce' /\ HandlerKept'
      BY <1>a, <2>1, AsyncFrame
    <3> QED
      BY <3>1, <3>2
  <2>2. CASE connsUnix[idx] # NoConn /\ asyncList' = Append(asyncList, <<"close", connsUnix[idx]>>)
    <3> DEFINE e == <<"close", connsUnix[idx]>>
    <3>1. e \in AsyncFuncs /\ e[1] = "close" /\ e[2] \in added
      BY <1>b, <2>2 DEF IInv, TypeOK, KnownAdded, AsyncFuncs
    <3>2. asyncList' = Append(asyncList, e)
      BY <2>2
    <3> HIDE DEF e
    <3>3. /\ Len(asyncList) \in Nat
          /\ asyncList' \in Seq(AsyncFuncs)
          /\ Len(asyncList') = Len(asyncList) + 1
          /\ \A k \in 1 .. Len(asyncList) : asyncList'[k] = asyncList[k]
          /\ asyncList'[Len(asyncList) + 1] = e
      <4>1. TypeOK
        BY DEF IInv
      <4> QED
        BY <3>1, <3>2, <4>1, AsyncEntries
    <3>4. \A k \in 1 .. Len(asyncList') : k \in 1 .. Len(asyncList) \/ k = Len(asyncList) + 1
      BY <3>3
    <3>5. TypeOK'
      BY <1>a, <1>b, <3>3 DEF IInv, TypeOK
    <3>6. HandlerOnce'
      <4>1. \A k \in 1 .. Len(asyncList') : asyncList'[k][1] = "onClose" =>
              k \in 1 .. Len(asyncList) /\ asyncList'[k] = asyncList[k]
        BY <3>1, <3>3, <3>4
      <4>2. \A k \in 1 .. Len(asyncList') : asyncList'[k][2] \in added'
        BY <1>a, <3>1, <3>3, <3>4 DEF IInv, HandlerOnce
      <4>3. \A k \in 1 .. Len(asyncList') : asyncList'[k][1] = "onClose" =>
              /\ closing'[asyncList'[k][2]] \in {"deleted", "done"}
              /\ notified'[asyncList'[k][2]] = 0
        BY <1>a, <4>1 DEF IInv, HandlerOnce
      <4>4. \A k, m \in 1 .. Len(asyncList') :
              asyncList'[k][1] = "onClose" /\ asyncList'[m] = asyncList'[k] => m = k
        <5> SUFFICES ASSUME NEW k \in 1 .. Len(asyncList'), NEW m \in 1 .. Len(asyncList'),
                            asyncList'[k][1] = "onClose", asyncList'[m] = asyncList'[k]
                     PROVE  m = k
          OBVIOUS
        <5>1. k \in 1 .. Len(asyncList) /\ m \in 1 .. Len(asyncList)
          BY <4>1
        <5> QED
          BY <3>3, <5>1 DEF IInv, HandlerOnce
      <4> QED
        BY <4>2, <4>3, <4>4 DEF HandlerOnce
    <3>7. HandlerKept'
      <4> SUFFICES ASSUME NEW d \in added', closing'[d] \in {"deleted", "done"}, notified'[d] = 0
                   PROVE  \E k \in 1 .. Len(asyncList') : asyncList'[k] = <<"onClose", d>>
        BY DEF HandlerKept
      <4>1. PICK k \in 1 .. Len(asyncList) : asyncList[k] = <<"onClose", d>>
        BY <1>a DEF IInv, HandlerKept
      <4>2. k \in 1 .. Len(asyncList') /\ asyncList'[k] = asyncList[k]
        BY <3>3
      <4> QED
        BY <4>1, <4>2
    <3> QED
      BY <3>5, <3>6, <3>7
  <2> QED
    BY <2>1, <2>2 DEF StopIterate
<1>2. FdOwned' /\ OwnerBack' /\ AdderKnows' /\ KnownAdded'
  BY <1>a DEF IInv, FdOwned, OwnerBack, AdderKnows, KnownAdded
<1>3. StopIndex'
  BY <1>b DEF StopIndex
<1>4. NotifiedClosed' /\ TableKept' /\ TableExact'
  BY <1>a DEF IInv, NotifiedClosed, TableKept, TableExact
<1>5. IsFiniteSet(added)' /\ WgExact'
  BY <1>a, <1>b, WgFrame
<1> QED
  BY <1>1, <1>2, <1>3, <1>4, <1>5 DEF IInv

LEMMA NextIInv == ASSUME IInv, [Next]_vars PROVE IInv'
<1>1. CASE UNCHANGED vars
  <2> USE <1>1 DEF vars
  <2>1. TypeOK'
    BY DEF IInv, TypeOK
  <2>2. FdOwned' /\ OwnerBack' /\ AdderKnows' /\ KnownAdded' /\ StopIndex'
    BY DEF IInv, FdOwned, OwnerBack, AdderKnows, KnownAdded, StopIndex
  <2>3. HandlerOnce' /\ NotifiedClosed' /\ HandlerKept'
    BY AsyncFrame
  <2>4. TableKept' /\ TableExact'
    BY DEF IInv, TableKept, TableExact
  <2>5. IsFiniteSet(added)' /\ WgExact'
    BY WgFrame
  <2> QED
    BY <2>1, <2>2, <2>3, <2>4, <2>5 DEF IInv
<1>2. ASSUME NEW a \in Adders, NEW c \in Conns, NEW f \in Fds, NewConn(a, c, f) PROVE IInv'
  BY <1>2, NewConnIInv
<1>3. ASSUME NEW a \in Adders, AddStep(a) PROVE IInv'
  BY <1>3, TooManyFilesIInv, OnOpenIInv, StoreIInv, RegisterIInv DEF AddStep
<1>4. ASSUME NEW c \in Conns, CloseStep(c) \/ Close(c) PROVE IInv'
  BY <1>4, deleteConnIInv, CloseFdIInv, UserCloseIInv DEF CloseStep
<1>5. ASSUME NEW f \in Fds, EpollWait(f) PROVE IInv'
  BY <1>5, EpollWaitIInv
<1>6. CASE HandleEvent
  BY <1>6, HandleEventIInv
<1>7. CASE AsyncStep
  BY <1>7, AsyncOnCloseIInv, AsyncCloseIInv DEF AsyncStep
<1>8. CASE StopCalled
  <2>1. late' \in BOOLEAN
    BY <1>8 DEF StopCalled
  <2> QED
    BY <1>8, <2>1, StopFrame DEF StopCalled
<1>9. CASE StopStep
  <2>1. StopWait => IInv'
    <3>1. late \in BOOLEAN
      BY DEF IInv, TypeOK
    <3> QED
      BY <3>1, StopFrame DEF StopWait, history
  <2>2. StopEnd => IInv'
    <3>1. late \in BOOLEAN
      BY DEF IInv, TypeOK
    <3> QED
      BY <3>1, StopFrame DEF StopEnd, history
  <2> QED
    BY <1>9, <2>1, <2>2, StopDoneIInv, StopIterateIInv DEF StopStep
<1> QED
  BY <1>1, <1>2, <1>3, <1>4, <1>5, <1>6, <1>7, <1>8, <1>9 DEF Next

LEMMA Invariance == Spec => []IInv
<1>1. Init => IInv
  BY InitIInv
<1>2. IInv /\ [Next]_vars => IInv'
  BY NextIInv
<1> QED
  BY <1>1, <1>2, PTL DEF Spec

-----------------------------------------------------------------------------
\* The Engine keeps its types; notified \in 0 .. 1 says that no OnClose handler
\* runs twice, and the index of Stop never leaves connsUnix.
THEOREM TypeCorrect == Spec => []TypeOK
<1>1. IInv => TypeOK
  BY DEF IInv
<1> QED
  BY <1>1, Invariance, PTL

\* However closes, reuses of fd numbers and registrations interleave, an fd is
\* its Conn's until that Conn's one syscall.Close (closeWithErrorWithoutLock).
THEOREM FdsOwned == Spec => []FdOwned
<1>1. IInv => FdOwned
  BY DEF IInv
<1> QED
  BY <1>1, Invariance, PTL

\* g.wgConn counts the Conns whose OnClose handler is still to run: onOpen's
\* Add and onClose's Done meet exactly.
THEOREM WaitGroupExact == Spec => []WgExact
<1>1. IInv => WgExact
  BY DEF IInv
<1> QED
  BY <1>1, Invariance, PTL

\* connsUnix, which no lock protects, leads to the owner of the fd as long as
\* no Conn is closed while addConn or addDialer is at work on it.
THEOREM TableCorrect == Spec => []TableExact
<1>1. IInv => TableExact
  BY DEF IInv
<1> QED
  BY <1>1, Invariance, PTL

\* An OnClose handler is never lost: from deleteConn on it has run or waits in
\* Timer.Async, exactly once.
THEOREM OnCloseKept == Spec => [](HandlerOnce /\ HandlerKept)
<1>1. IInv => HandlerOnce /\ HandlerKept
  BY DEF IInv
<1> QED
  BY <1>1, Invariance, PTL

\* When wgConn.Wait lets Stop go on to stop the pollers, the OnClose handler of
\* every Conn added so far has run.
THEOREM StopWaitsForHandlers == Spec => [][StopWait /\ ~dialFailed => Unnotified = {}]_vars
<1>1. ASSUME IInv, StopWait, ~dialFailed PROVE Unnotified = {}
  <2>1. IsFiniteSet(Unnotified)
    BY <1>1, FS_Subset DEF IInv, Unnotified
  <2>2. Cardinality(Unnotified) = 0
    BY <1>1, <2>1, FS_CardinalityType DEF IInv, WgExact, StopWait
  <2> QED
    BY <2>1, <2>2, FS_EmptySet
<1>2. IInv => [StopWait /\ ~dialFailed => Unnotified = {}]_vars
  BY <1>1
<1> QED
  BY <1>2, Invariance, PTL

=============================================================================
