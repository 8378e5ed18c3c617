--------------------------- MODULE HttpEngineProofs ---------------------------
(***************************************************************************)
(* Proofs about HttpEngine and Lmux and, in the second part, about the     *)
(* HttpClient that it composes with closeAllConns: the pool of             *)
(* ClientConns, and the responses that reach the requests.                 *)
(***************************************************************************)
EXTENDS HttpEngine, DataLemmas, SequenceTheorems, FiniteSetTheorems, TLAPS

-----------------------------------------------------------------------------
(* The inductive invariant.                                                *)

AllListeners == {"A", "B", "L"}
Handles == Conns \X {"tcp", "nbc"}
Entry == Conns \cup {Error}

EngineTypeOK ==
  /\ backlog \subseteq Conns /\ onlineA \in Int
  /\ mux \in [at : {"accept", "over", "gone"}, conn : Entry]
  /\ chEvent \in [{"A", "B"} -> Seq(Entry)]
  /\ shutdown \in BOOLEAN /\ listening \in BOOLEAN
  /\ la \in [AllListeners -> [at : {"check", "accept", "add", "start", "gone"}, conn : Entry]]
  /\ conns \subseteq Handles /\ open \subseteq Handles
  /\ via \in [Conns -> {"no"} \cup AllListeners]
  /\ rd \in [Conns -> {"no", "table", "reading", "convert", "transfer", "ending", "ended", "gone"}]
  /\ nb \in [Conns -> {"no", "table", "polled", "gone"}]
  /\ sd \in {"no", "listeners", "close", "tick", "stop", "pollers", "deferred", "done", "timeout"}

\* A connection is in one place: with the kernel, with the goroutine of lmux, in
\* one channel once, or given out to one listener.
InChan(x, c) == \E k \in DOMAIN chEvent[x] : chEvent[x][k] = c
ChannelsInv ==
  \A x, y \in {"A", "B"} : \A k \in DOMAIN chEvent[x], l \in DOMAIN chEvent[y] :
    chEvent[x][k] = chEvent[y][l] /\ chEvent[x][k] # Error => x = y /\ k = l
PlaceInv ==
  /\ \A c \in backlog : via[c] = "no" /\ ~InChannel(c) /\ mux.conn # c
  /\ mux.at = "over" => mux.conn \in Conns /\ via[mux.conn] = "no" /\ ~InChannel(mux.conn)
  /\ mux.at # "over" => mux.conn = Error
  /\ \A c \in Conns : InChannel(c) => via[c] = "no"

\* What a listener is adding was given to it, and is not served yet.
AddInv ==
  /\ \A c \in Conns : via[c] = "no" => rd[c] = "no" /\ nb[c] = "no"
  /\ \A x \in AllListeners : la[x].at \in {"add", "start"} => la[x].conn \in Conns /\ via[la[x].conn] = x
  /\ \A x \in AllListeners : la[x].at = "add" => rd[la[x].conn] = "no" /\ nb[la[x].conn] = "no"
  /\ \A x \in AllListeners : la[x].at = "start" => rd[la[x].conn] = IF Blocking(x) THEN "table" ELSE "no"

\* What waits to be given out is open, and what is in the table was given out.
Waits(c) == c \in backlog \/ mux.conn = c \/ InChannel(c)
WaitInv ==
  /\ \A c \in Conns : Waits(c) => <<c, "tcp">> \in open
  /\ \A h \in conns : via[h[1]] # "no"

\* A connection that is read is in the table, and closed when its reader ends.
OpenInv ==
  /\ \A c \in Conns : rd[c] \in {"table", "reading"} => <<c, "tcp">> \in conns
  /\ \A c \in Conns : rd[c] \in {"convert", "transfer", "ending", "ended", "gone"} => <<c, "tcp">> \notin open
  /\ ~shutdown => \A h \in open : \/ h \in conns \/ (h[2] = "tcp" /\ Held(h[1]))
                                  \/ (h[2] = "nbc" /\ rd[h[1]] = "convert")

LoadInv == IsFiniteSet(conns) /\ Cardinality(conns) <= MaxLoad

\* The connections that count for A.
OnlineOfA == {c \in Conns : ToA(c) /\ rd[c] # "gone"}
OnlineInv ==
  /\ IsFiniteSet(OnlineOfA)
  /\ onlineA = Cardinality(OnlineOfA) + (IF mux.at = "over" THEN 1 ELSE 0)
  /\ Cardinality(OnlineOfA) <= MaxOnlineA

\* No connection comes behind stopListeners, and none is added when Engine.Stop
\* has returned.
StopInv ==
  /\ sd # "no" => shutdown
  /\ sd \notin {"no", "listeners"} => ~listening
  /\ sd \in {"deferred", "done"} => \A x \in Listeners : la[x].at = "gone"
  /\ sd = "done" => \A h \in open \cap conns : h[2] = "nbc" /\ rd[h[1]] = "transfer"

IInv == EngineTypeOK /\ ChannelsInv /\ PlaceInv /\ AddInv /\ WaitInv /\ OpenInv /\ LoadInv /\ OnlineInv /\ StopInv

-----------------------------------------------------------------------------
(* Lemmas about the channels of lmux.                                      *)

LEMMA ConnFacts == Error \notin Conns /\ ErrClosed \notin Entry /\ Conns \subseteq Entry
  BY ConnsAssumption DEF Error, ErrClosed, Entry

LEMMA InChannelIs == \A c : InChannel(c) <=> InChan("A", c) \/ InChan("B", c)
  BY DEF InChannel, InChan

LEMMA ChannelFacts ==
  ASSUME EngineTypeOK, NEW x \in {"A", "B"}
  PROVE  /\ chEvent[x] \in Seq(Entry) /\ Len(chEvent[x]) \in Nat /\ DOMAIN chEvent[x] = 1 .. Len(chEvent[x])
         /\ \A k \in 1 .. Len(chEvent[x]) : chEvent[x][k] \in Entry
  BY SeqFacts DEF EngineTypeOK

\* What Send does.
LEMMA ChannelGrows ==
  ASSUME EngineTypeOK, ChannelsInv, NEW x \in {"A", "B"}, NEW e \in Entry, e = Error \/ ~InChannel(e), Send(x, e)
  PROVE  /\ chEvent' \in [{"A", "B"} -> Seq(Entry)] /\ ChannelsInv'
         /\ \A y \in {"A", "B"}, c \in Entry : InChan(y, c)' <=> InChan(y, c) \/ (y = x /\ c = e)
<1> DEFINE s == chEvent[x]  t == chEvent'[x]
<1>1. chEvent' = [chEvent EXCEPT ![x] = Append(chEvent[x], e)] /\ chEvent \in [{"A", "B"} -> Seq(Entry)]
  BY DEF Send, EngineTypeOK
<1>2. t = Append(s, e) /\ \A y \in {"A", "B"} : y # x => chEvent'[y] = chEvent[y]
  BY <1>1
<1>3. s \in Seq(Entry) /\ Len(s) \in Nat /\ DOMAIN s = 1 .. Len(s)
  BY ChannelFacts
<1>4. /\ t \in Seq(Entry) /\ Len(t) = Len(s) + 1
      /\ \A k \in 1 .. Len(s) : t[k] = s[k]
      /\ t[Len(s) + 1] = e
  BY <1>2, <1>3, AppendSeq
<1>5. DOMAIN t = 1 .. Len(s) + 1
  BY <1>4, SeqFacts
<1>6. chEvent' \in [{"A", "B"} -> Seq(Entry)]
  BY <1>1, <1>2, <1>4
<1> HIDE DEF s, t
<1>7. ASSUME NEW y \in {"A", "B"}, NEW c \in Entry
      PROVE  InChan(y, c)' <=> InChan(y, c) \/ (y = x /\ c = e)
  <2>1. CASE y # x
    BY <1>2, <2>1 DEF InChan
  <2>2. CASE y = x
    <3>1. (InChan(x, c)' <=> \E k \in DOMAIN t : t[k] = c) /\ (InChan(x, c) <=> \E k \in DOMAIN s : s[k] = c)
      BY DEF InChan, s, t
    <3>2. (\E k \in DOMAIN t : t[k] = c) <=> (\E k \in DOMAIN s : s[k] = c) \/ c = e
      <4>1. ASSUME NEW k \in DOMAIN t, t[k] = c PROVE (\E i \in DOMAIN s : s[i] = c) \/ c = e
        BY <1>3, <1>4, <1>5, <4>1
      <4>2. ASSUME NEW k \in DOMAIN s, s[k] = c PROVE \E i \in DOMAIN t : t[i] = c
        BY <1>3, <1>4, <1>5, <4>2
      <4>3. c = e => \E i \in DOMAIN t : t[i] = c
        BY <1>3, <1>4, <1>5
      <4> QED BY <4>1, <4>2, <4>3
    <3> QED BY <2>2, <3>1, <3>2
  <2> QED BY <2>1, <2>2
<1>8. ChannelsInv'
  <2> SUFFICES ASSUME NEW y \in {"A", "B"}, NEW z \in {"A", "B"},
                      NEW k \in DOMAIN chEvent'[y], NEW l \in DOMAIN chEvent'[z],
                      chEvent'[y][k] = chEvent'[z][l], chEvent'[y][k] # Error
               PROVE  y = z /\ k = l
    BY DEF ChannelsInv
  <2>1. ASSUME NEW w \in {"A", "B"}, NEW i \in DOMAIN chEvent'[w]
        PROVE  \/ i \in DOMAIN chEvent[w] /\ chEvent'[w][i] = chEvent[w][i]
               \/ w = x /\ i = Len(s) + 1 /\ chEvent'[w][i] = e
    <3>1. CASE w # x
      BY <1>2, <2>1, <3>1
    <3>2. CASE w = x
      <4>1. i \in 1 .. Len(s) + 1
        BY <1>5, <2>1, <3>2 DEF t
      <4> QED BY <1>3, <1>4, <3>2, <4>1 DEF s, t
    <3> QED BY <3>1, <3>2
  <2>2. ASSUME NEW w \in {"A", "B"}, NEW i \in DOMAIN chEvent[w], e # Error PROVE chEvent[w][i] # e
    BY <2>2 DEF InChannel
  <2>3. CASE /\ k \in DOMAIN chEvent[y] /\ chEvent'[y][k] = chEvent[y][k]
             /\ l \in DOMAIN chEvent[z] /\ chEvent'[z][l] = chEvent[z][l]
    <3>1. chEvent[y][k] = chEvent[z][l] /\ chEvent[y][k] # Error => y = z /\ k = l
      BY <2>3 DEF ChannelsInv
    <3> QED BY <2>3, <3>1
  <2> QED BY <2>1, <2>2, <2>3
<1> QED BY <1>6, <1>7, <1>8

\* What Accept does to a channel.
LEMMA ChannelShrinks ==
  ASSUME EngineTypeOK, ChannelsInv, NEW x \in {"A", "B"}, chEvent[x] # <<>>,
         chEvent' = [chEvent EXCEPT ![x] = Tail(@)]
  PROVE  /\ chEvent' \in [{"A", "B"} -> Seq(Entry)] /\ ChannelsInv'
         /\ Head(chEvent[x]) \in Entry /\ InChan(x, Head(chEvent[x]))
         /\ \A y \in {"A", "B"}, c \in Conns :
              InChan(y, c)' <=> InChan(y, c) /\ ~(y = x /\ c = Head(chEvent[x]))
<1> DEFINE s == chEvent[x]  t == chEvent'[x]
<1>1. chEvent' = [chEvent EXCEPT ![x] = Tail(chEvent[x])] /\ chEvent \in [{"A", "B"} -> Seq(Entry)]
  BY DEF EngineTypeOK
<1>2. t = Tail(s) /\ \A y \in {"A", "B"} : y # x => chEvent'[y] = chEvent[y]
  BY <1>1
<1>3. s \in Seq(Entry) /\ s # <<>> /\ Len(s) \in Nat /\ DOMAIN s = 1 .. Len(s) /\ Len(s) > 0
  BY ChannelFacts, SeqFacts
<1>4. /\ Head(s) \in Entry /\ Head(s) = s[1] /\ t \in Seq(Entry) /\ Len(t) = Len(s) - 1
      /\ \A k \in 1 .. Len(s) - 1 : t[k] = s[k + 1]
  BY <1>2, <1>3, TailSeq
<1>5. DOMAIN t = 1 .. Len(s) - 1
  BY <1>4, SeqFacts
<1>6. chEvent' \in [{"A", "B"} -> Seq(Entry)]
  BY <1>1, <1>2, <1>4
<1>7. \A i, k \in DOMAIN s : s[i] = s[k] /\ s[i] # Error => i = k
  BY DEF ChannelsInv
<1> HIDE DEF t
<1>8. InChan(x, Head(s))
  BY <1>3, <1>4 DEF InChan
<1>9. ASSUME NEW y \in {"A", "B"}, NEW c \in Conns
      PROVE  InChan(y, c)' <=> InChan(y, c) /\ ~(y = x /\ c = Head(s))
  <2>1. CASE y # x
    BY <1>2, <2>1 DEF InChan
  <2>2. CASE y = x
    <3>1. (InChan(x, c)' <=> \E k \in DOMAIN t : t[k] = c) /\ (InChan(x, c) <=> \E k \in DOMAIN s : s[k] = c)
      BY DEF InChan, t
    <3>2. c # Error
      BY ConnFacts
    <3> HIDE DEF s
    <3>3. ASSUME NEW k \in DOMAIN t, t[k] = c PROVE (\E i \in DOMAIN s : s[i] = c) /\ c # Head(s)
      <4>1. k + 1 \in DOMAIN s /\ s[k + 1] = c /\ k + 1 # 1 /\ 1 \in DOMAIN s
        BY <1>3, <1>4, <1>5, <3>3
      <4> QED BY <1>4, <1>7, <3>2, <4>1
    <3>4. ASSUME NEW i \in DOMAIN s, s[i] = c, c # Head(s) PROVE \E k \in DOMAIN t : t[k] = c
      <4>1. i # 1 /\ i - 1 \in 1 .. Len(s) - 1 /\ (i - 1) + 1 = i
        BY <1>3, <1>4, <3>4
      <4>2. t[i - 1] = c
        BY <1>4, <3>4, <4>1
      <4> QED BY <1>5, <4>1, <4>2
    <3> QED BY <2>2, <3>1, <3>3, <3>4
  <2> QED BY <2>1, <2>2
<1>10. ChannelsInv'
  <2> SUFFICES ASSUME NEW y \in {"A", "B"}, NEW z \in {"A", "B"},
                      NEW k \in DOMAIN chEvent'[y], NEW l \in DOMAIN chEvent'[z],
                      chEvent'[y][k] = chEvent'[z][l], chEvent'[y][k] # Error
               PROVE  y = z /\ k = l
    BY DEF ChannelsInv
  <2> DEFINE up(w, i) == IF w = x THEN i + 1 ELSE i
  <2>1. ASSUME NEW w \in {"A", "B"}, NEW i \in DOMAIN chEvent'[w]
        PROVE  up(w, i) \in DOMAIN chEvent[w] /\ chEvent'[w][i] = chEvent[w][up(w, i)] /\ i \in Nat
    <3>1. CASE w # x
      BY <1>2, <2>1, <3>1, ChannelFacts
    <3>2. CASE w = x
      <4>1. i \in 1 .. Len(s) - 1
        BY <1>5, <2>1, <3>2 DEF t
      <4> QED BY <1>3, <1>4, <3>2, <4>1 DEF t
    <3> QED BY <3>1, <3>2
  <2>2. y = z /\ up(y, k) = up(z, l)
    BY <2>1 DEF ChannelsInv
  <2>3. k \in Nat /\ l \in Nat
    BY <2>1
  <2> QED BY <2>2, <2>3
<1> QED BY <1>4, <1>6, <1>8, <1>9, <1>10

\* What a failed Accept of the listener does to the channels.
LEMMA ChannelsFail ==
  ASSUME EngineTypeOK, ChannelsInv, MuxFails
  PROVE  /\ chEvent' \in [{"A", "B"} -> Seq(Entry)] /\ ChannelsInv'
         /\ \A y \in {"A", "B"}, c \in Conns : InChan(y, c)' <=> InChan(y, c)
<1>1. ASSUME NEW x \in {"A", "B"}
      PROVE  /\ chEvent'[x] \in Seq(Entry) /\ DOMAIN chEvent[x] = 1 .. Len(chEvent[x])
             /\ Len(chEvent[x]) \in Nat /\ DOMAIN chEvent'[x] = 1 .. Len(chEvent[x]) + 1
             /\ \A k \in 1 .. Len(chEvent[x]) : chEvent'[x][k] = chEvent[x][k]
             /\ chEvent'[x][Len(chEvent[x]) + 1] = Error
  <2>1. chEvent[x] \in Seq(Entry) /\ Error \in Entry /\ Len(chEvent[x]) \in Nat /\ DOMAIN chEvent[x] = 1 .. Len(chEvent[x])
    BY ChannelFacts DEF Entry
  <2>2. chEvent'[x] = Append(chEvent[x], Error)
    BY DEF MuxFails
  <2>3. /\ chEvent'[x] \in Seq(Entry) /\ Len(chEvent'[x]) = Len(chEvent[x]) + 1
        /\ \A k \in 1 .. Len(chEvent[x]) : chEvent'[x][k] = chEvent[x][k]
        /\ chEvent'[x][Len(chEvent[x]) + 1] = Error
    BY <2>1, <2>2, AppendSeq
  <2>4. DOMAIN chEvent'[x] = 1 .. Len(chEvent'[x])
    BY <2>3, SeqFacts
  <2> QED BY <2>1, <2>3, <2>4
<1>2. chEvent' \in [{"A", "B"} -> Seq(Entry)]
  BY <1>1 DEF MuxFails
<1>3. ASSUME NEW x \in {"A", "B"}, NEW k \in DOMAIN chEvent'[x], chEvent'[x][k] # Error
      PROVE  k \in DOMAIN chEvent[x] /\ chEvent'[x][k] = chEvent[x][k]
  <2> DEFINE n == Len(chEvent[x])
  <2>1. /\ n \in Nat /\ k \in 1 .. n + 1 /\ (k = n + 1 => chEvent'[x][k] = Error)
        /\ DOMAIN chEvent[x] = 1 .. n /\ (k \in 1 .. n => chEvent'[x][k] = chEvent[x][k])
    BY <1>1, <1>3, Zenon
  <2> HIDE DEF n
  <2> QED BY <1>3, <2>1
<1>4. ASSUME NEW y \in {"A", "B"}, NEW c \in Conns PROVE InChan(y, c)' <=> InChan(y, c)
  <2>1. c # Error
    BY ConnFacts
  <2>2. InChan(y, c)' => InChan(y, c)
    BY <1>3, <2>1 DEF InChan
  <2>3. ASSUME NEW k \in DOMAIN chEvent[y] PROVE k \in DOMAIN chEvent'[y] /\ chEvent'[y][k] = chEvent[y][k]
    <3> DEFINE n == Len(chEvent[y])
    <3>1. /\ n \in Nat /\ k \in 1 .. n /\ DOMAIN chEvent'[y] = 1 .. n + 1
          /\ (k \in 1 .. n => chEvent'[y][k] = chEvent[y][k])
      BY <1>1, <2>3, Zenon
    <3> HIDE DEF n
    <3> QED BY <3>1
  <2> QED BY <2>2, <2>3 DEF InChan
<1>5. ChannelsInv'
  <2> SUFFICES ASSUME NEW y \in {"A", "B"}, NEW z \in {"A", "B"},
                      NEW k \in DOMAIN chEvent'[y], NEW l \in DOMAIN chEvent'[z],
                      chEvent'[y][k] = chEvent'[z][l], chEvent'[y][k] # Error
               PROVE  y = z /\ k = l
    BY DEF ChannelsInv
  <2>1. k \in DOMAIN chEvent[y] /\ chEvent'[y][k] = chEvent[y][k]
    BY <1>3
  <2>2. l \in DOMAIN chEvent[z] /\ chEvent'[z][l] = chEvent[z][l]
    BY <1>3
  <2>3. chEvent[y][k] = chEvent[z][l] /\ chEvent[y][k] # Error => y = z /\ k = l
    BY <2>1, <2>2 DEF ChannelsInv
  <2> QED BY <2>1, <2>2, <2>3
<1> QED BY <1>2, <1>4, <1>5

-----------------------------------------------------------------------------
(* The steps.                                                              *)

Outside == <<lmuxVars, fixed, serverVars, sd>>

\* The kinds of step.
LEMMA NextCases ==
  ASSUME Next
  PROVE  \/ UNCHANGED Outside
         \/ \E c \in Conns : Arrive(c)
         \/ (\E c \in Conns : MuxAccept(c)) /\ UNCHANGED <<fixed, serverVars, sd>>
         \/ MuxTakeBack /\ UNCHANGED <<fixed, serverVars, sd>>
         \/ MuxFails /\ UNCHANGED <<fixed, serverVars, sd>>
         \/ \E x \in Listeners : ListenCheck(x)
         \/ \E x \in Listeners : ListenMux(x)
         \/ ListenDirect /\ "L" \in Listeners
         \/ \E x \in Listeners : AddRefuse(x)
         \/ \E x \in Listeners : AddTable(x)
         \/ \E x \in Listeners : StartReading(x)
         \/ \E x \in Listeners, ok \in BOOLEAN : StartPolling(x, ok)
         \/ \E h \in Handles : ConnCloses(h)
         \/ \E c \in Conns : Transfer(c) \/ AddTransferredConn(c)
         \/ \E c \in Conns, ok \in BOOLEAN : TransferPolls(c, ok)
         \/ \E c \in Conns : ReadEnds(c)
         \/ \E c \in Conns : ReadEnded(c)
         \/ \E c \in Conns : OnClose(c)
         \/ ShutdownStart \/ stopListeners \/ ShutdownCloses \/ StopCloses \/ StopWaited \/ EngineStops
         \/ ShutdownReturns \/ ShutdownTimeout
         \/ ShutdownTick
<1>1. Client => UNCHANGED Outside
  BY DEF Client, Outside
<1>2. MuxStep => \/ (\E c \in Conns : MuxAccept(c)) /\ UNCHANGED <<fixed, serverVars, sd>>
                 \/ MuxTakeBack /\ UNCHANGED <<fixed, serverVars, sd>>
                 \/ MuxFails /\ UNCHANGED <<fixed, serverVars, sd>>
  BY Zenon DEF MuxStep, Mux
<1> QED BY <1>1, <1>2, Zenon DEF Next, Listen, Serve, Shutdown, Handles

\* What a step that leaves lmux alone keeps.
LEMMA PlaceKept ==
  ASSUME ChannelsInv, PlaceInv, UNCHANGED <<backlog, mux, chEvent, via>>
  PROVE  ChannelsInv' /\ PlaceInv'
<1>1. \A c : InChannel(c)' <=> InChannel(c)
  BY DEF InChannel
<1> QED BY <1>1 DEF ChannelsInv, PlaceInv

LEMMA OnlineKept ==
  ASSUME OnlineInv, UNCHANGED <<mux, chEvent, via, onlineA>>, \A c \in Conns : rd'[c] = "gone" <=> rd[c] = "gone"
  PROVE  OnlineInv'
<1>1. OnlineOfA' = OnlineOfA
  BY DEF OnlineOfA, ToA
<1> QED BY <1>1 DEF OnlineInv

LEMMA LoadKept ==
  ASSUME LoadInv, conns' \subseteq conns
  PROVE  LoadInv'
<1>1. IsFiniteSet(conns') /\ Cardinality(conns') <= Cardinality(conns)
  BY FS_Subset DEF LoadInv
<1>2. Cardinality(conns) \in Nat /\ Cardinality(conns') \in Nat
  BY <1>1, FS_CardinalityType DEF LoadInv
<1> QED BY <1>1, <1>2, EngineAssumption DEF LoadInv

LEMMA LoadGrows ==
  ASSUME LoadInv, NEW h, conns' = conns \cup {h}, Cardinality(conns) < MaxLoad
  PROVE  LoadInv'
<1>1. IsFiniteSet(conns) /\ Cardinality(conns) \in Nat
  BY FS_CardinalityType DEF LoadInv
<1>2. IsFiniteSet(conns') /\ Cardinality(conns') <= Cardinality(conns) + 1
  BY <1>1, FS_AddElement
<1>3. Cardinality(conns') \in Nat
  BY <1>2, FS_CardinalityType
<1> QED BY <1>1, <1>2, <1>3, EngineAssumption DEF LoadInv

LEMMA WaitsNo ==
  ASSUME EngineTypeOK, PlaceInv
  PROVE  \A c \in Conns : Waits(c) => via[c] = "no"
  BY ConnFacts DEF PlaceInv, Waits, EngineTypeOK

LEMMA WaitKept ==
  ASSUME EngineTypeOK, PlaceInv, WaitInv, UNCHANGED <<backlog, mux, chEvent, via>>,
         \A c \in Conns : via[c] = "no" /\ <<c, "tcp">> \in open => <<c, "tcp">> \in open',
         \A h \in conns' : h \in conns \/ via[h[1]] # "no"
  PROVE  WaitInv'
<1>1. \A c : InChannel(c)' <=> InChannel(c)
  BY DEF InChannel
<1>2. \A c : Waits(c)' <=> Waits(c)
  BY <1>1 DEF Waits
<1> QED BY <1>2, WaitsNo DEF WaitInv

LEMMA HeldKept ==
  ASSUME UNCHANGED <<backlog, mux, chEvent, ioMod>>,
         \A x \in Listeners : la[x].at = "add" => la'[x] = la[x]
  PROVE  \A c : Held(c) => Held(c)'
<1>1. \A c : InChannel(c)' <=> InChannel(c)
  BY DEF InChannel
<1>2. Listeners' = Listeners
  BY DEF Listeners
<1> QED BY <1>1, <1>2 DEF Held

-----------------------------------------------------------------------------
(* Serving and closing.                                                    *)

LEMMA ServeKept ==
  ASSUME IInv, UNCHANGED <<backlog, mux, chEvent, via, onlineA>>,
         EngineTypeOK', AddInv', OpenInv', LoadInv', StopInv',
         \A c \in Conns : rd'[c] = "gone" <=> rd[c] = "gone",
         \A c \in Conns : via[c] = "no" /\ <<c, "tcp">> \in open => <<c, "tcp">> \in open',
         \A h \in conns' : h \in conns \/ via[h[1]] # "no"
  PROVE  IInv'
<1>1. ChannelsInv' /\ PlaceInv'
  BY PlaceKept DEF IInv
<1>2. WaitInv'
  BY WaitKept DEF IInv
<1>3. OnlineInv'
  BY OnlineKept DEF IInv
<1> QED BY <1>1, <1>2, <1>3 DEF IInv

LEMMA SameListeners ==
  ASSUME ioMod' = ioMod
  PROVE  Listeners' = Listeners /\ Listeners \subseteq AllListeners /\ \A x : Blocking(x)' <=> Blocking(x)
  BY DEF Listeners, Blocking, AllListeners

LEMMA ConnClosesKeeps ==
  ASSUME IInv, NEW h \in Handles, ConnCloses(h)
  PROVE  IInv'
<1>1. /\ open' = open \ {h} /\ (h[2] = "tcp" => rd[h[1]] = "reading")
      /\ backlog' = backlog /\ mux' = mux /\ chEvent' = chEvent /\ onlineA' = onlineA /\ listening' = listening
      /\ ioMod' = ioMod /\ shutdown' = shutdown /\ la' = la /\ conns' = conns /\ via' = via /\ rd' = rd
      /\ nb' = nb /\ sd' = sd
  BY DEF ConnCloses, lmuxVars, fixed
<1>2. EngineTypeOK'
  BY <1>1 DEF IInv, EngineTypeOK
<1>3. AddInv'
  BY <1>1 DEF IInv, AddInv, Blocking
<1>4. LoadInv'
  BY <1>1, LoadKept DEF IInv
<1>5. StopInv'
  BY <1>1, SameListeners DEF IInv, StopInv
<1>6. OpenInv'
  <2>1. \A c : Held(c) => Held(c)'
    BY <1>1, HeldKept
  <2> QED BY <1>1, <2>1 DEF IInv, OpenInv
<1>7. \A c \in Conns : via[c] = "no" /\ <<c, "tcp">> \in open => <<c, "tcp">> \in open'
  BY <1>1 DEF IInv, AddInv
<1> QED BY <1>1, <1>2, <1>3, <1>4, <1>5, <1>6, <1>7, ServeKept

LEMMA PollEffect ==
  ASSUME EngineTypeOK, NEW c \in Conns, NEW ok \in BOOLEAN, Poll(c, ok)
  PROVE  /\ nb' \in [Conns -> {"no", "table", "polled", "gone"}]
         /\ \A d \in Conns : d # c => nb'[d] = nb[d]
         /\ conns' \subseteq conns /\ open' \subseteq open
         /\ \A d \in Conns : /\ <<d, "tcp">> \in conns => <<d, "tcp">> \in conns'
                             /\ <<d, "tcp">> \in open => <<d, "tcp">> \in open'
         /\ \A h \in open' : h \in conns => h \in conns'
         /\ sd \in {"deferred", "done"} => <<c, "nbc">> \notin open'
<1>1. \/ nb' = [nb EXCEPT ![c] = "polled"] /\ conns' = conns /\ open' = open /\ sd \notin {"deferred", "done"}
      \/ /\ nb' = [nb EXCEPT ![c] = "gone"]
         /\ conns' = conns \ {<<c, "nbc">>} /\ open' = open \ {<<c, "nbc">>}
  BY Zenon DEF Poll, PollersGone
<1>2. nb \in [Conns -> {"no", "table", "polled", "gone"}]
  BY DEF EngineTypeOK
<1> QED BY <1>1, <1>2

LEMMA TransferPollsKeeps ==
  ASSUME IInv, NEW c \in Conns, NEW ok \in BOOLEAN, TransferPolls(c, ok)
  PROVE  IInv'
<1>1. /\ rd[c] = "transfer" /\ Poll(c, ok) /\ rd' = [rd EXCEPT ![c] = "ending"]
      /\ backlog' = backlog /\ mux' = mux /\ chEvent' = chEvent /\ onlineA' = onlineA /\ listening' = listening
      /\ ioMod' = ioMod /\ shutdown' = shutdown /\ la' = la /\ via' = via /\ sd' = sd
  BY DEF TransferPolls, lmuxVars, fixed
<1>2. /\ nb' \in [Conns -> {"no", "table", "polled", "gone"}]
      /\ \A d \in Conns : d # c => nb'[d] = nb[d]
      /\ conns' \subseteq conns /\ open' \subseteq open
      /\ \A d \in Conns : /\ <<d, "tcp">> \in conns => <<d, "tcp">> \in conns'
                          /\ <<d, "tcp">> \in open => <<d, "tcp">> \in open'
      /\ \A h \in open' : h \in conns => h \in conns'
      /\ sd = "done" => <<c, "nbc">> \notin open'
  BY <1>1, PollEffect DEF IInv
<1>3. EngineTypeOK'
  BY <1>1, <1>2 DEF IInv, EngineTypeOK
<1>4. rd \in [Conns -> {"no", "table", "reading", "convert", "transfer", "ending", "ended", "gone"}]
  BY DEF IInv, EngineTypeOK
<1>5. AddInv'
  BY <1>1, <1>2, <1>4, SameListeners DEF IInv, AddInv
<1>6. LoadInv'
  BY <1>2, LoadKept DEF IInv
<1>7. StopInv'
  <2>1. ASSUME sd = "done", NEW h \in open' \cap conns' PROVE h[2] = "nbc" /\ rd'[h[1]] = "transfer"
    <3>1. h \in open \cap conns /\ h \in Handles
      BY <1>2, <2>1 DEF IInv, EngineTypeOK
    <3>2. h[2] = "nbc" /\ rd[h[1]] = "transfer" /\ h[1] \in Conns /\ h = <<h[1], h[2]>>
      BY <2>1, <3>1 DEF IInv, StopInv, Handles
    <3>3. h[1] # c
      BY <1>2, <2>1, <3>2
    <3> QED BY <1>1, <1>4, <3>2, <3>3
  <2> QED BY <1>1, <2>1, SameListeners DEF IInv, StopInv
<1>8. OpenInv'
  <2>1. \A d : Held(d) => Held(d)'
    BY <1>1, HeldKept
  <2> QED BY <1>1, <1>2, <1>4, <2>1 DEF IInv, OpenInv
<1>9. \A d \in Conns : rd'[d] = "gone" <=> rd[d] = "gone"
  BY <1>1, <1>4
<1> QED BY <1>1, <1>2, <1>3, <1>5, <1>6, <1>7, <1>8, <1>9, ServeKept

LEMMA ReadEndsKeeps ==
  ASSUME IInv, NEW c \in Conns, ReadEnds(c)
  PROVE  IInv'
<1>1. /\ (rd[c] = "reading" /\ <<c, "tcp">> \notin open) \/ rd[c] = "ending"
      /\ rd' = [rd EXCEPT ![c] = "ended"] /\ conns' = conns \ {<<c, "tcp">>}
      /\ backlog' = backlog /\ mux' = mux /\ chEvent' = chEvent /\ onlineA' = onlineA /\ listening' = listening
      /\ ioMod' = ioMod /\ shutdown' = shutdown /\ la' = la /\ via' = via /\ nb' = nb /\ sd' = sd /\ open' = open
  BY DEF ReadEnds, lmuxVars, fixed
<1>2. rd \in [Conns -> {"no", "table", "reading", "convert", "transfer", "ending", "ended", "gone"}]
  BY DEF IInv, EngineTypeOK
<1>3. EngineTypeOK'
  BY <1>1, <1>2 DEF IInv, EngineTypeOK
<1>4. AddInv'
  BY <1>1, <1>2, SameListeners DEF IInv, AddInv
<1>5. LoadInv'
  BY <1>1, LoadKept DEF IInv
<1>6. StopInv'
  BY <1>1, SameListeners DEF IInv, StopInv
<1>7. <<c, "tcp">> \notin open
  BY <1>1 DEF IInv, OpenInv
<1>8. OpenInv'
  <2>1. \A d : Held(d) => Held(d)'
    BY <1>1, HeldKept
  <2> QED BY <1>1, <1>2, <1>7, <2>1 DEF IInv, OpenInv
<1>9. \A d \in Conns : rd'[d] = "gone" <=> rd[d] = "gone"
  BY <1>1, <1>2
<1> QED BY <1>1, <1>3, <1>4, <1>5, <1>6, <1>8, <1>9, ServeKept

LEMMA OnCloseKept ==
  ASSUME IInv, NEW c \in Conns, OnClose(c)
  PROVE  IInv'
<1>1. /\ nb[c] = "polled" /\ <<c, "nbc">> \notin open /\ nb' = [nb EXCEPT ![c] = "gone"]
      /\ conns' = conns \ {<<c, "nbc">>}
      /\ backlog' = backlog /\ mux' = mux /\ chEvent' = chEvent /\ onlineA' = onlineA /\ listening' = listening
      /\ ioMod' = ioMod /\ shutdown' = shutdown /\ la' = la /\ via' = via /\ rd' = rd /\ sd' = sd /\ open' = open
  BY DEF OnClose, lmuxVars, fixed
<1>2. nb \in [Conns -> {"no", "table", "polled", "gone"}]
  BY DEF IInv, EngineTypeOK
<1>3. EngineTypeOK'
  BY <1>1, <1>2 DEF IInv, EngineTypeOK
<1>4. AddInv'
  BY <1>1, <1>2, SameListeners DEF IInv, AddInv
<1>5. LoadInv'
  BY <1>1, LoadKept DEF IInv
<1>6. StopInv'
  BY <1>1, SameListeners DEF IInv, StopInv
<1>7. OpenInv'
  <2>1. \A d : Held(d) => Held(d)'
    BY <1>1, HeldKept
  <2> QED BY <1>1, <2>1 DEF IInv, OpenInv
<1> QED BY <1>1, <1>3, <1>4, <1>5, <1>6, <1>7, ServeKept

LEMMA TransferKeeps ==
  ASSUME IInv, NEW c \in Conns, Transfer(c)
  PROVE  IInv'
<1> DEFINE t == <<c, "tcp">>  n == <<c, "nbc">>
<1>1. /\ rd[c] = "reading" /\ t \in open /\ open' = (open \ {t}) \cup {n} /\ rd' = [rd EXCEPT ![c] = "convert"]
      /\ backlog' = backlog /\ mux' = mux /\ chEvent' = chEvent /\ onlineA' = onlineA /\ listening' = listening
      /\ ioMod' = ioMod /\ shutdown' = shutdown /\ la' = la /\ via' = via /\ sd' = sd /\ conns' = conns /\ nb' = nb
  BY DEF Transfer, lmuxVars, fixed
<1>2. /\ rd \in [Conns -> {"no", "table", "reading", "convert", "transfer", "ending", "ended", "gone"}]
      /\ open \subseteq Handles /\ n \in Handles
  BY DEF IInv, EngineTypeOK, Handles
<1>3. via[c] # "no"
  BY <1>1 DEF IInv, AddInv
<1>4. t[1] = c /\ t[2] = "tcp" /\ n[1] = c /\ n[2] = "nbc"
  OBVIOUS
<1>5. sd # "done"
  <2>1. t \in conns
    BY <1>1 DEF IInv, OpenInv
  <2> QED BY <1>1, <1>4, <2>1 DEF IInv, StopInv
<1>6. \A d \in Conns : <<d, "tcp">> # n /\ (<<d, "tcp">> = t => d = c)
  OBVIOUS
<1> HIDE DEF t, n
<1>7. /\ rd' \in [Conns -> {"no", "table", "reading", "convert", "transfer", "ending", "ended", "gone"}]
      /\ \A d \in Conns : d # c => rd'[d] = rd[d]
      /\ rd'[c] = "convert"
  BY <1>1, <1>2
<1>8. EngineTypeOK'
  BY <1>1, <1>2, <1>7 DEF IInv, EngineTypeOK
<1>9. AddInv'
  BY <1>1, <1>3, <1>7, SameListeners DEF IInv, AddInv
<1>10. LoadInv'
  BY <1>1, LoadKept DEF IInv
<1>11. StopInv'
  BY <1>1, <1>5, SameListeners DEF IInv, StopInv
<1>12. OpenInv'
  <2>1. \A d : Held(d) => Held(d)'
    BY <1>1, HeldKept
  <2>2. \A d \in Conns : rd'[d] \in {"table", "reading"} => <<d, "tcp">> \in conns'
    BY <1>1, <1>7 DEF IInv, OpenInv
  <2>3. \A d \in Conns : rd'[d] \in {"convert", "transfer", "ending", "ended", "gone"} => <<d, "tcp">> \notin open'
    <3> SUFFICES ASSUME NEW d \in Conns, rd'[d] \in {"convert", "transfer", "ending", "ended", "gone"},
                        <<d, "tcp">> \in open'
                 PROVE  FALSE
      OBVIOUS
    <3>1. <<d, "tcp">> \in open /\ <<d, "tcp">> # t
      BY <1>1, <1>6
    <3>2. d # c
      BY <3>1 DEF t
    <3> QED BY <1>7, <3>1, <3>2 DEF IInv, OpenInv
  <2>4. ASSUME ~shutdown, NEW h \in open'
        PROVE  h \in conns' \/ (h[2] = "tcp" /\ Held(h[1])') \/ (h[2] = "nbc" /\ rd'[h[1]] = "convert")
    <3>1. CASE h = n
      BY <1>4, <1>7, <3>1
    <3>2. CASE h # n
      <4>1. h \in open /\ h \in Handles
        BY <1>1, <1>2, <2>4, <3>2
      <4>2. h \in conns \/ (h[2] = "tcp" /\ Held(h[1])) \/ (h[2] = "nbc" /\ rd[h[1]] = "convert")
        BY <2>4, <4>1 DEF IInv, OpenInv
      <4>3. rd[h[1]] = "convert" => rd'[h[1]] = "convert"
        BY <1>7, <4>1 DEF Handles
      <4> QED BY <1>1, <2>1, <4>2, <4>3
    <3> QED BY <3>1, <3>2
  <2> QED BY <1>1, <2>2, <2>3, <2>4 DEF OpenInv
<1>13. \A d \in Conns : rd'[d] = "gone" <=> rd[d] = "gone"
  BY <1>1, <1>7
<1>14. \A d \in Conns : via[d] = "no" /\ <<d, "tcp">> \in open => <<d, "tcp">> \in open'
  BY <1>1, <1>3, <1>6
<1> QED BY <1>1, <1>8, <1>9, <1>10, <1>11, <1>12, <1>13, <1>14, ServeKept

LEMMA AddTransferredConnKeeps ==
  ASSUME IInv, NEW c \in Conns, AddTransferredConn(c)
  PROVE  IInv'
<1> DEFINE n == <<c, "nbc">>
<1>1. /\ rd[c] = "convert"
      /\ backlog' = backlog /\ mux' = mux /\ chEvent' = chEvent /\ onlineA' = onlineA /\ listening' = listening
      /\ ioMod' = ioMod /\ shutdown' = shutdown /\ la' = la /\ via' = via /\ sd' = sd
  BY DEF AddTransferredConn, lmuxVars, fixed
<1>2. \/ /\ open' = open \ {n} /\ nb' = [nb EXCEPT ![c] = "gone"] /\ conns' = conns
         /\ rd' = [rd EXCEPT ![c] = "ending"]
      \/ /\ Cardinality(conns) < MaxLoad
         /\ open' = open /\ conns' = conns \cup {n}
         /\ nb' = [nb EXCEPT ![c] = "table"] /\ rd' = [rd EXCEPT ![c] = "transfer"]
  <2>1. Cardinality(conns) \in Nat
    BY FS_CardinalityType DEF IInv, LoadInv
  <2>2. ~(Cardinality(conns) >= MaxLoad) => Cardinality(conns) < MaxLoad
    BY <2>1, EngineAssumption
  <2> QED BY <2>2 DEF AddTransferredConn
<1>3. /\ nb \in [Conns -> {"no", "table", "polled", "gone"}]
      /\ rd \in [Conns -> {"no", "table", "reading", "convert", "transfer", "ending", "ended", "gone"}]
      /\ open \subseteq Handles /\ conns \subseteq Handles /\ n \in Handles
  BY DEF IInv, EngineTypeOK, Handles
<1>4. via[c] # "no"
  BY <1>1 DEF IInv, AddInv
<1>5. n[1] = c /\ n[2] = "nbc" /\ \A d \in Conns : <<d, "tcp">> # n
  OBVIOUS
<1>6. \A h \in Handles : h[1] \in Conns /\ (h[1] = c /\ h[2] = "nbc" => h = n)
  BY DEF Handles
<1> HIDE DEF n
<1>7. /\ rd' \in [Conns -> {"no", "table", "reading", "convert", "transfer", "ending", "ended", "gone"}]
      /\ nb' \in [Conns -> {"no", "table", "polled", "gone"}]
      /\ \A d \in Conns : d # c => rd'[d] = rd[d] /\ nb'[d] = nb[d]
      /\ rd'[c] \in {"ending", "transfer"} /\ open' \subseteq open /\ open \ {n} \subseteq open'
      /\ conns \subseteq conns' /\ conns' \subseteq conns \cup {n}
      /\ n \in open' => n \in conns' /\ rd'[c] = "transfer"
  BY <1>2, <1>3
<1>8. EngineTypeOK'
  BY <1>1, <1>3, <1>7 DEF IInv, EngineTypeOK
<1>9. AddInv'
  BY <1>1, <1>4, <1>7, SameListeners DEF IInv, AddInv
<1>10. LoadInv'
  BY <1>2, LoadKept, LoadGrows DEF IInv
<1>11. StopInv'
  <2>1. ASSUME sd = "done", NEW h \in open' \cap conns' PROVE h[2] = "nbc" /\ rd'[h[1]] = "transfer"
    <3>1. CASE h = n
      BY <1>5, <1>7, <2>1, <3>1
    <3>2. CASE h # n
      <4>1. h \in open \cap conns /\ h \in Handles
        BY <1>3, <1>7, <2>1, <3>2
      <4>2. h[2] = "nbc" /\ rd[h[1]] = "transfer"
        BY <2>1, <4>1 DEF IInv, StopInv
      <4>3. h[1] # c /\ h[1] \in Conns
        BY <1>6, <3>2, <4>1, <4>2
      <4> QED BY <1>7, <4>2, <4>3
    <3> QED BY <3>1, <3>2
  <2> QED BY <1>1, <2>1, SameListeners DEF IInv, StopInv
<1>12. OpenInv'
  <2>1. \A d : Held(d) => Held(d)'
    BY <1>1, HeldKept
  <2>2. \A d \in Conns : rd'[d] \in {"table", "reading"} => <<d, "tcp">> \in conns'
    BY <1>7 DEF IInv, OpenInv
  <2>3. \A d \in Conns : rd'[d] \in {"convert", "transfer", "ending", "ended", "gone"} => <<d, "tcp">> \notin open'
    BY <1>1, <1>7 DEF IInv, OpenInv
  <2>4. ASSUME ~shutdown, NEW h \in open'
        PROVE  h \in conns' \/ (h[2] = "tcp" /\ Held(h[1])') \/ (h[2] = "nbc" /\ rd'[h[1]] = "convert")
    <3>1. CASE h = n
      BY <1>7, <2>4, <3>1
    <3>2. CASE h # n
      <4>1. h \in open /\ h \in Handles
        BY <1>3, <1>7, <2>4
      <4>2. h \in conns \/ (h[2] = "tcp" /\ Held(h[1])) \/ (h[2] = "nbc" /\ rd[h[1]] = "convert")
        BY <2>4, <4>1 DEF IInv, OpenInv
      <4>3. h[2] = "nbc" /\ rd[h[1]] = "convert" => rd'[h[1]] = "convert"
        BY <1>6, <1>7, <3>2, <4>1
      <4> QED BY <1>7, <2>1, <4>2, <4>3
    <3> QED BY <3>1, <3>2
  <2> QED BY <1>1, <2>2, <2>3, <2>4 DEF OpenInv
<1>13. \A d \in Conns : rd'[d] = "gone" <=> rd[d] = "gone"
  BY <1>1, <1>7
<1>14. \A d \in Conns : via[d] = "no" /\ <<d, "tcp">> \in open => <<d, "tcp">> \in open'
  BY <1>5, <1>7
<1>15. \A h \in conns' : h \in conns \/ via[h[1]] # "no"
  BY <1>4, <1>5, <1>7
<1> QED BY <1>1, <1>8, <1>9, <1>10, <1>11, <1>12, <1>13, <1>14, <1>15, ServeKept

\* One connection less counts for A.
LEMMA OnlineShrinks ==
  ASSUME EngineTypeOK, OnlineInv, NEW c \in Conns, ToA(c), rd[c] # "gone", rd'[c] = "gone",
         \A d \in Conns : d # c => rd'[d] = rd[d],
         UNCHANGED <<mux, chEvent, via>>, onlineA' = onlineA - 1
  PROVE  OnlineInv'
<1>1. OnlineOfA' = OnlineOfA \ {c} /\ c \in OnlineOfA
  BY DEF OnlineOfA, ToA
<1>2. IsFiniteSet(OnlineOfA) /\ Cardinality(OnlineOfA) \in Nat
  BY FS_CardinalityType DEF OnlineInv
<1>3. IsFiniteSet(OnlineOfA') /\ Cardinality(OnlineOfA') = Cardinality(OnlineOfA) - 1
  BY <1>1, <1>2, FS_RemoveElement
<1>4. onlineA \in Int
  BY DEF EngineTypeOK
<1>5. Cardinality(OnlineOfA') <= MaxOnlineA
  BY <1>2, <1>3, LmuxAssumption DEF OnlineInv
<1>6. onlineA' = Cardinality(OnlineOfA') + (IF mux'.at = "over" THEN 1 ELSE 0)
  BY <1>2, <1>3, <1>4 DEF OnlineInv
<1> QED BY <1>3, <1>5, <1>6 DEF OnlineInv

\* A connection that does not count for A ends.
LEMMA OnlineOther ==
  ASSUME OnlineInv, NEW c \in Conns, ~ToA(c),
         \A d \in Conns : d # c => rd'[d] = rd[d],
         UNCHANGED <<mux, chEvent, via, onlineA>>
  PROVE  OnlineInv'
<1>1. OnlineOfA' = OnlineOfA
  BY DEF OnlineOfA, ToA
<1> QED BY <1>1 DEF OnlineInv

\* What counts for A before it is given out is in A's channel.
LEMMA ToAGivenOut ==
  ASSUME PlaceInv, NEW c \in Conns, via[c] # "no"
  PROVE  ToA(c) <=> via[c] = "A"
<1>1. ~InChannel(c)
  BY DEF PlaceInv
<1> QED BY <1>1 DEF InChannel, ToA

LEMMA ReadEndedKeeps ==
  ASSUME IInv, NEW c \in Conns, ReadEnded(c)
  PROVE  IInv'
<1>1. /\ rd[c] = "ended" /\ rd' = [rd EXCEPT ![c] = "gone"]
      /\ onlineA' = IF via[c] = "A" THEN onlineA - 1 ELSE onlineA
      /\ backlog' = backlog /\ mux' = mux /\ chEvent' = chEvent /\ listening' = listening
      /\ ioMod' = ioMod /\ shutdown' = shutdown /\ la' = la /\ via' = via /\ nb' = nb /\ sd' = sd /\ open' = open
      /\ conns' = conns
  BY DEF ReadEnded, Decrease, fixed
<1>2. rd \in [Conns -> {"no", "table", "reading", "convert", "transfer", "ending", "ended", "gone"}] /\ onlineA \in Int
  BY DEF IInv, EngineTypeOK
<1>3. EngineTypeOK'
  BY <1>1, <1>2 DEF IInv, EngineTypeOK
<1>4. AddInv' /\ LoadInv' /\ StopInv'
  BY <1>1, <1>2, LoadKept, SameListeners DEF IInv, AddInv, StopInv
<1>5. OpenInv'
  <2>1. \A d : Held(d) => Held(d)'
    BY <1>1, HeldKept
  <2> QED BY <1>1, <1>2, <2>1 DEF IInv, OpenInv
<1>6. ChannelsInv' /\ PlaceInv'
  BY <1>1, PlaceKept DEF IInv
<1>7. WaitInv'
  BY <1>1, WaitKept DEF IInv
<1>8. via[c] # "no"
  BY <1>1 DEF IInv, AddInv
<1>9. OnlineInv'
  <2>1. ToA(c) <=> via[c] = "A"
    BY <1>8, ToAGivenOut DEF IInv
  <2>2. rd'[c] = "gone" /\ \A d \in Conns : d # c => rd'[d] = rd[d]
    BY <1>1, <1>2
  <2>3. CASE via[c] = "A"
    BY <1>1, <2>1, <2>2, <2>3, OnlineShrinks DEF IInv
  <2>4. CASE via[c] # "A"
    BY <1>1, <2>1, <2>2, <2>4, OnlineOther DEF IInv
  <2> QED BY <2>3, <2>4
<1> QED BY <1>3, <1>4, <1>5, <1>6, <1>7, <1>9 DEF IInv

-----------------------------------------------------------------------------
(* Shutdown.                                                               *)

LEMMA ShutdownStartKeeps ==
  ASSUME IInv, ShutdownStart
  PROVE  IInv'
<1>1. /\ sd = "no" /\ shutdown' = TRUE /\ sd' = "listeners"
      /\ backlog' = backlog /\ mux' = mux /\ chEvent' = chEvent /\ onlineA' = onlineA /\ listening' = listening
      /\ ioMod' = ioMod /\ la' = la /\ conns' = conns /\ open' = open /\ via' = via /\ rd' = rd /\ nb' = nb
  BY DEF ShutdownStart, lmuxVars, fixed
<1>2. EngineTypeOK'
  BY <1>1 DEF IInv, EngineTypeOK
<1>3. AddInv' /\ LoadInv' /\ OpenInv'
  BY <1>1, LoadKept, SameListeners DEF IInv, AddInv, OpenInv
<1>4. StopInv'
  BY <1>1 DEF StopInv
<1> QED BY <1>1, <1>2, <1>3, <1>4, ServeKept

LEMMA stopListenersKeeps ==
  ASSUME IInv, stopListeners
  PROVE  IInv'
<1>1. /\ sd = "listeners" /\ sd' = "close" /\ listening' = FALSE /\ backlog' = {}
      /\ open' = open \ {<<c, "tcp">> : c \in backlog}
      /\ mux' = mux /\ chEvent' = chEvent /\ onlineA' = onlineA /\ shutdown' = shutdown
      /\ ioMod' = ioMod /\ la' = la /\ conns' = conns /\ via' = via /\ rd' = rd /\ nb' = nb
  BY DEF stopListeners, MuxStop, fixed
<1>2. shutdown
  BY <1>1 DEF IInv, StopInv
<1>3. \A c : InChannel(c)' <=> InChannel(c)
  BY <1>1 DEF InChannel
<1>4. EngineTypeOK'
  BY <1>1 DEF IInv, EngineTypeOK
<1>5. ChannelsInv' /\ PlaceInv'
  BY <1>1, <1>3 DEF IInv, ChannelsInv, PlaceInv
<1>6. AddInv' /\ LoadInv' /\ OpenInv'
  BY <1>1, <1>2, LoadKept, SameListeners DEF IInv, AddInv, OpenInv
<1>7. WaitInv'
  <2>1. ASSUME NEW c \in Conns, Waits(c)' PROVE <<c, "tcp">> \in open'
    <3>1. mux.conn = c \/ InChannel(c)
      BY <1>1, <1>3, <2>1 DEF Waits
    <3>2. c \notin backlog
      BY <3>1 DEF IInv, PlaceInv
    <3>3. <<c, "tcp">> \in open
      BY <3>1 DEF IInv, WaitInv, Waits
    <3> QED BY <1>1, <3>2, <3>3
  <2> QED BY <1>1, <2>1 DEF IInv, WaitInv
<1>8. OnlineInv'
  BY <1>1, OnlineKept DEF IInv
<1>9. StopInv'
  BY <1>1, <1>2 DEF StopInv
<1> QED BY <1>4, <1>5, <1>6, <1>7, <1>8, <1>9 DEF IInv

LEMMA CloseAllKeeps ==
  ASSUME IInv, closeAllConns,
         \/ sd = "close" /\ sd' = "tick"
         \/ sd = "deferred" /\ sd' = "done"
         \/ sd \in {"tick", "stop", "pollers"} /\ sd' = "timeout"
  PROVE  IInv'
<1>1. /\ open' = open \ conns
      /\ backlog' = backlog /\ mux' = mux /\ chEvent' = chEvent /\ onlineA' = onlineA /\ listening' = listening
      /\ ioMod' = ioMod /\ shutdown' = shutdown /\ la' = la /\ conns' = conns /\ via' = via /\ rd' = rd /\ nb' = nb
  BY DEF closeAllConns, lmuxVars, fixed
<1>2. EngineTypeOK'
  BY <1>1 DEF IInv, EngineTypeOK
<1>3. AddInv' /\ LoadInv'
  BY <1>1, LoadKept, SameListeners DEF IInv, AddInv
<1>4. OpenInv'
  <2>1. \A d : Held(d) => Held(d)'
    BY <1>1, HeldKept
  <2> QED BY <1>1, <2>1 DEF IInv, OpenInv
<1>5. StopInv'
  <2>1. open' \cap conns' = {}
    BY <1>1
  <2>2. shutdown' /\ ~listening'
    BY <1>1 DEF IInv, StopInv
  <2>3. sd' = "done" => \A x \in Listeners' : la'[x].at = "gone"
    BY <1>1, SameListeners DEF IInv, StopInv
  <2> QED BY <2>1, <2>2, <2>3 DEF StopInv
<1>6. \A c \in Conns : via[c] = "no" /\ <<c, "tcp">> \in open => <<c, "tcp">> \in open'
  <2>1. \A c \in Conns : <<c, "tcp">> \in conns => via[c] # "no"
    <3> TAKE c \in Conns
    <3>1. <<c, "tcp">>[1] = c
      OBVIOUS
    <3> QED BY <3>1 DEF IInv, WaitInv
  <2> QED BY <1>1, <2>1
<1> QED BY <1>1, <1>2, <1>3, <1>4, <1>5, <1>6, ServeKept

LEMMA StopClosesKeeps ==
  ASSUME IInv, StopCloses
  PROVE  IInv'
<1>1. /\ open' = {h \in open : h[2] = "nbc" => nb[h[1]] # "polled"}
      /\ backlog' = backlog /\ mux' = mux /\ chEvent' = chEvent /\ onlineA' = onlineA /\ listening' = listening
      /\ ioMod' = ioMod /\ shutdown' = shutdown /\ la' = la /\ conns' = conns /\ via' = via /\ rd' = rd
      /\ nb' = nb /\ sd' = sd
  BY DEF StopCloses, lmuxVars, fixed
<1>2. EngineTypeOK'
  BY <1>1 DEF IInv, EngineTypeOK
<1>3. AddInv' /\ LoadInv' /\ StopInv'
  BY <1>1, LoadKept, SameListeners DEF IInv, AddInv, StopInv
<1>4. OpenInv'
  <2>1. \A d : Held(d) => Held(d)'
    BY <1>1, HeldKept
  <2> QED BY <1>1, <2>1 DEF IInv, OpenInv
<1>5. \A c \in Conns : via[c] = "no" /\ <<c, "tcp">> \in open => <<c, "tcp">> \in open'
  BY <1>1
<1> QED BY <1>1, <1>2, <1>3, <1>4, <1>5, ServeKept

\* Steps that only move Shutdown on.
LEMMA ShutdownMoves ==
  ASSUME IInv, UNCHANGED <<lmuxVars, fixed, serverVars>>,
         \/ UNCHANGED sd
         \/ sd = "tick" /\ sd' \in {"stop", "close"}
         \/ sd = "stop" /\ sd' = "pollers"
         \/ sd = "pollers" /\ sd' = "deferred" /\ \A x \in Listeners : la[x].at = "gone"
  PROVE  IInv'
<1>1. /\ backlog' = backlog /\ mux' = mux /\ chEvent' = chEvent /\ onlineA' = onlineA /\ listening' = listening
      /\ ioMod' = ioMod /\ shutdown' = shutdown /\ la' = la /\ conns' = conns /\ via' = via /\ rd' = rd
      /\ nb' = nb /\ open' = open
  BY DEF lmuxVars, fixed, serverVars
<1>2. EngineTypeOK'
  BY <1>1 DEF IInv, EngineTypeOK
<1>3. AddInv' /\ LoadInv'
  BY <1>1, LoadKept, SameListeners DEF IInv, AddInv
<1>4. OpenInv'
  <2>1. \A d : Held(d) => Held(d)'
    BY <1>1, HeldKept
  <2> QED BY <1>1, <2>1 DEF IInv, OpenInv
<1>5. StopInv'
  BY <1>1, SameListeners DEF IInv, StopInv
<1> QED BY <1>1, <1>2, <1>3, <1>4, <1>5, ServeKept

-----------------------------------------------------------------------------
(* The listeners.                                                          *)

LEMMA ArriveKeeps ==
  ASSUME IInv, NEW c \in Conns, Arrive(c)
  PROVE  IInv'
<1>1. /\ listening /\ via[c] = "no" /\ c \notin backlog /\ <<c, "tcp">> \notin open
      /\ backlog' = backlog \cup {c} /\ open' = open \cup {<<c, "tcp">>}
      /\ mux' = mux /\ chEvent' = chEvent /\ onlineA' = onlineA /\ listening' = listening
      /\ ioMod' = ioMod /\ shutdown' = shutdown /\ la' = la /\ conns' = conns /\ via' = via /\ rd' = rd
      /\ nb' = nb /\ sd' = sd
  BY DEF Arrive, fixed
<1>2. ~Waits(c)
  BY <1>1 DEF IInv, WaitInv
<1>3. \A d : InChannel(d)' <=> InChannel(d)
  BY <1>1 DEF InChannel
<1>4. EngineTypeOK'
  BY <1>1 DEF IInv, EngineTypeOK, Handles
<1>5. ChannelsInv' /\ PlaceInv'
  BY <1>1, <1>2, <1>3 DEF IInv, ChannelsInv, PlaceInv, Waits
<1>6. AddInv' /\ LoadInv'
  BY <1>1, LoadKept, SameListeners DEF IInv, AddInv
<1>7. WaitInv'
  <2>1. ASSUME NEW d \in Conns, Waits(d)' PROVE <<d, "tcp">> \in open'
    <3>1. Waits(d) \/ d = c
      BY <1>1, <1>3, <2>1 DEF Waits
    <3> QED BY <1>1, <3>1 DEF IInv, WaitInv
  <2> QED BY <1>1, <2>1 DEF IInv, WaitInv
<1>8. OpenInv'
  <2>1. \A d : Held(d) => Held(d)'
    BY <1>1, <1>3, SameListeners DEF Held
  <2>2. Held(c)'
    BY <1>1 DEF Held
  <2>3. rd[c] = "no"
    BY <1>1 DEF IInv, AddInv
  <2>4. \A d \in Conns : rd'[d] \in {"convert", "transfer", "ending", "ended", "gone"} => <<d, "tcp">> \notin open'
    BY <1>1, <2>3 DEF IInv, OpenInv
  <2>5. ASSUME ~shutdown, NEW h \in open'
        PROVE  h \in conns' \/ (h[2] = "tcp" /\ Held(h[1])') \/ (h[2] = "nbc" /\ rd'[h[1]] = "convert")
    <3>1. CASE h = <<c, "tcp">>
      BY <2>2, <3>1
    <3>2. CASE h \in open
      BY <1>1, <2>1, <2>5, <3>2 DEF IInv, OpenInv
    <3> QED BY <1>1, <3>1, <3>2
  <2> QED BY <1>1, <2>4, <2>5 DEF IInv, OpenInv
<1>9. OnlineInv'
  BY <1>1, OnlineKept DEF IInv
<1>10. StopInv'
  <2>1. sd \in {"no", "listeners"}
    BY <1>1 DEF IInv, StopInv
  <2> QED BY <1>1, <2>1 DEF IInv, StopInv
<1> QED BY <1>4, <1>5, <1>6, <1>7, <1>8, <1>9, <1>10 DEF IInv

\* A step of the goroutine of lmux moves what waits.
LEMMA MuxKept ==
  ASSUME IInv, UNCHANGED <<fixed, serverVars, sd, listening>>,
         EngineTypeOK', ChannelsInv', PlaceInv', OnlineInv', \A c \in Conns : Waits(c)' <=> Waits(c)
  PROVE  IInv'
<1>1. /\ ioMod' = ioMod /\ shutdown' = shutdown /\ la' = la /\ conns' = conns /\ via' = via /\ rd' = rd
      /\ nb' = nb /\ sd' = sd /\ open' = open /\ listening' = listening
  BY DEF fixed, serverVars
<1>2. AddInv' /\ LoadInv' /\ StopInv'
  BY <1>1, LoadKept, SameListeners DEF IInv, AddInv, StopInv
<1>3. WaitInv'
  BY <1>1 DEF IInv, WaitInv
<1>4. OpenInv'
  <2>1. \A c \in Conns : Held(c) => Held(c)'
    BY <1>1, SameListeners DEF Held, Waits
  <2>2. \A h \in open : h[1] \in Conns
    BY DEF IInv, EngineTypeOK, Handles
  <2> QED BY <1>1, <2>1, <2>2 DEF IInv, OpenInv
<1> QED BY <1>2, <1>3, <1>4 DEF IInv

LEMMA MuxFailsKeeps ==
  ASSUME IInv, MuxFails, UNCHANGED <<fixed, serverVars, sd>>
  PROVE  IInv'
<1>1. /\ mux.at = "accept" /\ mux' = [mux EXCEPT !.at = "gone"]
      /\ backlog' = backlog /\ listening' = listening /\ onlineA' = onlineA
  BY DEF MuxFails
<1>2. /\ shutdown' = shutdown /\ la' = la /\ conns' = conns /\ via' = via /\ rd' = rd /\ nb' = nb /\ sd' = sd
      /\ open' = open
  BY DEF fixed, serverVars
<1>3. mux \in [at : {"accept", "over", "gone"}, conn : Entry]
  BY DEF IInv, EngineTypeOK
<1>4. mux'.at = "gone" /\ mux'.conn = mux.conn /\ mux' \in [at : {"accept", "over", "gone"}, conn : Entry]
  BY <1>1, <1>3
<1>5. /\ chEvent' \in [{"A", "B"} -> Seq(Entry)] /\ ChannelsInv'
      /\ \A y \in {"A", "B"}, c \in Conns : InChan(y, c)' <=> InChan(y, c)
  BY ChannelsFail DEF IInv
<1>6. \A c \in Conns : InChannel(c)' <=> InChannel(c)
  BY <1>5 DEF InChannel, InChan
<1>7. EngineTypeOK'
  BY <1>1, <1>2, <1>4, <1>5 DEF IInv, EngineTypeOK
<1>8. PlaceInv'
  <2>1. backlog \subseteq Conns
    BY DEF IInv, EngineTypeOK
  <2> QED BY <1>1, <1>2, <1>4, <1>6, <2>1 DEF IInv, PlaceInv
<1>9. OnlineInv'
  <2>1. \A c \in Conns : ToA(c)' <=> ToA(c)
    BY <1>2, <1>5 DEF ToA, InChan
  <2>2. OnlineOfA' = OnlineOfA
    BY <1>2, <2>1 DEF OnlineOfA
  <2> QED BY <1>1, <1>4, <2>2 DEF IInv, OnlineInv
<1>10. \A c \in Conns : Waits(c)' <=> Waits(c)
  BY <1>1, <1>4, <1>6 DEF Waits
<1> QED BY <1>1, <1>5, <1>7, <1>8, <1>9, <1>10, MuxKept

LEMMA MuxTakeBackKeeps ==
  ASSUME IInv, MuxTakeBack, UNCHANGED <<fixed, serverVars, sd>>
  PROVE  IInv'
<1> DEFINE m == mux.conn
<1>1. /\ mux.at = "over" /\ mux' = [at |-> "accept", conn |-> Error] /\ Send("B", m)
      /\ backlog' = backlog /\ listening' = listening /\ onlineA' = onlineA - 1
  BY DEF MuxTakeBack
<1>2. /\ shutdown' = shutdown /\ la' = la /\ conns' = conns /\ via' = via /\ rd' = rd /\ nb' = nb /\ sd' = sd
      /\ open' = open
  BY DEF fixed, serverVars
<1>3. m \in Conns /\ via[m] = "no" /\ ~InChannel(m) /\ m \notin backlog /\ m \in Entry
  BY <1>1, ConnFacts DEF IInv, PlaceInv
<1>4. mux'.at = "accept" /\ mux'.conn = Error /\ mux' \in [at : {"accept", "over", "gone"}, conn : Entry]
  BY <1>1 DEF Entry
<1> HIDE DEF m
<1>5. /\ chEvent' \in [{"A", "B"} -> Seq(Entry)] /\ ChannelsInv'
      /\ \A y \in {"A", "B"}, c \in Entry : InChan(y, c)' <=> InChan(y, c) \/ (y = "B" /\ c = m)
  BY <1>1, <1>3, ChannelGrows DEF IInv
<1>6. \A c \in Conns : InChannel(c)' <=> InChannel(c) \/ c = m
  BY <1>5, ConnFacts DEF InChannel, InChan
<1>7. EngineTypeOK'
  BY <1>1, <1>2, <1>4, <1>5 DEF IInv, EngineTypeOK
<1>8. PlaceInv'
  <2>1. backlog \subseteq Conns /\ Error \notin Conns
    BY ConnFacts DEF IInv, EngineTypeOK
  <2> QED BY <1>1, <1>2, <1>3, <1>4, <1>6, <2>1 DEF IInv, PlaceInv
<1>9. OnlineInv'
  <2>1. \A c \in Conns : ToA(c)' <=> ToA(c)
    BY <1>2, <1>5, ConnFacts DEF ToA, InChan
  <2>2. OnlineOfA' = OnlineOfA
    BY <1>2, <2>1 DEF OnlineOfA
  <2>3. IsFiniteSet(OnlineOfA) /\ Cardinality(OnlineOfA) \in Nat
    BY FS_CardinalityType DEF IInv, OnlineInv
  <2> QED BY <1>1, <1>4, <2>2, <2>3 DEF IInv, OnlineInv
<1>10. \A c \in Conns : Waits(c)' <=> Waits(c)
  BY <1>1, <1>4, <1>6, ConnFacts DEF Waits, m
<1> QED BY <1>1, <1>5, <1>7, <1>8, <1>9, <1>10, MuxKept

LEMMA MuxAcceptKeeps ==
  ASSUME IInv, NEW c \in Conns, MuxAccept(c), UNCHANGED <<fixed, serverVars, sd>>
  PROVE  IInv'
<1>1. /\ mux.at = "accept" /\ c \in backlog /\ backlog' = backlog \ {c} /\ onlineA' = onlineA + 1
      /\ listening' = listening
  BY DEF MuxAccept
<1>2. /\ shutdown' = shutdown /\ la' = la /\ conns' = conns /\ via' = via /\ rd' = rd /\ nb' = nb /\ sd' = sd
      /\ open' = open
  BY DEF fixed, serverVars
<1>3. via[c] = "no" /\ ~InChannel(c) /\ mux.conn = Error /\ c # Error /\ c \in Entry /\ rd[c] = "no"
  BY <1>1, ConnFacts DEF IInv, PlaceInv, AddInv
<1>4. /\ backlog \subseteq Conns /\ onlineA \in Int /\ mux \in [at : {"accept", "over", "gone"}, conn : Entry]
      /\ chEvent \in [{"A", "B"} -> Seq(Entry)]
  BY DEF IInv, EngineTypeOK
<1>5. IsFiniteSet(OnlineOfA) /\ Cardinality(OnlineOfA) \in Nat /\ onlineA = Cardinality(OnlineOfA)
  BY <1>1, FS_CardinalityType DEF IInv, OnlineInv
<1>6. CASE onlineA + 1 <= MaxOnlineA
  <2>1. Send("A", c) /\ mux' = mux
    BY <1>6 DEF MuxAccept
  <2>2. /\ chEvent' \in [{"A", "B"} -> Seq(Entry)] /\ ChannelsInv'
        /\ \A y \in {"A", "B"}, d \in Entry : InChan(y, d)' <=> InChan(y, d) \/ (y = "A" /\ d = c)
    BY <1>3, <2>1, ChannelGrows DEF IInv
  <2>3. \A d \in Conns : InChannel(d)' <=> InChannel(d) \/ d = c
    BY <2>2, ConnFacts DEF InChannel, InChan
  <2>4. EngineTypeOK'
    BY <1>1, <1>2, <2>1, <2>2 DEF IInv, EngineTypeOK
  <2>5. PlaceInv'
    BY <1>1, <1>2, <1>3, <1>4, <2>1, <2>3 DEF IInv, PlaceInv
  <2>6. OnlineInv'
    <3>1. \A d \in Conns : ToA(d)' <=> ToA(d) \/ d = c
      BY <1>2, <2>2, ConnFacts DEF ToA, InChan
    <3>2. ~ToA(c)
      BY <1>3 DEF ToA, InChannel
    <3>3. OnlineOfA' = OnlineOfA \cup {c} /\ c \notin OnlineOfA
      BY <1>2, <1>3, <3>1, <3>2 DEF OnlineOfA
    <3>4. IsFiniteSet(OnlineOfA') /\ Cardinality(OnlineOfA') = Cardinality(OnlineOfA) + 1
      BY <1>5, <3>3, FS_AddElement
    <3>5. onlineA' = Cardinality(OnlineOfA') + (IF mux'.at = "over" THEN 1 ELSE 0)
      BY <1>1, <1>5, <2>1, <3>4
    <3> QED BY <1>5, <1>6, <3>4, <3>5 DEF OnlineInv
  <2>7. \A d \in Conns : Waits(d)' <=> Waits(d)
    BY <1>1, <2>1, <2>3 DEF Waits
  <2> QED BY <1>1, <2>2, <2>4, <2>5, <2>6, <2>7, MuxKept
<1>7. CASE ~(onlineA + 1 <= MaxOnlineA)
  <2>1. mux' = [at |-> "over", conn |-> c] /\ chEvent' = chEvent
    BY <1>7 DEF MuxAccept
  <2>2. mux'.at = "over" /\ mux'.conn = c /\ mux' \in [at : {"accept", "over", "gone"}, conn : Entry]
    BY <1>3, <2>1
  <2>3. \A d : InChannel(d)' <=> InChannel(d)
    BY <2>1 DEF InChannel
  <2>4. EngineTypeOK'
    BY <1>1, <1>2, <2>1, <2>2 DEF IInv, EngineTypeOK
  <2>5. ChannelsInv' /\ PlaceInv'
    BY <1>1, <1>2, <1>3, <1>4, <2>1, <2>2, <2>3 DEF IInv, ChannelsInv, PlaceInv
  <2>6. OnlineInv'
    <3>1. OnlineOfA' = OnlineOfA
      BY <1>2, <2>1 DEF OnlineOfA, ToA
    <3> QED BY <1>1, <1>5, <2>2, <3>1 DEF IInv, OnlineInv
  <2>7. \A d \in Conns : Waits(d)' <=> Waits(d)
    BY <1>1, <1>3, ConnFacts, <2>2, <2>3 DEF Waits
  <2> QED BY <1>1, <2>4, <2>5, <2>6, <2>7, MuxKept
<1> QED BY <1>6, <1>7

LEMMA ListenCheckKeeps ==
  ASSUME IInv, NEW x \in Listeners, ListenCheck(x)
  PROVE  IInv'
<1>1. /\ la[x].at = "check" /\ la' = [la EXCEPT ![x].at = IF shutdown THEN "gone" ELSE "accept"]
      /\ backlog' = backlog /\ mux' = mux /\ chEvent' = chEvent /\ onlineA' = onlineA /\ listening' = listening
      /\ ioMod' = ioMod /\ shutdown' = shutdown /\ conns' = conns /\ via' = via /\ rd' = rd
      /\ nb' = nb /\ sd' = sd /\ open' = open
  BY DEF ListenCheck, lmuxVars, fixed
<1>2. la \in [AllListeners -> [at : {"check", "accept", "add", "start", "gone"}, conn : Entry]] /\ x \in AllListeners
  BY DEF IInv, EngineTypeOK, Listeners, AllListeners
<1>3. /\ la' \in [AllListeners -> [at : {"check", "accept", "add", "start", "gone"}, conn : Entry]]
      /\ \A y \in AllListeners : y # x => la'[y] = la[y]
      /\ la'[x].at \in {"gone", "accept"}
  BY <1>1, <1>2
<1>4. EngineTypeOK'
  BY <1>1, <1>3 DEF IInv, EngineTypeOK
<1>5. AddInv' /\ LoadInv'
  BY <1>1, <1>3, LoadKept, SameListeners DEF IInv, AddInv
<1>6. StopInv'
  BY <1>1, SameListeners DEF IInv, StopInv
<1>7. OpenInv'
  <2>1. \A y \in Listeners : la[y].at = "add" => la'[y] = la[y]
    BY <1>1, <1>3, SameListeners
  <2>2. \A d : Held(d) => Held(d)'
    BY <1>1, <2>1, HeldKept
  <2> QED BY <1>1, <2>2 DEF IInv, OpenInv
<1> QED BY <1>1, <1>4, <1>5, <1>6, <1>7, ServeKept

\* What Accept gave out waited for it, and is with the listener afterwards.
LEMMA GotKeeps ==
  ASSUME IInv, NEW x \in Listeners, la[x].at = "accept", NEW e \in Entry \cup {ErrClosed}, Got(x, e),
         UNCHANGED <<listening, onlineA, mux>>, backlog' \subseteq backlog,
         chEvent' \in [{"A", "B"} -> Seq(Entry)], ChannelsInv',
         \A c \in Conns : c \in backlog' <=> c \in backlog /\ ~(x = "L" /\ c = e),
         \A y \in {"A", "B"}, c \in Conns : InChan(y, c)' <=> InChan(y, c) /\ ~(y = x /\ c = e),
         e \in Conns => (x = "L" /\ e \in backlog) \/ (x \in {"A", "B"} /\ InChan(x, e))
  PROVE  IInv'
<1>1. /\ la' = [la EXCEPT ![x] = IF e \in Conns /\ ~shutdown THEN [at |-> "add", conn |-> e] ELSE Idle]
      /\ via' = IF e \in Conns THEN [via EXCEPT ![e] = x] ELSE via
      /\ ioMod' = ioMod /\ shutdown' = shutdown /\ conns' = conns /\ rd' = rd /\ nb' = nb /\ sd' = sd
      /\ open' = open
  BY DEF Got, fixed
<1>2. /\ la \in [AllListeners -> [at : {"check", "accept", "add", "start", "gone"}, conn : Entry]]
      /\ via \in [Conns -> {"no"} \cup AllListeners] /\ x \in AllListeners /\ x # "no"
      /\ backlog \subseteq Conns
  BY DEF IInv, EngineTypeOK, Listeners, AllListeners
<1>3. /\ la' \in [AllListeners -> [at : {"check", "accept", "add", "start", "gone"}, conn : Entry]]
      /\ \A y \in AllListeners : y # x => la'[y] = la[y]
      /\ e \in Conns /\ ~shutdown => la'[x].at = "add" /\ la'[x].conn = e
      /\ ~(e \in Conns /\ ~shutdown) => la'[x].at = "check"
  <2>1. Idle \in [at : {"check", "accept", "add", "start", "gone"}, conn : Entry] /\ Idle.at = "check"
    BY DEF Idle, Entry
  <2>2. CASE e \in Conns /\ ~shutdown
    <3>1. la' = [la EXCEPT ![x] = [at |-> "add", conn |-> e]]
      BY <1>1, <2>2
    <3> QED BY <1>2, <2>2, <3>1, ConnFacts
  <2>3. CASE ~(e \in Conns /\ ~shutdown)
    <3>1. la' = [la EXCEPT ![x] = Idle]
      BY <1>1, <2>3
    <3> QED BY <1>2, <2>1, <2>3, <3>1
  <2> QED BY <2>2, <2>3
<1>4. /\ via' \in [Conns -> {"no"} \cup AllListeners]
      /\ \A c \in Conns : c # e => via'[c] = via[c]
      /\ e \in Conns => via'[e] = x
  BY <1>1, <1>2
<1> DEFINE inA(c) == InChan("A", c)  inB(c) == InChan("B", c)
<1>5. \A c : (InChannel(c) <=> inA(c) \/ inB(c)) /\ (InChannel(c)' <=> inA(c)' \/ inB(c)')
  BY DEF InChannel, InChan
<1>6. \A c \in Conns : ~(inA(c) /\ inB(c))
  BY ConnFacts DEF IInv, ChannelsInv, InChan
<1>7. e \in Conns => Waits(e)
  BY <1>5 DEF Waits
<1>8. e \in Conns => via[e] = "no" /\ rd[e] = "no" /\ nb[e] = "no"
  BY <1>7, WaitsNo DEF IInv, AddInv
<1>9. /\ \A c \in Conns : inA(c)' <=> inA(c) /\ ~(x = "A" /\ c = e)
      /\ \A c \in Conns : inB(c)' <=> inB(c) /\ ~(x = "B" /\ c = e)
  OBVIOUS
<1>10. e \in Conns => \/ x = "L" /\ e \in backlog /\ ~inA(e) /\ ~inB(e) /\ mux.conn # e
                      \/ x = "A" /\ inA(e) /\ ~inB(e) /\ e \notin backlog /\ mux.conn # e
                      \/ x = "B" /\ inB(e) /\ ~inA(e) /\ e \notin backlog /\ mux.conn # e
  <2> SUFFICES ASSUME e \in Conns
               PROVE  \/ x = "L" /\ e \in backlog /\ ~inA(e) /\ ~inB(e) /\ mux.conn # e
                      \/ x = "A" /\ inA(e) /\ ~inB(e) /\ e \notin backlog /\ mux.conn # e
                      \/ x = "B" /\ inB(e) /\ ~inA(e) /\ e \notin backlog /\ mux.conn # e
    OBVIOUS
  <2>1. InChannel(e) => mux.conn # e
    BY ConnFacts DEF IInv, PlaceInv
  <2>2. e \in backlog => ~InChannel(e) /\ mux.conn # e
    BY DEF IInv, PlaceInv
  <2> HIDE DEF inA, inB
  <2>3. (x = "L" /\ e \in backlog) \/ (x = "A" /\ inA(e)) \/ (x = "B" /\ inB(e))
    BY DEF inA, inB
  <2> QED BY <1>5, <1>6, <2>1, <2>2, <2>3
<1> HIDE DEF inA, inB
<1>11. \A c \in Conns : Waits(c)' <=> Waits(c) /\ c # e
  BY <1>5, <1>9, <1>10 DEF Waits
<1>12. \A c \in Conns : InChannel(c)' => InChannel(c)
  BY <1>5, <1>9
<1>13. EngineTypeOK'
  <2>1. backlog' \subseteq Conns
    BY <1>2
  <2> QED BY <1>1, <1>3, <1>4, <2>1 DEF IInv, EngineTypeOK
<1>14. PlaceInv'
  <2>1. \A c \in backlog' : via'[c] = "no" /\ ~InChannel(c)' /\ mux'.conn # c
    <3> TAKE c \in backlog'
    <3>1. c \in backlog /\ c \in Conns
      BY <1>2
    <3>2. Waits(c)'
      BY DEF Waits
    <3>3. c # e
      BY <1>11, <3>1, <3>2
    <3> QED BY <1>4, <1>12, <3>1, <3>3 DEF IInv, PlaceInv
  <2>2. (mux.at = "over" => mux.conn \in Conns /\ via[mux.conn] = "no" /\ ~InChannel(mux.conn))'
    <3>1. mux.at = "over" => mux.conn \in Conns /\ via[mux.conn] = "no" /\ ~InChannel(mux.conn) /\ mux.conn # e
      BY <1>10 DEF IInv, PlaceInv
    <3>2. mux.at = "over" => via'[mux.conn] = "no" /\ ~InChannel(mux.conn)'
      BY <1>4, <1>12, <3>1
    <3> QED BY <3>1, <3>2
  <2>3. \A c \in Conns : InChannel(c)' => via'[c] = "no"
    <3> TAKE c \in Conns
    <3>1. InChannel(c)' => Waits(c)'
      BY DEF Waits
    <3>2. InChannel(c)' => InChannel(c) /\ c # e
      BY <1>11, <1>12, <3>1
    <3> QED BY <1>4, <3>2 DEF IInv, PlaceInv
  <2>4. mux'.at # "over" => mux'.conn = Error
    BY DEF IInv, PlaceInv
  <2> QED BY <2>1, <2>2, <2>3, <2>4 DEF PlaceInv
<1>15. AddInv'
  <2>1. \A c \in Conns : via'[c] = "no" => rd'[c] = "no" /\ nb'[c] = "no"
    BY <1>1, <1>4, <1>8 DEF IInv, AddInv
  <2>2. \A y \in AllListeners : y # x /\ la[y].at \in {"add", "start"} => la[y].conn \in Conns /\ la[y].conn # e
    BY <1>8, <1>2 DEF IInv, AddInv, AllListeners
  <2>3. \A y \in AllListeners : la'[y].at \in {"add", "start"} => la'[y].conn \in Conns /\ via'[la'[y].conn] = y
    BY <1>3, <1>4, <2>2 DEF IInv, AddInv
  <2>4. \A y \in AllListeners : la'[y].at = "add" => rd'[la'[y].conn] = "no" /\ nb'[la'[y].conn] = "no"
    BY <1>1, <1>3, <1>8 DEF IInv, AddInv
  <2>5. \A y \in AllListeners : la'[y].at = "start" => rd'[la'[y].conn] = IF Blocking(y)' THEN "table" ELSE "no"
    BY <1>1, <1>3, SameListeners DEF IInv, AddInv
  <2> QED BY <2>1, <2>3, <2>4, <2>5 DEF AddInv
<1>16. WaitInv'
  <2>1. \A h \in conns : h[1] \in Conns
    BY DEF IInv, EngineTypeOK, Handles
  <2> QED BY <1>1, <1>2, <1>4, <1>11, <2>1 DEF IInv, WaitInv
<1>17. OpenInv'
  <2>1. ASSUME ~shutdown, NEW c \in Conns, Held(c) PROVE Held(c)'
    <3>1. CASE c = e
      BY <1>1, <1>3, <2>1, <3>1, SameListeners DEF Held
    <3>2. CASE c # e /\ Waits(c)
      BY <1>11, <3>2 DEF Held, Waits
    <3>3. CASE \E y \in Listeners : la[y].at = "add" /\ la[y].conn = c
      BY <1>1, <1>3, <3>3, SameListeners DEF Held
    <3> QED BY <2>1, <3>1, <3>2, <3>3 DEF Held, Waits
  <2>2. \A h \in open : h[1] \in Conns
    BY DEF IInv, EngineTypeOK, Handles
  <2> QED BY <1>1, <2>1, <2>2 DEF IInv, OpenInv
<1>18. LoadInv'
  BY <1>1, LoadKept DEF IInv
<1>19. OnlineInv'
  <2>1. \A c : (ToA(c) <=> via[c] = "A" \/ inA(c)) /\ (ToA(c)' <=> via'[c] = "A" \/ inA(c)')
    BY DEF ToA, InChan, inA
  <2>2. \A c \in Conns : ToA(c)' <=> ToA(c)
    BY <1>4, <1>8, <1>9, <1>10, <2>1
  <2>3. OnlineOfA' = OnlineOfA
    BY <1>1, <2>2 DEF OnlineOfA
  <2> QED BY <2>3 DEF IInv, OnlineInv
<1>20. StopInv'
  BY <1>1, SameListeners DEF IInv, StopInv
<1> QED BY <1>13, <1>14, <1>15, <1>16, <1>17, <1>18, <1>19, <1>20 DEF IInv

LEMMA ListenMuxKeeps ==
  ASSUME IInv, NEW x \in Listeners, ListenMux(x)
  PROVE  IInv'
<1>1. /\ x # "L" /\ la[x].at = "accept" /\ backlog' = backlog /\ listening' = listening
      /\ onlineA' = onlineA /\ mux' = mux
  BY DEF ListenMux
<1>2. PICK e \in AcceptOutcomes(x) : Accepted(x, e) /\ Got(x, e)
  BY DEF ListenMux
<1>3. x \in {"A", "B"}
  BY <1>1 DEF Listeners
<1>4. CASE e = ErrClosed
  <2>1. chEvent' = chEvent /\ e \notin Conns
    BY <1>2, <1>4, ConnFacts DEF Accepted
  <2>2. chEvent' \in [{"A", "B"} -> Seq(Entry)] /\ ChannelsInv'
    BY <2>1 DEF IInv, EngineTypeOK, ChannelsInv
  <2>3. \A y \in {"A", "B"}, c \in Conns : InChan(y, c)' <=> InChan(y, c) /\ ~(y = x /\ c = e)
    BY <2>1 DEF InChan
  <2> QED BY <1>1, <1>2, <1>4, <2>1, <2>2, <2>3, GotKeeps
<1>5. CASE e # ErrClosed
  <2>1. e = Head(chEvent[x]) /\ chEvent[x] # <<>>
    BY <1>5 DEF AcceptOutcomes
  <2>2. chEvent' = [chEvent EXCEPT ![x] = Tail(@)]
    BY <1>2, <1>5 DEF Accepted
  <2>3. /\ chEvent' \in [{"A", "B"} -> Seq(Entry)] /\ ChannelsInv'
        /\ e \in Entry /\ InChan(x, e)
        /\ \A y \in {"A", "B"}, c \in Conns : InChan(y, c)' <=> InChan(y, c) /\ ~(y = x /\ c = e)
    BY <1>3, <2>1, <2>2, ChannelShrinks DEF IInv
  <2> QED BY <1>1, <1>2, <1>3, <2>3, GotKeeps
<1> QED BY <1>4, <1>5

LEMMA ListenDirectKeeps ==
  ASSUME IInv, ListenDirect, "L" \in Listeners
  PROVE  IInv'
<1>1. /\ la["L"].at = "accept" /\ listening' = listening /\ onlineA' = onlineA /\ mux' = mux /\ chEvent' = chEvent
      /\ \/ \E c \in backlog : backlog' = backlog \ {c} /\ Got("L", c)
         \/ backlog' = backlog /\ Got("L", Error)
  BY DEF ListenDirect
<1>2. chEvent' \in [{"A", "B"} -> Seq(Entry)] /\ ChannelsInv' /\ backlog \subseteq Conns
  BY <1>1 DEF IInv, EngineTypeOK, ChannelsInv
<1>3. \A y \in {"A", "B"}, c, e \in Conns : InChan(y, c)' <=> InChan(y, c) /\ ~(y = "L" /\ c = e)
  BY <1>1 DEF InChan
<1>4. ASSUME NEW c \in backlog, backlog' = backlog \ {c}, Got("L", c) PROVE IInv'
  <2>1. c \in Conns /\ c \in Entry \cup {ErrClosed}
    BY <1>2, ConnFacts
  <2>2. \A d \in Conns : d \in backlog' <=> d \in backlog /\ ~("L" = "L" /\ d = c)
    BY <1>4
  <2> QED BY <1>1, <1>2, <1>3, <1>4, <2>1, <2>2, GotKeeps
<1>5. ASSUME backlog' = backlog, Got("L", Error) PROVE IInv'
  <2>1. Error \notin Conns /\ Error \in Entry \cup {ErrClosed}
    BY ConnFacts DEF Entry
  <2>2. \A d \in Conns : d \in backlog' <=> d \in backlog /\ ~("L" = "L" /\ d = Error)
    BY <1>5, <2>1
  <2>3. \A y \in {"A", "B"}, c \in Conns : InChan(y, c)' <=> InChan(y, c) /\ ~(y = "L" /\ c = Error)
    BY <1>1, <2>1 DEF InChan
  <2> QED BY <1>1, <1>2, <1>5, <2>1, <2>2, <2>3, GotKeeps
<1> QED BY <1>1, <1>4, <1>5

-----------------------------------------------------------------------------
(* Adding a connection.                                                    *)

\* What a listener is adding, no other listener is adding.
LEMMA Adding ==
  ASSUME IInv, NEW x \in Listeners, la[x].at \in {"add", "start"}
  PROVE  /\ x \in AllListeners /\ la[x].conn \in Conns /\ via[la[x].conn] = x /\ via[la[x].conn] # "no"
         /\ \A y \in AllListeners : y # x /\ la[y].at \in {"add", "start"} => la[y].conn # la[x].conn
         /\ sd \notin {"deferred", "done"}
<1>1. x \in AllListeners /\ x # "no"
  BY DEF Listeners, AllListeners
<1>2. la[x].conn \in Conns /\ via[la[x].conn] = x
  BY <1>1 DEF IInv, AddInv
<1>3. \A y \in AllListeners : la[y].at \in {"add", "start"} => via[la[y].conn] = y
  BY DEF IInv, AddInv
<1>4. sd \notin {"deferred", "done"}
  BY DEF IInv, StopInv
<1> QED BY <1>1, <1>2, <1>3, <1>4

LEMMA AddRefuseKeeps ==
  ASSUME IInv, NEW x \in Listeners, AddRefuse(x)
  PROVE  IInv'
<1> DEFINE c == la[x].conn  t == <<c, "tcp">>
<1>1. /\ la[x].at = "add" /\ open' = open \ {t} /\ la' = [la EXCEPT ![x] = Idle]
      /\ onlineA' = IF x = "A" THEN onlineA - 1 ELSE onlineA
      /\ backlog' = backlog /\ mux' = mux /\ chEvent' = chEvent /\ listening' = listening
      /\ ioMod' = ioMod /\ shutdown' = shutdown /\ conns' = conns /\ via' = via /\ sd' = sd
  BY DEF AddRefuse, Decrease, fixed
<1>2. \/ Blocking(x) /\ rd' = [rd EXCEPT ![c] = "gone"] /\ nb' = nb
      \/ ~Blocking(x) /\ nb' = [nb EXCEPT ![c] = "gone"] /\ rd' = rd
  BY DEF AddRefuse
<1>3. /\ x \in AllListeners /\ c \in Conns /\ via[c] = x /\ via[c] # "no" /\ sd \notin {"deferred", "done"}
      /\ \A y \in AllListeners : y # x /\ la[y].at \in {"add", "start"} => la[y].conn # c
  BY <1>1, Adding
<1>4. /\ la \in [AllListeners -> [at : {"check", "accept", "add", "start", "gone"}, conn : Entry]]
      /\ rd \in [Conns -> {"no", "table", "reading", "convert", "transfer", "ending", "ended", "gone"}]
      /\ nb \in [Conns -> {"no", "table", "polled", "gone"}] /\ onlineA \in Int
  BY DEF IInv, EngineTypeOK
<1>5. rd[c] = "no" /\ nb[c] = "no"
  BY <1>1, <1>3 DEF IInv, AddInv
<1>6. /\ la' \in [AllListeners -> [at : {"check", "accept", "add", "start", "gone"}, conn : Entry]]
      /\ \A y \in AllListeners : y # x => la'[y] = la[y]
      /\ la'[x].at = "check"
  <2>1. Idle \in [at : {"check", "accept", "add", "start", "gone"}, conn : Entry] /\ Idle.at = "check"
    BY DEF Idle, Entry
  <2> QED BY <1>1, <1>3, <1>4, <2>1
<1>7. \A d : <<d, "tcp">> = t => d = c
  OBVIOUS
<1> HIDE DEF c, t
<1>8. /\ rd' \in [Conns -> {"no", "table", "reading", "convert", "transfer", "ending", "ended", "gone"}]
      /\ nb' \in [Conns -> {"no", "table", "polled", "gone"}]
      /\ \A d \in Conns : d # c => rd'[d] = rd[d] /\ nb'[d] = nb[d]
      /\ rd'[c] = IF Blocking(x) THEN "gone" ELSE "no"
  BY <1>2, <1>3, <1>4, <1>5
<1>9. EngineTypeOK'
  BY <1>1, <1>4, <1>6, <1>8 DEF IInv, EngineTypeOK
<1>10. ChannelsInv' /\ PlaceInv'
  BY <1>1, PlaceKept DEF IInv
<1>11. AddInv'
  <2>1. \A d \in Conns : via'[d] = "no" => rd'[d] = "no" /\ nb'[d] = "no"
    BY <1>1, <1>3, <1>8 DEF IInv, AddInv
  <2>2. \A y \in AllListeners : la'[y].at \in {"add", "start"} => la'[y] = la[y] /\ la[y].conn # c
    BY <1>3, <1>6
  <2> QED BY <1>1, <1>8, <2>1, <2>2, SameListeners DEF IInv, AddInv
<1>12. WaitInv'
  BY <1>1, <1>3, <1>7, WaitKept DEF IInv
<1>13. OpenInv'
  <2>1. \A d : d # c /\ Held(d) => Held(d)'
    <3>1. \A d : InChannel(d)' <=> InChannel(d)
      BY <1>1 DEF InChannel
    <3>2. \A y \in Listeners : y # x => la'[y] = la[y]
      BY <1>1, <1>6, SameListeners
    <3> QED BY <1>1, <3>1, <3>2, SameListeners DEF Held, c
  <2>2. t \notin open'
    BY <1>1
  <2>3. \A d \in Conns : rd'[d] \in {"table", "reading"} => <<d, "tcp">> \in conns'
    BY <1>1, <1>8 DEF IInv, OpenInv
  <2>4. \A d \in Conns : rd'[d] \in {"convert", "transfer", "ending", "ended", "gone"} => <<d, "tcp">> \notin open'
    BY <1>1, <1>8, <2>2 DEF IInv, OpenInv, t
  <2>5. ASSUME ~shutdown, NEW h \in open'
        PROVE  h \in conns' \/ (h[2] = "tcp" /\ Held(h[1])') \/ (h[2] = "nbc" /\ rd'[h[1]] = "convert")
    <3>1. h \in open /\ h # t /\ h \in Handles
      BY <1>1 DEF IInv, EngineTypeOK
    <3>2. h[2] = "tcp" => h[1] # c
      BY <3>1 DEF t, Handles
    <3>3. h \in conns \/ (h[2] = "tcp" /\ Held(h[1])) \/ (h[2] = "nbc" /\ rd[h[1]] = "convert")
      BY <2>5, <3>1 DEF IInv, OpenInv
    <3>4. rd[h[1]] = "convert" => rd'[h[1]] = "convert"
      BY <1>5, <1>8, <3>1 DEF Handles
    <3> QED BY <1>1, <2>1, <3>2, <3>3, <3>4
  <2> QED BY <1>1, <2>3, <2>4, <2>5 DEF OpenInv
<1>14. LoadInv'
  BY <1>1, LoadKept DEF IInv
<1>15. OnlineInv'
  <2>1. ToA(c) <=> x = "A"
    BY <1>3, ToAGivenOut DEF IInv
  <2>2. CASE x = "A"
    <3>1. Blocking(x)
      BY <2>2 DEF Blocking
    <3> QED BY <1>1, <1>3, <1>5, <1>8, <2>1, <2>2, <3>1, OnlineShrinks DEF IInv
  <2>3. CASE x # "A"
    BY <1>1, <1>3, <1>8, <2>1, <2>3, OnlineOther DEF IInv
  <2> QED BY <2>2, <2>3
<1>16. StopInv'
  BY <1>1, <1>3, SameListeners DEF IInv, StopInv
<1> QED BY <1>9, <1>10, <1>11, <1>12, <1>13, <1>14, <1>15, <1>16 DEF IInv

LEMMA AddTableKeeps ==
  ASSUME IInv, NEW x \in Listeners, AddTable(x)
  PROVE  IInv'
<1> DEFINE c == la[x].conn  t == <<c, "tcp">>  h0 == Handle(x)
<1>1. /\ la[x].at = "add" /\ Cardinality(conns) < MaxLoad /\ open' = (open \ {t}) \cup {h0}
      /\ conns' = conns \cup {h0} /\ la' = [la EXCEPT ![x].at = "start"]
      /\ backlog' = backlog /\ mux' = mux /\ chEvent' = chEvent /\ listening' = listening /\ onlineA' = onlineA
      /\ ioMod' = ioMod /\ shutdown' = shutdown /\ via' = via /\ sd' = sd
  BY DEF AddTable, Convert, lmuxVars, fixed
<1>2. \/ Blocking(x) /\ rd' = [rd EXCEPT ![c] = "table"] /\ nb' = nb
      \/ ~Blocking(x) /\ nb' = [nb EXCEPT ![c] = "table"] /\ rd' = rd
  BY DEF AddTable
<1>3. /\ x \in AllListeners /\ c \in Conns /\ via[c] = x /\ via[c] # "no" /\ sd \notin {"deferred", "done"}
      /\ \A y \in AllListeners : y # x /\ la[y].at \in {"add", "start"} => la[y].conn # c
  BY <1>1, Adding
<1>4. /\ la \in [AllListeners -> [at : {"check", "accept", "add", "start", "gone"}, conn : Entry]]
      /\ rd \in [Conns -> {"no", "table", "reading", "convert", "transfer", "ending", "ended", "gone"}]
      /\ nb \in [Conns -> {"no", "table", "polled", "gone"}]
  BY DEF IInv, EngineTypeOK
<1>5. rd[c] = "no" /\ nb[c] = "no"
  BY <1>1, <1>3 DEF IInv, AddInv
<1>6. /\ la' \in [AllListeners -> [at : {"check", "accept", "add", "start", "gone"}, conn : Entry]]
      /\ \A y \in AllListeners : y # x => la'[y] = la[y]
      /\ la'[x].at = "start" /\ la'[x].conn = c
  BY <1>1, <1>3, <1>4
<1>7. /\ \A d : <<d, "tcp">> = t => d = c
      /\ h0 \in Handles /\ h0[1] = c /\ (Blocking(x) => h0 = t) /\ (~Blocking(x) => \A d : h0 # <<d, "tcp">>)
  BY <1>3 DEF Handle, Handles
<1> HIDE DEF c, t, h0
<1>8. /\ rd' \in [Conns -> {"no", "table", "reading", "convert", "transfer", "ending", "ended", "gone"}]
      /\ nb' \in [Conns -> {"no", "table", "polled", "gone"}]
      /\ \A d \in Conns : d # c => rd'[d] = rd[d] /\ nb'[d] = nb[d]
      /\ rd'[c] = IF Blocking(x) THEN "table" ELSE "no"
  BY <1>2, <1>3, <1>4, <1>5
<1>9. EngineTypeOK'
  BY <1>1, <1>4, <1>6, <1>7, <1>8 DEF IInv, EngineTypeOK
<1>10. AddInv'
  <2>1. \A d \in Conns : via'[d] = "no" => rd'[d] = "no" /\ nb'[d] = "no"
    BY <1>1, <1>3, <1>8 DEF IInv, AddInv
  <2>2. \A y \in AllListeners : y # x /\ la'[y].at \in {"add", "start"} => la'[y] = la[y] /\ la[y].conn # c
    BY <1>3, <1>6
  <2>3. \A y \in AllListeners : la'[y].at \in {"add", "start"} => la'[y].conn \in Conns /\ via'[la'[y].conn] = y
    BY <1>1, <1>3, <1>6, <2>2 DEF IInv, AddInv
  <2>4. \A y \in AllListeners : la'[y].at = "add" => rd'[la'[y].conn] = "no" /\ nb'[la'[y].conn] = "no"
    BY <1>6, <1>8, <2>2, <2>3 DEF IInv, AddInv
  <2>5. \A y \in AllListeners : la'[y].at = "start" => rd'[la'[y].conn] = IF Blocking(y)' THEN "table" ELSE "no"
    BY <1>1, <1>6, <1>8, <2>2, <2>3, SameListeners DEF IInv, AddInv
  <2> QED BY <2>1, <2>3, <2>4, <2>5 DEF AddInv
<1>11. OpenInv'
  <2>1. \A d : d # c /\ Held(d) => Held(d)'
    <3>1. \A d : InChannel(d)' <=> InChannel(d)
      BY <1>1 DEF InChannel
    <3>2. \A y \in Listeners : y # x => la'[y] = la[y]
      BY <1>1, <1>6, SameListeners
    <3> QED BY <1>1, <3>1, <3>2, SameListeners DEF Held, c
  <2>2. \A d \in Conns : rd'[d] \in {"table", "reading"} => <<d, "tcp">> \in conns'
    BY <1>1, <1>7, <1>8 DEF IInv, OpenInv, t
  <2>3. \A d \in Conns : rd'[d] \in {"convert", "transfer", "ending", "ended", "gone"} => <<d, "tcp">> \notin open'
    BY <1>1, <1>7, <1>8 DEF IInv, OpenInv
  <2>4. ASSUME ~shutdown, NEW h \in open'
        PROVE  h \in conns' \/ (h[2] = "tcp" /\ Held(h[1])') \/ (h[2] = "nbc" /\ rd'[h[1]] = "convert")
    <3>1. CASE h = h0
      BY <1>1, <3>1
    <3>2. CASE h # h0
      <4>1. h \in open /\ h # t /\ h \in Handles
        BY <1>1, <2>4, <3>2 DEF IInv, EngineTypeOK
      <4>2. h[2] = "tcp" => h[1] # c
        BY <4>1 DEF t, Handles
      <4>3. h \in conns \/ (h[2] = "tcp" /\ Held(h[1])) \/ (h[2] = "nbc" /\ rd[h[1]] = "convert")
        BY <2>4, <4>1 DEF IInv, OpenInv
      <4>4. rd[h[1]] = "convert" => rd'[h[1]] = "convert"
        BY <1>5, <1>8, <4>1 DEF Handles
      <4> QED BY <1>1, <2>1, <4>2, <4>3, <4>4
    <3> QED BY <3>1, <3>2
  <2> QED BY <1>1, <2>2, <2>3, <2>4 DEF OpenInv
<1>12. LoadInv'
  BY <1>1, LoadGrows DEF IInv
<1>13. StopInv'
  BY <1>1, <1>3, SameListeners DEF IInv, StopInv
<1>14. \A d \in Conns : rd'[d] = "gone" <=> rd[d] = "gone"
  BY <1>5, <1>8
<1>15. \A d \in Conns : via[d] = "no" /\ <<d, "tcp">> \in open => <<d, "tcp">> \in open'
  BY <1>1, <1>3, <1>7
<1>16. \A h \in conns' : h \in conns \/ via[h[1]] # "no"
  BY <1>1, <1>3, <1>7
<1> QED BY <1>1, <1>9, <1>10, <1>11, <1>12, <1>13, <1>14, <1>15, <1>16, ServeKept

\* A listener that has handed a connection on is idle again.
LEMMA Handed ==
  ASSUME IInv, NEW x \in Listeners, la[x].at = "start", la' = [la EXCEPT ![x] = Idle]
  PROVE  /\ la' \in [AllListeners -> [at : {"check", "accept", "add", "start", "gone"}, conn : Entry]]
         /\ \A y \in AllListeners : la'[y].at \in {"add", "start"} => y # x /\ la'[y] = la[y] /\ la[y].conn # la[x].conn
         /\ \A y \in Listeners : la[y].at = "add" => la'[y] = la[y]
<1>1. /\ x \in AllListeners
      /\ \A y \in AllListeners : y # x /\ la[y].at \in {"add", "start"} => la[y].conn # la[x].conn
  BY Adding
<1>2. la \in [AllListeners -> [at : {"check", "accept", "add", "start", "gone"}, conn : Entry]]
  BY DEF IInv, EngineTypeOK
<1>3. Idle \in [at : {"check", "accept", "add", "start", "gone"}, conn : Entry] /\ Idle.at = "check"
  BY DEF Idle, Entry
<1>4. /\ la' \in [AllListeners -> [at : {"check", "accept", "add", "start", "gone"}, conn : Entry]]
      /\ \A y \in AllListeners : y # x => la'[y] = la[y]
      /\ la'[x].at = "check"
  BY <1>1, <1>2, <1>3
<1>5. Listeners \subseteq AllListeners
  BY DEF Listeners, AllListeners
<1> QED BY <1>1, <1>4, <1>5

LEMMA StartReadingKeeps ==
  ASSUME IInv, NEW x \in Listeners, StartReading(x)
  PROVE  IInv'
<1> DEFINE c == la[x].conn
<1>1. /\ la[x].at = "start" /\ Blocking(x) /\ rd' = [rd EXCEPT ![c] = "reading"] /\ la' = [la EXCEPT ![x] = Idle]
      /\ backlog' = backlog /\ mux' = mux /\ chEvent' = chEvent /\ listening' = listening /\ onlineA' = onlineA
      /\ ioMod' = ioMod /\ shutdown' = shutdown /\ conns' = conns /\ open' = open /\ via' = via /\ nb' = nb /\ sd' = sd
  BY DEF StartReading, lmuxVars, fixed
<1>2. /\ la' \in [AllListeners -> [at : {"check", "accept", "add", "start", "gone"}, conn : Entry]]
      /\ \A y \in AllListeners : la'[y].at \in {"add", "start"} => la'[y] = la[y] /\ la[y].conn # c
      /\ \A y \in Listeners : la[y].at = "add" => la'[y] = la[y]
  BY <1>1, Handed
<1>3. x \in AllListeners /\ c \in Conns /\ via[c] = x /\ via[c] # "no" /\ sd \notin {"deferred", "done"}
  BY <1>1, Adding
<1>4. rd \in [Conns -> {"no", "table", "reading", "convert", "transfer", "ending", "ended", "gone"}] /\ rd[c] = "table"
  BY <1>1, <1>3 DEF IInv, EngineTypeOK, AddInv
<1> HIDE DEF c
<1>5. /\ rd' \in [Conns -> {"no", "table", "reading", "convert", "transfer", "ending", "ended", "gone"}]
      /\ \A d \in Conns : d # c => rd'[d] = rd[d]
      /\ rd'[c] = "reading"
  BY <1>1, <1>3, <1>4
<1>6. EngineTypeOK'
  BY <1>1, <1>2, <1>5 DEF IInv, EngineTypeOK
<1>7. AddInv'
  BY <1>1, <1>2, <1>3, <1>5, SameListeners DEF IInv, AddInv
<1>8. OpenInv'
  <2>1. \A d : Held(d) => Held(d)'
    BY <1>1, <1>2, HeldKept
  <2> QED BY <1>1, <1>4, <1>5, <2>1 DEF IInv, OpenInv
<1>9. LoadInv'
  BY <1>1, LoadKept DEF IInv
<1>10. StopInv'
  BY <1>1, <1>3, SameListeners DEF IInv, StopInv
<1>11. \A d \in Conns : rd'[d] = "gone" <=> rd[d] = "gone"
  BY <1>4, <1>5
<1> QED BY <1>1, <1>6, <1>7, <1>8, <1>9, <1>10, <1>11, ServeKept

LEMMA StartPollingKeeps ==
  ASSUME IInv, NEW x \in Listeners, NEW ok \in BOOLEAN, StartPolling(x, ok)
  PROVE  IInv'
<1> DEFINE c == la[x].conn
<1>1. /\ la[x].at = "start" /\ ~Blocking(x) /\ Poll(c, ok) /\ la' = [la EXCEPT ![x] = Idle]
      /\ backlog' = backlog /\ mux' = mux /\ chEvent' = chEvent /\ listening' = listening /\ onlineA' = onlineA
      /\ ioMod' = ioMod /\ shutdown' = shutdown /\ via' = via /\ rd' = rd /\ sd' = sd
  BY DEF StartPolling, lmuxVars, fixed
<1>2. /\ la' \in [AllListeners -> [at : {"check", "accept", "add", "start", "gone"}, conn : Entry]]
      /\ \A y \in AllListeners : la'[y].at \in {"add", "start"} => la'[y] = la[y] /\ la[y].conn # c
      /\ \A y \in Listeners : la[y].at = "add" => la'[y] = la[y]
  BY <1>1, Handed
<1>3. x \in AllListeners /\ c \in Conns /\ via[c] = x /\ via[c] # "no" /\ sd \notin {"deferred", "done"}
  BY <1>1, Adding
<1> HIDE DEF c
<1>4. /\ nb' \in [Conns -> {"no", "table", "polled", "gone"}]
      /\ \A d \in Conns : d # c => nb'[d] = nb[d]
      /\ conns' \subseteq conns /\ open' \subseteq open
      /\ \A d \in Conns : /\ <<d, "tcp">> \in conns => <<d, "tcp">> \in conns'
                          /\ <<d, "tcp">> \in open => <<d, "tcp">> \in open'
      /\ \A h \in open' : h \in conns => h \in conns'
  BY <1>1, <1>3, PollEffect DEF IInv
<1>5. EngineTypeOK'
  BY <1>1, <1>2, <1>4 DEF IInv, EngineTypeOK
<1>6. AddInv'
  BY <1>1, <1>2, <1>3, <1>4, SameListeners DEF IInv, AddInv
<1>7. OpenInv'
  <2>1. \A d : Held(d) => Held(d)'
    BY <1>1, <1>2, HeldKept
  <2> QED BY <1>1, <1>4, <2>1 DEF IInv, OpenInv
<1>8. LoadInv'
  BY <1>4, LoadKept DEF IInv
<1>9. StopInv'
  BY <1>1, <1>3, SameListeners DEF IInv, StopInv
<1> QED BY <1>1, <1>4, <1>5, <1>6, <1>7, <1>8, <1>9, ServeKept

-----------------------------------------------------------------------------
(* The theorems.                                                           *)

LEMMA InitHolds ==
  ASSUME Init
  PROVE  IInv
<1>1. /\ backlog = {} /\ onlineA = 0 /\ mux.at \in {"accept", "gone"} /\ mux.conn = Error
      /\ mux \in [at : {"accept", "over", "gone"}, conn : Entry] /\ listening = TRUE /\ shutdown = FALSE
      /\ chEvent = [x \in {"A", "B"} |-> <<>>] /\ la = [x \in {"A", "B", "L"} |-> Idle]
      /\ conns = {} /\ open = {} /\ via = [c \in Conns |-> "no"] /\ rd = [c \in Conns |-> "no"]
      /\ nb = [c \in Conns |-> "no"] /\ sd = "no"
  BY DEF Init, LmuxInit, Entry
<1>2. <<>> \in Seq(Entry) /\ DOMAIN <<>> = {}
  BY EmptySeq, SeqFacts
<1>3. \A c : ~InChannel(c)
  BY <1>1, <1>2 DEF InChannel
<1>4. EngineTypeOK
  <2>1. chEvent \in [{"A", "B"} -> Seq(Entry)]
    BY <1>1, <1>2
  <2>2. Idle \in [at : {"check", "accept", "add", "start", "gone"}, conn : Entry]
    BY DEF Idle, Entry
  <2>3. la \in [AllListeners -> [at : {"check", "accept", "add", "start", "gone"}, conn : Entry]]
    BY <1>1, <2>2 DEF AllListeners
  <2>4. /\ via \in [Conns -> {"no"} \cup AllListeners]
        /\ rd \in [Conns -> {"no", "table", "reading", "convert", "transfer", "ending", "ended", "gone"}]
        /\ nb \in [Conns -> {"no", "table", "polled", "gone"}]
    BY <1>1
  <2>5. /\ backlog \subseteq Conns /\ onlineA \in Int /\ conns \subseteq Handles /\ open \subseteq Handles
        /\ mux \in [at : {"accept", "over", "gone"}, conn : Entry]
        /\ sd \in {"no", "listeners", "close", "tick", "stop", "pollers", "deferred", "done", "timeout"}
    BY <1>1
  <2>6. shutdown \in BOOLEAN /\ listening \in BOOLEAN
    BY <1>1, Zenon
  <2> QED BY <2>1, <2>3, <2>4, <2>5, <2>6, Zenon DEF EngineTypeOK
<1>5. ChannelsInv /\ PlaceInv
  BY <1>1, <1>2, <1>3 DEF ChannelsInv, PlaceInv
<1>6. AddInv
  BY <1>1 DEF AddInv, AllListeners, Idle
<1>7. WaitInv
  BY <1>1, <1>3, ConnFacts DEF WaitInv, Waits
<1>8. OpenInv
  BY <1>1 DEF OpenInv
<1>9. LoadInv
  BY <1>1, FS_EmptySet, EngineAssumption DEF LoadInv
<1>10. OnlineInv
  <2>1. \A c \in Conns : ~ToA(c)
    BY <1>1, <1>3 DEF ToA, InChannel
  <2>2. OnlineOfA = {}
    BY <2>1 DEF OnlineOfA
  <2>3. IsFiniteSet(OnlineOfA) /\ Cardinality(OnlineOfA) = 0
    BY <2>2, FS_EmptySet
  <2> QED BY <1>1, <2>3, LmuxAssumption DEF OnlineInv
<1>11. StopInv
  BY <1>1 DEF StopInv
<1> QED BY <1>4, <1>5, <1>6, <1>7, <1>8, <1>9, <1>10, <1>11 DEF IInv

LEMMA StepHolds ==
  ASSUME IInv, [Next]_vars
  PROVE  IInv'
<1>1. CASE UNCHANGED Outside
  BY <1>1, ShutdownMoves DEF Outside
<1>2. CASE UNCHANGED vars
  BY <1>2, ShutdownMoves DEF vars
<1>3. CASE ShutdownTick
  BY <1>3, ShutdownMoves DEF ShutdownTick
<1>4. CASE StopWaited \/ EngineStops
  BY <1>4, ShutdownMoves DEF StopWaited, EngineStops
<1>5. CASE ShutdownCloses \/ ShutdownReturns \/ ShutdownTimeout
  BY <1>5, CloseAllKeeps DEF ShutdownCloses, ShutdownReturns, ShutdownTimeout
<1>6. CASE ShutdownStart \/ stopListeners \/ StopCloses
  BY <1>6, ShutdownStartKeeps, stopListenersKeeps, StopClosesKeeps
<1>7. ASSUME NEW c \in Conns,
             \/ Arrive(c) \/ Transfer(c) \/ AddTransferredConn(c) \/ ReadEnds(c) \/ ReadEnded(c) \/ OnClose(c)
             \/ \E ok \in BOOLEAN : TransferPolls(c, ok)
      PROVE  IInv'
  BY <1>7, ArriveKeeps, TransferKeeps, AddTransferredConnKeeps, ReadEndsKeeps, ReadEndedKeeps, OnCloseKept,
     TransferPollsKeeps
<1>8. ASSUME NEW x \in Listeners,
             \/ ListenCheck(x) \/ ListenMux(x) \/ AddRefuse(x) \/ AddTable(x) \/ StartReading(x)
             \/ \E ok \in BOOLEAN : StartPolling(x, ok)
      PROVE  IInv'
  BY <1>8, ListenCheckKeeps, ListenMuxKeeps, AddRefuseKeeps, AddTableKeeps, StartReadingKeeps, StartPollingKeeps
<1>9. CASE ListenDirect /\ "L" \in Listeners
  BY <1>9, ListenDirectKeeps
<1>10. ASSUME UNCHANGED <<fixed, serverVars, sd>>, (\E c \in Conns : MuxAccept(c)) \/ MuxTakeBack \/ MuxFails
       PROVE  IInv'
  BY <1>10, MuxAcceptKeeps, MuxTakeBackKeeps, MuxFailsKeeps
<1>11. ASSUME NEW h \in Handles, ConnCloses(h) PROVE IInv'
  BY <1>11, ConnClosesKeeps
<1>12. CASE Next
  BY <1>1, <1>3, <1>4, <1>5, <1>6, <1>7, <1>8, <1>9, <1>10, <1>11, <1>12, NextCases, Zenon
<1> QED BY <1>2, <1>12

LEMMA Invariance == Spec => []IInv
  BY InitHolds, StepHolds, PTL DEF Spec

\* For every number of connections, every maxOnlineA and MaxLoad: an open
\* connection is in the table or still on its way to it until the engine shuts
\* down, the table keeps to MaxLoad, and onlineA counts exactly the connections
\* given to A that have not ended, of which there are at most maxOnlineA
\* (lmux.go, Start and DecreaseOnlineA; engine.go, AddConn*, AddTransferredConn
\* and readConnBlocking).
THEOREM TableIsExact == Spec => []TableAndOnlineExact
<1>1. IInv => TableAndOnlineExact
  BY Zenon DEF IInv, OpenInv, LoadInv, OnlineInv, OnlineOfA, TableAndOnlineExact
<1> QED BY <1>1, Invariance, PTL

\* Shutdown that returns without an error leaves no connection of the table
\* open: its deferred closeAllConns runs when every goroutine of listen has
\* ended, so only an upgrade that was under way can put one into the table
\* behind it, which the pollers, that are gone, then refuse (engine.go,
\* Shutdown, listen and AddTransferredConn).
THEOREM ShutdownLeavesNone == Spec => []ShutdownClosesAll
<1>1. IInv => ShutdownClosesAll
  BY DEF IInv, StopInv, ShutdownClosesAll
<1> QED BY <1>1, Invariance, PTL

-----------------------------------------------------------------------------
(* The client: the inductive invariant.                                    *)

\* How many ClientConns the pool has made.
Made == Cardinality(DOMAIN hcs) - 1

Outcomes == {<<>>, <<"error">>} \cup {<<"response", r>> : r \in Reqs}
Jobs == {<<"close">>} \cup {<<"response", r>> : r \in Reqs}
ReqRecord == [at : {"new", "get", "count", "over", "wait", "reset", "do", "sent", "done"}, hc : Nat,
              calls : Nat, got : Outcomes]
HcRecord == [closed : BOOLEAN, conn : Nat, handlers : Seq(Reqs)]
NetRecord == [hc : Nat, open : BOOLEAN, wire : Seq(Reqs), jobs : Seq(Jobs), notified : BOOLEAN, junk : Int]

ClientTypeOK ==
  /\ cliClosed \in BOOLEAN /\ crossed \in BOOLEAN /\ connNum \in Int
  /\ Made \in Nat /\ hcs \in [0 .. Made -> HcRecord]
  /\ closing \subseteq 1 .. Made /\ (closing # {} => cliClosed)
  /\ chConnss \in Seq(1 .. Made)
  /\ req \in [Reqs -> ReqRecord] /\ \A r \in Reqs : req[r].hc \in 0 .. Made
  /\ net \in Seq(NetRecord) /\ \A k \in 1 .. Len(net) : net[k].hc \in 0 .. Made
  /\ \A h \in 0 .. Made : hcs[h].conn # NoConn => hcs[h].conn \in 1 .. Len(net) /\ net[hcs[h].conn].hc = h

\* A request's handler is called once; before that it has no outcome.
CallsInv ==
  \A r \in Reqs : /\ req[r].calls = (IF req[r].at = "done" THEN 1 ELSE 0)
                  /\ req[r].at # "done" => req[r].got = <<>>

\* A ClientConn of the pool has one user: a request, or a place in chConnss.
Uses(r, h) == req[r].hc = h /\ req[r].at \in {"reset", "do", "sent"}
UserInv ==
  /\ \A r \in Reqs : req[r].at \in {"new", "get", "count", "over", "wait"} => req[r].hc = Own
  /\ \A r \in Reqs : req[r].at = "reset" => req[r].hc # Own
  /\ \A r, q \in Reqs : Uses(r, req[r].hc) /\ Uses(q, req[r].hc) /\ req[r].hc # Own => r = q
  /\ \A i, j \in 1 .. Len(chConnss) : chConnss[i] = chConnss[j] => i = j
  /\ \A r \in Reqs, i \in 1 .. Len(chConnss) : ~Uses(r, chConnss[i])
  /\ \A h \in 1 .. Made : (\E r \in Reqs : Uses(r, h)) \/ \E i \in 1 .. Len(chConnss) : chConnss[i] = h

\* Its handlers are those of the requests under way on it.
HandlersInv ==
  \A h \in 0 .. Made :
    /\ \A i \in 1 .. Len(hcs[h].handlers) :
         req[hcs[h].handlers[i]].at = "sent" /\ req[hcs[h].handlers[i]].hc = h
    /\ \A i, j \in 1 .. Len(hcs[h].handlers) : hcs[h].handlers[i] = hcs[h].handlers[j] => i = j

\* connNum counts the ClientConns and what is to be taken back.
Over == {r \in Reqs : req[r].at = "over"}
CountInv == IsFiniteSet(Over) /\ connNum = Made + Cardinality(Over) /\ Made <= MaxConnNum

\* Nothing comes behind the clean-up job of a connection.
NetInv ==
  \A k \in 1 .. Len(net) :
    /\ net[k].junk = 0 /\ (net[k].notified => ~net[k].open)
    /\ \A i \in 1 .. Len(net[k].jobs) :
         net[k].jobs[i][1] = "close" => net[k].notified /\ i = Len(net[k].jobs)

\* A request that is on a connection of the pool, or whose response is in its
\* jobs, is the one the ClientConn waits for.
Waited(k, r) ==
  LET h == net[k].hc IN hcs[h].conn = k /\ ~hcs[h].closed /\ hcs[h].handlers = <<r>>
AnswerInv ==
  cliClosed \/ crossed \/
  \A k \in 1 .. Len(net) : net[k].hc # Own =>
    /\ \A i \in 1 .. Len(net[k].jobs) : net[k].jobs[i][1] = "response" => Waited(k, net[k].jobs[i][2])
    /\ \A i, j \in 1 .. Len(net[k].jobs) :
         net[k].jobs[i][1] = "response" /\ net[k].jobs[j][1] = "response" => i = j
    /\ net[k].open /\ net[k].wire # <<>> =>
         Len(net[k].wire) = 1 /\ Waited(k, net[k].wire[1]) /\ ~Answered(k)
GotInv ==
  cliClosed \/ crossed \/ \A r \in Pooled : req[r].got \in {<<>>, <<"error">>, <<"response", r>>}

CInv == ClientTypeOK /\ CallsInv /\ UserInv /\ HandlersInv /\ CountInv /\ NetInv /\ AnswerInv /\ GotInv

-----------------------------------------------------------------------------
(* Lemmas about the client's data.                                         *)

LEMMA JobFacts ==
  /\ \A j \in Jobs : j[1] \in {"close", "response"} /\ (j[1] = "response" => j[2] \in Reqs)
  /\ <<"close">> \in Jobs /\ <<"close">>[1] = "close"
  /\ \A r \in Reqs : <<"response", r>> \in Jobs /\ <<"response", r>>[1] = "response" /\ <<"response", r>>[2] = r
  BY DEF Jobs

LEMMA OutcomeFacts ==
  <<>> \in Outcomes /\ <<"error">> \in Outcomes /\ \A r \in Reqs : <<"response", r>> \in Outcomes
  BY DEF Outcomes

LEMMA NetFacts ==
  ASSUME ClientTypeOK
  PROVE  /\ Len(net) \in Nat /\ DOMAIN net = 1 .. Len(net)
         /\ \A k \in 1 .. Len(net) :
              /\ net[k] \in NetRecord /\ net[k].hc \in 0 .. Made
              /\ net[k].wire \in Seq(Reqs) /\ Len(net[k].wire) \in Nat
              /\ net[k].jobs \in Seq(Jobs) /\ Len(net[k].jobs) \in Nat
              /\ \A i \in 1 .. Len(net[k].jobs) : net[k].jobs[i] \in Jobs
<1>1. net \in Seq(NetRecord) /\ \A k \in 1 .. Len(net) : net[k].hc \in 0 .. Made
  BY DEF ClientTypeOK
<1>2. Len(net) \in Nat /\ DOMAIN net = 1 .. Len(net) /\ \A k \in 1 .. Len(net) : net[k] \in NetRecord
  BY <1>1, SeqFacts
<1>3. ASSUME NEW n \in NetRecord PROVE n.wire \in Seq(Reqs) /\ n.jobs \in Seq(Jobs)
  BY <1>3 DEF NetRecord
<1> QED BY <1>1, <1>2, <1>3, SeqFacts

LEMMA HcFacts ==
  ASSUME ClientTypeOK
  PROVE  /\ Made \in Nat /\ DOMAIN hcs = 0 .. Made /\ Own \in 0 .. Made
         /\ \A h \in 0 .. Made :
              /\ hcs[h] \in HcRecord /\ hcs[h].handlers \in Seq(Reqs) /\ Len(hcs[h].handlers) \in Nat
              /\ DOMAIN hcs[h].handlers = 1 .. Len(hcs[h].handlers)
              /\ \A i \in 1 .. Len(hcs[h].handlers) : hcs[h].handlers[i] \in Reqs
         /\ chConnss \in Seq(1 .. Made) /\ Len(chConnss) \in Nat
         /\ \A i \in 1 .. Len(chConnss) : chConnss[i] \in 1 .. Made
<1>1. Made \in Nat /\ hcs \in [0 .. Made -> HcRecord] /\ chConnss \in Seq(1 .. Made)
  BY DEF ClientTypeOK
<1>2. ASSUME NEW n \in HcRecord PROVE n.handlers \in Seq(Reqs)
  BY <1>2 DEF HcRecord
<1>3. Own \in 0 .. Made
  BY <1>1 DEF Own
<1> QED BY <1>1, <1>2, <1>3, SeqFacts

\* Steps that change connections only by closing them or by taking a job.
NetLess ==
  /\ net' \in Seq(NetRecord) /\ Len(net') = Len(net)
  /\ \A k \in 1 .. Len(net) :
       /\ net'[k].hc = net[k].hc /\ net'[k].wire = net[k].wire /\ net'[k].junk = net[k].junk
       /\ (net'[k].notified <=> net[k].notified) /\ (net'[k].open => net[k].open)
       /\ net'[k].jobs = net[k].jobs \/ (net[k].jobs # <<>> /\ net'[k].jobs = Tail(net[k].jobs))

\* What the jobs of a connection are afterwards.
LEMMA JobsLess ==
  ASSUME ClientTypeOK, NetLess, NEW k \in 1 .. Len(net)
  PROVE  \E d \in {0, 1} :
           /\ Len(net'[k].jobs) = Len(net[k].jobs) - d
           /\ d = 1 <=> net'[k].jobs # net[k].jobs
           /\ \A i \in 1 .. Len(net'[k].jobs) : i + d \in 1 .. Len(net[k].jobs) /\ net'[k].jobs[i] = net[k].jobs[i + d]
<1>1. net[k].jobs \in Seq(Jobs) /\ Len(net[k].jobs) \in Nat
  BY NetFacts
<1>2. net'[k].jobs = net[k].jobs \/ (net[k].jobs # <<>> /\ net'[k].jobs = Tail(net[k].jobs))
  BY DEF NetLess
<1>3. ASSUME net'[k].jobs = net[k].jobs
      PROVE  /\ Len(net'[k].jobs) = Len(net[k].jobs) - 0
             /\ \A i \in 1 .. Len(net'[k].jobs) : i + 0 \in 1 .. Len(net[k].jobs) /\ net'[k].jobs[i] = net[k].jobs[i + 0]
  BY <1>1, <1>3
<1>4. ASSUME net[k].jobs # <<>>, net'[k].jobs = Tail(net[k].jobs)
      PROVE  /\ Len(net'[k].jobs) = Len(net[k].jobs) - 1
             /\ \A i \in 1 .. Len(net'[k].jobs) : i + 1 \in 1 .. Len(net[k].jobs) /\ net'[k].jobs[i] = net[k].jobs[i + 1]
  <2>1. Len(Tail(net[k].jobs)) = Len(net[k].jobs) - 1
        /\ \A i \in 1 .. Len(net[k].jobs) - 1 : Tail(net[k].jobs)[i] = net[k].jobs[i + 1]
    BY <1>1, <1>4, TailSeq
  <2> QED BY <1>1, <1>4, <2>1
<1>5. Len(net'[k].jobs) = Len(net[k].jobs) - 1 => net'[k].jobs # net[k].jobs
  BY <1>1
<1>6. CASE net'[k].jobs = net[k].jobs
  <2> WITNESS 0 \in {0, 1}
  <2> QED BY <1>3, <1>6
<1>7. CASE net[k].jobs # <<>> /\ net'[k].jobs = Tail(net[k].jobs)
  <2> WITNESS 1 \in {0, 1}
  <2> QED BY <1>4, <1>5, <1>7
<1> QED BY <1>2, <1>6, <1>7

LEMMA NetLessInv ==
  ASSUME ClientTypeOK, NetInv, NetLess
  PROVE  NetInv'
<1> SUFFICES ASSUME NEW k \in 1 .. Len(net)
             PROVE  /\ net'[k].junk = 0 /\ (net'[k].notified => ~net'[k].open)
                    /\ \A i \in 1 .. Len(net'[k].jobs) :
                         net'[k].jobs[i][1] = "close" => net'[k].notified /\ i = Len(net'[k].jobs)
  BY DEF NetInv, NetLess
<1>1. net'[k].junk = 0 /\ (net'[k].notified => ~net'[k].open)
  BY DEF NetInv, NetLess
<1>2. PICK d \in {0, 1} :
           /\ Len(net'[k].jobs) = Len(net[k].jobs) - d
           /\ \A i \in 1 .. Len(net'[k].jobs) : i + d \in 1 .. Len(net[k].jobs) /\ net'[k].jobs[i] = net[k].jobs[i + d]
  BY JobsLess
<1>3. ASSUME NEW i \in 1 .. Len(net'[k].jobs), net'[k].jobs[i][1] = "close"
      PROVE  net'[k].notified /\ i = Len(net'[k].jobs)
  <2>1. i + d \in 1 .. Len(net[k].jobs) /\ net[k].jobs[i + d][1] = "close"
    BY <1>2, <1>3
  <2>2. net[k].notified /\ i + d = Len(net[k].jobs)
    BY <2>1 DEF NetInv
  <2>3. Len(net[k].jobs) \in Nat
    BY NetFacts
  <2>4. i = Len(net'[k].jobs)
    BY <1>2, <2>2, <2>3
  <2> QED BY <2>2, <2>4 DEF NetLess
<1> QED BY <1>1, <1>3

-----------------------------------------------------------------------------
(* Steps that call handlers and give the ClientConn back.                  *)

\* The handlers of D, requests under way on h, are called.
Freed(h, D) ==
  /\ \A r \in D : r \in Reqs /\ req[r].hc = h /\ req[r].at \in {"do", "sent"}
  /\ req' \in [Reqs -> ReqRecord]
  /\ \A r \in Reqs : r \notin D => req'[r] = req[r]
  /\ \A r \in D : req'[r].at = "done" /\ req'[r].hc = h /\ req'[r].calls = req[r].calls + 1
  /\ chConnss' = IF h = Own \/ D = {} THEN chConnss ELSE Append(chConnss, h)

\* Only h changes, that has its connection or none.
OnlyHc(h) ==
  /\ hcs' \in [0 .. Made -> HcRecord]
  /\ \A g \in 0 .. Made : g # h => hcs'[g] = hcs[g]
  /\ hcs'[h].conn \in {NoConn, hcs[h].conn}

LEMMA ReqFacts ==
  ASSUME ClientTypeOK, NEW r \in Reqs
  PROVE  /\ req[r] \in ReqRecord /\ req[r].hc \in 0 .. Made /\ req[r].calls \in Nat /\ req[r].got \in Outcomes
         /\ req[r].at \in {"new", "get", "count", "over", "wait", "reset", "do", "sent", "done"}
  BY DEF ClientTypeOK, ReqRecord

UsesNext(r, g) == req'[r].hc = g /\ req'[r].at \in {"reset", "do", "sent"}

LEMMA MadeSame ==
  ASSUME DOMAIN hcs' = DOMAIN hcs
  PROVE  Made' = Made
  BY DEF Made

\* A request's use of a ClientConn of the pool is the only one.
LEMMA OneUser ==
  ASSUME ClientTypeOK, UserInv, NEW h \in 0 .. Made, h # Own, NEW r \in Reqs, NEW q \in Reqs, Uses(r, h), Uses(q, h)
  PROVE  r = q
  BY DEF UserInv, Uses

LEMMA FreedUsers ==
  ASSUME ClientTypeOK, UserInv, NEW h \in 0 .. Made, NEW D, Freed(h, D), Made' = Made
  PROVE  /\ chConnss' \in Seq(1 .. Made) /\ UserInv'
         /\ \A r \in Reqs : req'[r].hc \in 0 .. Made
<1>1. \A r \in Reqs : req'[r].hc = req[r].hc
  BY DEF Freed
<1>2. \A r \in Reqs : r \notin D => req'[r] = req[r]
  BY DEF Freed
<1>3. \A r \in D : r \in Reqs /\ Uses(r, h) /\ req'[r].at = "done"
  BY DEF Freed, Uses
<1>4. chConnss \in Seq(1 .. Made) /\ Len(chConnss) \in Nat /\ Made \in Nat /\ \A i \in 1 .. Len(chConnss) : chConnss[i] \in 1 .. Made
  BY HcFacts
<1>5. \A r \in Reqs : req'[r].at \in {"new", "get", "count", "over", "wait"} => req'[r].hc = Own
  BY <1>1, <1>2, <1>3 DEF UserInv
<1>6. \A r \in Reqs : req'[r].at = "reset" => req'[r].hc # Own
  BY <1>1, <1>2, <1>3 DEF UserInv
<1>7. \A r \in Reqs : \A g : UsesNext(r, g) <=> Uses(r, g) /\ r \notin D
  <2> SUFFICES ASSUME NEW r \in Reqs, NEW g PROVE UsesNext(r, g) <=> Uses(r, g) /\ r \notin D
    OBVIOUS
  <2>1. UsesNext(r, g) <=> req'[r].hc = g /\ req'[r].at \in {"reset", "do", "sent"}
    BY DEF UsesNext
  <2>2. CASE r \in D
    BY <1>3, <2>1, <2>2
  <2>3. CASE r \notin D
    BY <1>2, <2>1, <2>3 DEF Uses
  <2> QED BY <2>2, <2>3
<1>8. \A r, q \in Reqs : UsesNext(r, req[r].hc) /\ UsesNext(q, req[r].hc) /\ req[r].hc # Own => r = q
  BY <1>7 DEF UserInv
<1>9. \A r \in Reqs : req[r].hc \in 0 .. Made
  BY DEF ClientTypeOK
<1>10. CASE h = Own \/ D = {}
  <2>1. chConnss' = chConnss
    BY <1>10 DEF Freed
  <2>2. \A r \in Reqs, i \in 1 .. Len(chConnss) : ~UsesNext(r, chConnss[i])
    BY <1>7 DEF UserInv
  <2>3. ASSUME NEW g \in 1 .. Made
        PROVE  (\E r \in Reqs : UsesNext(r, g)) \/ \E i \in 1 .. Len(chConnss) : chConnss[i] = g
    <3>1. \A r \in Reqs : Uses(r, g) => r \notin D
      BY <1>3, <1>4, <1>10 DEF Uses, Own
    <3> QED BY <1>7, <3>1 DEF UserInv
  <2>4. UserInv'
    BY <1>1, <1>5, <1>6, <1>8, <2>1, <2>2, <2>3 DEF UserInv, Uses, UsesNext
  <2> QED BY <1>1, <1>4, <1>9, <2>1, <2>4
<1>11. CASE h # Own /\ D # {}
  <2>1. chConnss' = Append(chConnss, h) /\ h \in 1 .. Made
    BY <1>4, <1>11 DEF Freed, Own
  <2>2. /\ chConnss' \in Seq(1 .. Made) /\ Len(chConnss') = Len(chConnss) + 1
        /\ \A i \in 1 .. Len(chConnss) : chConnss'[i] = chConnss[i]
        /\ chConnss'[Len(chConnss) + 1] = h
    BY <1>4, <2>1, AppendSeq
  <2>3. PICK r0 \in D : TRUE
    BY <1>11
  <2>4. \A r \in Reqs : ~UsesNext(r, h)
    BY <1>3, <1>7, <1>11, <2>3, OneUser
  <2>5. \A i \in 1 .. Len(chConnss) : chConnss[i] # h
    BY <1>3, <2>3 DEF UserInv
  <2>6. \A i, j \in 1 .. Len(chConnss') : chConnss'[i] = chConnss'[j] => i = j
    <3>1. \A i, j \in 1 .. Len(chConnss) : chConnss[i] = chConnss[j] => i = j
      BY DEF UserInv
    <3>2. \A i \in 1 .. Len(chConnss') : i \in 1 .. Len(chConnss) \/ i = Len(chConnss) + 1
      BY <1>4, <2>2
    <3>3. \A i \in 1 .. Len(chConnss) : chConnss'[i] # h
      BY <2>2, <2>5
    <3> QED BY <2>2, <3>1, <3>2, <3>3
  <2>7. \A r \in Reqs, i \in 1 .. Len(chConnss') : ~UsesNext(r, chConnss'[i])
    <3> SUFFICES ASSUME NEW r \in Reqs, NEW i \in 1 .. Len(chConnss') PROVE ~UsesNext(r, chConnss'[i])
      OBVIOUS
    <3>1. CASE i \in 1 .. Len(chConnss)
      <4>1. chConnss'[i] = chConnss[i] /\ ~Uses(r, chConnss[i])
        BY <2>2, <3>1 DEF UserInv
      <4> QED BY <1>7, <4>1
    <3>2. CASE i = Len(chConnss) + 1
      BY <2>2, <2>4, <3>2
    <3> QED BY <1>4, <2>2, <3>1, <3>2
  <2>8. ASSUME NEW g \in 1 .. Made
        PROVE  (\E r \in Reqs : UsesNext(r, g)) \/ \E i \in 1 .. Len(chConnss') : chConnss'[i] = g
    <3>1. CASE g = h
      BY <1>4, <2>2, <3>1
    <3>2. CASE g # h
      <4>1. CASE \E r \in Reqs : Uses(r, g)
        BY <1>3, <1>7, <3>2, <4>1 DEF Uses
      <4>2. CASE \E i \in 1 .. Len(chConnss) : chConnss[i] = g
        BY <1>4, <2>2, <4>2
      <4> QED BY <4>1, <4>2 DEF UserInv
    <3> QED BY <3>1, <3>2
  <2>9. UserInv'
    BY <1>1, <1>5, <1>6, <1>8, <2>6, <2>7, <2>8 DEF UserInv, Uses, UsesNext
  <2> QED BY <1>1, <1>9, <2>2, <2>9
<1> QED BY <1>10, <1>11

\* What h's handlers are afterwards.
HandlersLeft(h, D) ==
  /\ \A i \in 1 .. Len(hcs'[h].handlers) :
       /\ hcs'[h].handlers[i] \in Reqs /\ hcs'[h].handlers[i] \notin D
       /\ req[hcs'[h].handlers[i]].at = "sent" /\ req[hcs'[h].handlers[i]].hc = h
  /\ \A i, j \in 1 .. Len(hcs'[h].handlers) : hcs'[h].handlers[i] = hcs'[h].handlers[j] => i = j

\* No response can come on a connection of h.
NoAnswer(h) ==
  \A k \in 1 .. Len(net) : net[k].hc = h =>
    (\A i \in 1 .. Len(net'[k].jobs) : net'[k].jobs[i][1] # "response") /\ (net'[k].open => net[k].wire = <<>>)

LEMMA AnsweredIs ==
  ASSUME ClientTypeOK, NEW k \in 1 .. Len(net)
  PROVE  Answered(k) <=> \E i \in 1 .. Len(net[k].jobs) : net[k].jobs[i][1] = "response"
<1>1. net[k].jobs \in Seq(Jobs)
  BY NetFacts
<1>2. DOMAIN net[k].jobs = 1 .. Len(net[k].jobs)
  BY <1>1, SeqFacts
<1> QED BY <1>2 DEF Answered

LEMMA AnsweredIsNext ==
  ASSUME net' \in Seq(NetRecord), NEW k \in 1 .. Len(net')
  PROVE  Answered(k)' <=> \E i \in 1 .. Len(net'[k].jobs) : net'[k].jobs[i][1] = "response"
<1>1. net'[k] \in NetRecord
  BY SeqFacts
<1>2. \A n \in NetRecord : n.jobs \in Seq(Jobs)
  BY DEF NetRecord
<1>3. DOMAIN net'[k].jobs = 1 .. Len(net'[k].jobs)
  BY <1>1, <1>2, SeqFacts
<1> QED BY <1>3 DEF Answered

\* A connection whose ClientConn does not change keeps its part of AnswerInv.
AnswerOf(k) ==
  /\ \A i \in 1 .. Len(net[k].jobs) : net[k].jobs[i][1] = "response" => Waited(k, net[k].jobs[i][2])
  /\ \A i, j \in 1 .. Len(net[k].jobs) :
       net[k].jobs[i][1] = "response" /\ net[k].jobs[j][1] = "response" => i = j
  /\ net[k].open /\ net[k].wire # <<>> =>
       Len(net[k].wire) = 1 /\ Waited(k, net[k].wire[1]) /\ ~Answered(k)

WaitedNext(k, r) ==
  hcs'[net'[k].hc].conn = k /\ ~hcs'[net'[k].hc].closed /\ hcs'[net'[k].hc].handlers = <<r>>

LEMMA AnswerOfNext ==
  ASSUME NEW k,
         \A i \in 1 .. Len(net'[k].jobs) : net'[k].jobs[i][1] = "response" => WaitedNext(k, net'[k].jobs[i][2]),
         \A i, j \in 1 .. Len(net'[k].jobs) :
           net'[k].jobs[i][1] = "response" /\ net'[k].jobs[j][1] = "response" => i = j,
         net'[k].open /\ net'[k].wire # <<>> =>
           Len(net'[k].wire) = 1 /\ WaitedNext(k, net'[k].wire[1]) /\ ~Answered(k)'
  PROVE  AnswerOf(k)'
  BY DEF AnswerOf, Waited, WaitedNext

LEMMA AnswerOfLess ==
  ASSUME ClientTypeOK, NetLess, NEW k \in 1 .. Len(net), AnswerOf(k), hcs'[net[k].hc] = hcs[net[k].hc]
  PROVE  AnswerOf(k)'
<1>1. PICK d \in {0, 1} :
           /\ Len(net'[k].jobs) = Len(net[k].jobs) - d
           /\ \A i \in 1 .. Len(net'[k].jobs) : i + d \in 1 .. Len(net[k].jobs) /\ net'[k].jobs[i] = net[k].jobs[i + d]
  BY JobsLess
<1>2. Len(net[k].jobs) \in Nat
  BY NetFacts
<1>3. net'[k].hc = net[k].hc /\ net'[k].wire = net[k].wire /\ (net'[k].open => net[k].open)
      /\ net' \in Seq(NetRecord) /\ k \in 1 .. Len(net')
  BY DEF NetLess
<1>5. ASSUME NEW i \in 1 .. Len(net'[k].jobs), net'[k].jobs[i][1] = "response"
      PROVE  WaitedNext(k, net'[k].jobs[i][2]) /\ i + d \in 1 .. Len(net[k].jobs) /\ net[k].jobs[i + d][1] = "response"
  <2>1. i + d \in 1 .. Len(net[k].jobs) /\ net'[k].jobs[i] = net[k].jobs[i + d]
    BY <1>1
  <2>2. Waited(k, net[k].jobs[i + d][2])
    BY <1>5, <2>1 DEF AnswerOf
  <2>3. hcs'[net'[k].hc].conn = k /\ ~hcs'[net'[k].hc].closed /\ hcs'[net'[k].hc].handlers = <<net'[k].jobs[i][2]>>
    BY <1>3, <2>1, <2>2 DEF Waited
  <2> QED BY <1>5, <2>1, <2>3 DEF WaitedNext
<1>6. ASSUME NEW i \in 1 .. Len(net'[k].jobs), NEW j \in 1 .. Len(net'[k].jobs),
             net'[k].jobs[i][1] = "response", net'[k].jobs[j][1] = "response"
      PROVE  i = j
  <2>1. i + d = j + d
    BY <1>5, <1>6 DEF AnswerOf
  <2> QED BY <2>1
<1>7. ASSUME net'[k].open, net'[k].wire # <<>>
      PROVE  Len(net'[k].wire) = 1 /\ WaitedNext(k, net'[k].wire[1]) /\ ~Answered(k)'
  <2>1. Len(net[k].wire) = 1 /\ Waited(k, net[k].wire[1]) /\ ~Answered(k)
    BY <1>3, <1>7 DEF AnswerOf
  <2>2. hcs'[net'[k].hc].conn = k /\ ~hcs'[net'[k].hc].closed /\ hcs'[net'[k].hc].handlers = <<net'[k].wire[1]>>
    BY <1>3, <2>1 DEF Waited
  <2>3. ~Answered(k)'
    BY <1>3, <1>5, <2>1, AnsweredIs, AnsweredIsNext
  <2> QED BY <1>3, <2>1, <2>2, <2>3 DEF WaitedNext
<1> QED BY <1>5, <1>6, <1>7, AnswerOfNext, Zenon

LEMMA AnswerInvIs ==
  AnswerInv <=> cliClosed \/ crossed \/ \A k \in 1 .. Len(net) : net[k].hc # Own => AnswerOf(k)
  BY DEF AnswerInv, AnswerOf

\* What a step that frees h, or only takes from the connections, leaves alone.
SameCounts ==
  /\ connNum' = connNum /\ cliClosed' = cliClosed /\ closing' \subseteq closing
  /\ crossed' \in BOOLEAN /\ (crossed => crossed')

\* The outcome of the requests in D.
OutcomeOf(D) == \A r \in D : req'[r].got \in {<<>>, <<"error">>, <<"response", r>>}

LEMMA FreedTypes ==
  ASSUME ClientTypeOK, UserInv, NEW h \in 0 .. Made, NEW D, Freed(h, D), OnlyHc(h), NetLess, SameCounts
  PROVE  ClientTypeOK' /\ Made' = Made /\ UserInv'
<1>1. DOMAIN hcs' = DOMAIN hcs
  BY DEF OnlyHc, ClientTypeOK
<1>2. Made' = Made /\ Made \in Nat
  BY <1>1, MadeSame DEF ClientTypeOK
<1>3. chConnss' \in Seq(1 .. Made) /\ UserInv' /\ \A r \in Reqs : req'[r].hc \in 0 .. Made
  BY <1>2, FreedUsers
<1>4. cliClosed' \in BOOLEAN /\ crossed' \in BOOLEAN
  BY Zenon DEF SameCounts, ClientTypeOK
<1>5. connNum' \in Int /\ closing' \subseteq 1 .. Made /\ (closing' # {} => cliClosed')
  BY DEF SameCounts, ClientTypeOK
<1>6. hcs' \in [0 .. Made -> HcRecord] /\ req' \in [Reqs -> ReqRecord]
  BY DEF OnlyHc, Freed
<1>7. net' \in Seq(NetRecord) /\ Len(net') = Len(net) /\ \A k \in 1 .. Len(net') : net'[k].hc \in 0 .. Made
  BY DEF NetLess, ClientTypeOK
<1>8. ASSUME NEW g \in 0 .. Made, hcs'[g].conn # NoConn
      PROVE  hcs'[g].conn \in 1 .. Len(net') /\ net'[hcs'[g].conn].hc = g
  <2>1. hcs'[g].conn = hcs[g].conn
    BY <1>8 DEF OnlyHc
  <2>2. hcs[g].conn \in 1 .. Len(net) /\ net[hcs[g].conn].hc = g
    BY <1>8, <2>1 DEF ClientTypeOK
  <2>3. \A k \in 1 .. Len(net) : net'[k].hc = net[k].hc
    BY DEF NetLess
  <2> QED BY <1>7, <2>1, <2>2, <2>3
<1>9. ClientTypeOK'
  BY <1>2, <1>3, <1>4, <1>5, <1>6, <1>7, <1>8, Zenon DEF ClientTypeOK
<1> QED BY <1>2, <1>3, <1>9

LEMMA FreedKeeps ==
  ASSUME CInv, NEW h \in 0 .. Made, NEW D, Freed(h, D), OnlyHc(h), HandlersLeft(h, D), NetLess, SameCounts,
         cliClosed \/ crossed' \/ h = Own \/ (NoAnswer(h) /\ OutcomeOf(D))
  PROVE  CInv'
<1>1. ClientTypeOK /\ CallsInv /\ UserInv /\ HandlersInv /\ CountInv /\ NetInv /\ AnswerInv /\ GotInv
  BY DEF CInv
<1>2. ClientTypeOK' /\ Made' = Made /\ UserInv'
  BY <1>1, FreedTypes
<1>3. CallsInv'
  BY <1>1 DEF CallsInv, Freed
<1>4. HandlersInv'
  <2> SUFFICES ASSUME NEW g \in 0 .. Made
               PROVE  /\ \A i \in 1 .. Len(hcs'[g].handlers) :
                           req'[hcs'[g].handlers[i]].at = "sent" /\ req'[hcs'[g].handlers[i]].hc = g
                      /\ \A i, j \in 1 .. Len(hcs'[g].handlers) : hcs'[g].handlers[i] = hcs'[g].handlers[j] => i = j
    BY <1>2 DEF HandlersInv
  <2>1. CASE g = h
    BY <2>1 DEF HandlersLeft, Freed
  <2>2. CASE g # h
    <3>1. hcs'[g] = hcs[g]
      BY <2>2 DEF OnlyHc
    <3>2. ASSUME NEW i \in 1 .. Len(hcs[g].handlers)
          PROVE  req'[hcs[g].handlers[i]].at = "sent" /\ req'[hcs[g].handlers[i]].hc = g
      <4>1. hcs[g].handlers[i] \in Reqs
        BY <1>1, HcFacts
      <4>2. req[hcs[g].handlers[i]].at = "sent" /\ req[hcs[g].handlers[i]].hc = g
        BY <1>1 DEF HandlersInv
      <4> QED BY <2>2, <4>1, <4>2 DEF Freed
    <3> QED BY <1>1, <3>1, <3>2 DEF HandlersInv
  <2> QED BY <2>1, <2>2
<1>5. CountInv'
  <2>1. Over' = Over
    BY DEF Over, Freed
  <2> QED BY <1>1, <1>2, <2>1 DEF CountInv, SameCounts
<1>6. NetInv'
  BY <1>1, NetLessInv
<1>7. cliClosed' \/ crossed' \/ (~cliClosed /\ ~crossed)
  BY Zenon DEF SameCounts
<1>8. AnswerInv'
  <2>1. ASSUME ~cliClosed, ~crossed, ~crossed', NEW k \in 1 .. Len(net'), net'[k].hc # Own
        PROVE  AnswerOf(k)'
    <3>1. Len(net') = Len(net) /\ net'[k].hc = net[k].hc /\ net'[k].wire = net[k].wire
      BY <2>1 DEF NetLess
    <3>2. net[k].hc \in 0 .. Made
      BY <1>1, <3>1, NetFacts
    <3>3. CASE net[k].hc # h
      <4>1. AnswerOf(k)
        BY <1>1, <2>1, <3>1, AnswerInvIs
      <4> QED BY <1>1, <3>1, <3>2, <3>3, <4>1, AnswerOfLess DEF OnlyHc
    <3>4. CASE net[k].hc = h
      <4>1. /\ \A i \in 1 .. Len(net'[k].jobs) : net'[k].jobs[i][1] # "response"
            /\ net'[k].open => net'[k].wire = <<>>
        BY <2>1, <3>1, <3>4 DEF NoAnswer
      <4> QED BY <4>1, AnswerOfNext
    <3> QED BY <3>3, <3>4
  <2> QED BY <1>7, <2>1 DEF AnswerInv, AnswerOf
<1>9. GotInv'
  <2>1. ASSUME ~cliClosed, ~crossed, ~crossed', NEW r \in Reqs, req'[r].hc # Own
        PROVE  req'[r].got \in {<<>>, <<"error">>, <<"response", r>>}
    <3>1. CASE r \in D
      BY <2>1, <3>1 DEF Freed, OutcomeOf
    <3>2. CASE r \notin D
      BY <1>1, <2>1, <3>2 DEF Freed, GotInv, Pooled
    <3> QED BY <3>1, <3>2
  <2> QED BY <1>7, <2>1 DEF GotInv, Pooled
<1> QED BY <1>2, <1>3, <1>4, <1>5, <1>6, <1>8, <1>9 DEF CInv

\* Different requests under way on h.
UnderWay(h, rs) ==
  /\ rs \in Seq(Reqs)
  /\ \A i \in 1 .. Len(rs) : req[rs[i]].hc = h /\ req[rs[i]].at \in {"do", "sent"}
  /\ \A i, j \in 1 .. Len(rs) : rs[i] = rs[j] => i = j

LEMMA UnderWayPool ==
  ASSUME ClientTypeOK, UserInv, NEW h \in 0 .. Made, h # Own, NEW rs, UnderWay(h, rs)
  PROVE  Len(rs) \in {0, 1}
<1>1. Len(rs) \in Nat /\ \A i \in 1 .. Len(rs) : rs[i] \in Reqs
  BY SeqFacts DEF UnderWay
<1>2. ASSUME Len(rs) > 1 PROVE FALSE
  <2>1. 1 \in 1 .. Len(rs) /\ 2 \in 1 .. Len(rs)
    BY <1>1, <1>2
  <2>2. Uses(rs[1], h) /\ Uses(rs[2], h)
    BY <2>1 DEF UnderWay, Uses
  <2>3. rs[1] = rs[2]
    BY <1>1, <2>1, <2>2, OneUser
  <2> QED BY <2>1, <2>3 DEF UnderWay
<1>3. \A n \in Nat : ~(n > 1) => n \in {0, 1}
  OBVIOUS
<1> QED BY <1>1, <1>2, <1>3, Zenon

LEMMA GivenBack ==
  ASSUME NEW S, NEW s \in Seq(S), NEW h \in S
  PROVE  s \o [k \in 1 .. 0 |-> h] = s /\ s \o [k \in 1 .. 1 |-> h] = Append(s, h)
<1>1. Len(s) \in Nat /\ DOMAIN s = 1 .. Len(s)
  BY SeqFacts
<1>2. [k \in 1 .. 0 |-> h] \in Seq(S) /\ Len([k \in 1 .. 0 |-> h]) = 0
  BY FunctionSeq
<1>3. [k \in 1 .. 1 |-> h] \in Seq(S) /\ Len([k \in 1 .. 1 |-> h]) = 1
  BY FunctionSeq
<1>4. s \o [k \in 1 .. 0 |-> h] = s
  <2> DEFINE t == s \o [k \in 1 .. 0 |-> h]
  <2>1. t \in Seq(S) /\ Len(t) = Len(s) /\ \A i \in 1 .. Len(s) : t[i] = s[i]
    BY <1>1, <1>2, ConcatSeq
  <2> HIDE DEF t
  <2> QED BY <2>1, SeqEqual
<1>5. s \o [k \in 1 .. 1 |-> h] = Append(s, h)
  <2> DEFINE t == s \o [k \in 1 .. 1 |-> h]  u == Append(s, h)  o == [k \in 1 .. 1 |-> h]
  <2>1. t \in Seq(S) /\ Len(t) = Len(s) + 1 /\ \A i \in 1 .. Len(s) : t[i] = s[i]
    BY <1>1, <1>3, ConcatSeq
  <2>2. t[Len(s) + 1] = h
    <3>1. 1 \in 1 .. Len(o) /\ o[1] = h
      BY <1>3
    <3> QED BY <1>1, <1>3, <3>1, ConcatSeq
  <2>3. u \in Seq(S) /\ Len(u) = Len(s) + 1 /\ (\A i \in 1 .. Len(s) : u[i] = s[i]) /\ u[Len(s) + 1] = h
    BY AppendSeq
  <2> HIDE DEF t, u
  <2>4. \A i \in 1 .. Len(t) : t[i] = u[i]
    BY <1>1, <2>1, <2>2, <2>3
  <2> QED BY <2>1, <2>3, <2>4, SeqEqual
<1> QED BY <1>4, <1>5

LEMMA CallFrees ==
  ASSUME ClientTypeOK, UserInv, NEW h \in 0 .. Made, NEW rs, UnderWay(h, rs), NEW got \in Outcomes, Call(h, rs, got)
  PROVE  Freed(h, ToSet(rs)) /\ \A r \in ToSet(rs) : r \in Reqs /\ req'[r].got = got
<1> DEFINE D == ToSet(rs)
<1>1. Len(rs) \in Nat /\ DOMAIN rs = 1 .. Len(rs) /\ rs \in Seq(Reqs) /\ \A i \in 1 .. Len(rs) : rs[i] \in Reqs
  BY SeqFacts DEF UnderWay
<1>2. D = {rs[i] : i \in 1 .. Len(rs)}
  BY <1>1 DEF ToSet
<1>3. \A r \in D : r \in Reqs /\ req[r].hc = h /\ req[r].at \in {"do", "sent"}
  BY <1>1, <1>2 DEF UnderWay
<1>4. req' = [r \in Reqs |-> IF r \in D THEN [req[r] EXCEPT !.at = "done", !.calls = @ + 1, !.got = got] ELSE req[r]]
  BY DEF Call
<1>5. D = {} <=> Len(rs) = 0
  BY <1>1, <1>2
<1> HIDE DEF D
<1>6. ASSUME NEW r \in Reqs, r \in D
      PROVE  /\ req'[r] = [req[r] EXCEPT !.at = "done", !.calls = @ + 1, !.got = got]
             /\ req'[r] \in ReqRecord /\ req'[r].at = "done" /\ req'[r].hc = h /\ req'[r].calls = req[r].calls + 1
             /\ req'[r].got = got
  <2>1. req'[r] = [req[r] EXCEPT !.at = "done", !.calls = @ + 1, !.got = got]
    BY <1>4, <1>6
  <2>2. req[r] \in ReqRecord /\ req[r].hc = h /\ req[r].calls \in Nat
    BY <1>3, <1>6, ReqFacts
  <2>3. req[r].calls + 1 \in Nat
    BY <2>2
  <2>4. req'[r] \in ReqRecord
    BY <2>1, <2>2, <2>3 DEF ReqRecord
  <2>5. req'[r].at = "done" /\ req'[r].hc = h /\ req'[r].calls = req[r].calls + 1 /\ req'[r].got = got
    BY <2>1, <2>2, <2>3 DEF ReqRecord
  <2> QED BY <2>1, <2>4, <2>5
<1>7. ASSUME NEW r \in Reqs, r \notin D PROVE req'[r] = req[r] /\ req'[r] \in ReqRecord
  BY <1>4, <1>7, ReqFacts
<1>8. req' \in [Reqs -> ReqRecord]
  <2>1. req' = [r \in Reqs |-> req'[r]]
    BY <1>4
  <2> QED BY <1>6, <1>7, <2>1
<1>9. chConnss' = IF h = Own \/ D = {} THEN chConnss ELSE Append(chConnss, h)
  <2>1. chConnss' = IF h = Own THEN chConnss ELSE chConnss \o [k \in 1 .. Len(rs) |-> h]
    BY DEF Call
  <2>2. CASE h = Own
    BY <2>1, <2>2
  <2>3. CASE h # Own
    <3>1. Len(rs) \in {0, 1}
      BY <2>3, UnderWayPool
    <3>2. chConnss \in Seq(1 .. Made) /\ h \in 1 .. Made
      BY <2>3, HcFacts DEF Own
    <3>3. chConnss \o [k \in 1 .. 0 |-> h] = chConnss /\ chConnss \o [k \in 1 .. 1 |-> h] = Append(chConnss, h)
      BY <3>2, GivenBack
    <3> QED BY <1>5, <2>1, <2>3, <3>1, <3>3
  <2> QED BY <2>2, <2>3
<1>10. Freed(h, D)
  BY <1>3, <1>6, <1>7, <1>8, <1>9, Zenon DEF Freed
<1> QED BY <1>3, <1>6, <1>10 DEF D

LEMMA NetSeq ==
  ASSUME ClientTypeOK, net' \in [1 .. Len(net) -> NetRecord]
  PROVE  net' \in Seq(NetRecord) /\ Len(net') = Len(net)
<1>1. Len(net) \in Nat
  BY NetFacts
<1> QED BY <1>1, FunctionSeq

\* A connection is closed.
LEMMA NetShut ==
  ASSUME ClientTypeOK, NEW k \in 1 .. Len(net), net' = [net EXCEPT ![k].open = FALSE]
  PROVE  NetLess /\ ~net'[k].open /\ \A j \in 1 .. Len(net) : net'[j].jobs = net[j].jobs
<1>1. /\ \A j \in 1 .. Len(net) : net[j] \in NetRecord
      /\ net \in Seq(NetRecord) /\ DOMAIN net = 1 .. Len(net)
  BY NetFacts DEF ClientTypeOK
<1>2. net \in [1 .. Len(net) -> NetRecord]
  BY <1>1, SeqFacts
<1>3. \A j \in 1 .. Len(net) : j # k => net'[j] = net[j]
  BY <1>2
<1>4. net'[k] = [net[k] EXCEPT !.open = FALSE]
  BY <1>2
<1>5. net'[k] \in NetRecord
  BY <1>1, <1>4 DEF NetRecord
<1>6. /\ net'[k].hc = net[k].hc /\ net'[k].wire = net[k].wire /\ net'[k].junk = net[k].junk
      /\ net'[k].jobs = net[k].jobs
  BY <1>1, <1>4 DEF NetRecord
<1>7. (net'[k].notified <=> net[k].notified) /\ ~net'[k].open
  BY <1>1, <1>4 DEF NetRecord
<1>8. net' \in [1 .. Len(net) -> NetRecord]
  BY <1>1, <1>2, <1>3, <1>5
<1>9. net' \in Seq(NetRecord) /\ Len(net') = Len(net)
  BY <1>8, NetSeq
<1>10. NetLess
  BY <1>3, <1>6, <1>7, <1>9 DEF NetLess
<1> QED BY <1>3, <1>6, <1>7, <1>10

\* The first job of a connection is taken.
LEMMA NetTakes ==
  ASSUME ClientTypeOK, NEW k \in 1 .. Len(net), net[k].jobs # <<>>, net' = [net EXCEPT ![k].jobs = Tail(@)]
  PROVE  /\ NetLess /\ net'[k].jobs = Tail(net[k].jobs)
         /\ \A j \in 1 .. Len(net) : j # k => net'[j] = net[j]
         /\ net'[k].open <=> net[k].open
<1>1. /\ \A j \in 1 .. Len(net) : net[j] \in NetRecord
      /\ net \in Seq(NetRecord) /\ DOMAIN net = 1 .. Len(net) /\ net[k].jobs \in Seq(Jobs)
  BY NetFacts DEF ClientTypeOK
<1>2. net \in [1 .. Len(net) -> NetRecord]
  BY <1>1, SeqFacts
<1>3. \A j \in 1 .. Len(net) : j # k => net'[j] = net[j]
  BY <1>2
<1>4. net'[k] = [net[k] EXCEPT !.jobs = Tail(net[k].jobs)] /\ Tail(net[k].jobs) \in Seq(Jobs)
  BY <1>1, <1>2, TailSeq
<1>5. net'[k] \in NetRecord
  BY <1>1, <1>4 DEF NetRecord
<1>6. /\ net'[k].hc = net[k].hc /\ net'[k].wire = net[k].wire /\ net'[k].junk = net[k].junk
      /\ net'[k].jobs = Tail(net[k].jobs)
  BY <1>1, <1>4 DEF NetRecord
<1>7. (net'[k].notified <=> net[k].notified) /\ (net'[k].open <=> net[k].open)
  BY <1>1, <1>4 DEF NetRecord
<1>8. net' \in [1 .. Len(net) -> NetRecord]
  BY <1>1, <1>2, <1>3, <1>5
<1>9. net' \in Seq(NetRecord) /\ Len(net') = Len(net)
  BY <1>8, NetSeq
<1>10. NetLess
  BY <1>3, <1>6, <1>7, <1>9 DEF NetLess
<1> QED BY <1>3, <1>6, <1>7, <1>10

LEMMA CloseWithErrorEffect ==
  ASSUME ClientTypeOK, UserInv, NEW h \in 0 .. Made, NEW rs, UnderWay(h, rs), NEW c \in BOOLEAN,
         closeWithErrorWithoutLock(h, rs, c)
  PROVE  /\ Freed(h, ToSet(rs)) /\ OnlyHc(h) /\ HandlersLeft(h, ToSet(rs)) /\ NetLess /\ OutcomeOf(ToSet(rs))
         /\ hcs[h].conn # NoConn => ~net'[hcs[h].conn].open
         /\ \A k \in 1 .. Len(net) : net'[k].jobs = net[k].jobs
<1>1. Freed(h, ToSet(rs)) /\ OutcomeOf(ToSet(rs))
  <2>1. Call(h, rs, <<"error">>)
    BY DEF closeWithErrorWithoutLock
  <2>2. Freed(h, ToSet(rs)) /\ \A r \in ToSet(rs) : r \in Reqs /\ req'[r].got = <<"error">>
    BY <2>1, OutcomeFacts, CallFrees
  <2> QED BY <2>2 DEF OutcomeOf
<1>2. /\ hcs' = [hcs EXCEPT ![h] = [Fresh EXCEPT !.closed = c]]
      /\ net' = IF hcs[h].conn = NoConn THEN net ELSE [net EXCEPT ![hcs[h].conn].open = FALSE]
  BY DEF closeWithErrorWithoutLock
<1>3. hcs \in [0 .. Made -> HcRecord]
  BY DEF ClientTypeOK
<1>4. /\ [Fresh EXCEPT !.closed = c] \in HcRecord
      /\ [Fresh EXCEPT !.closed = c].conn = NoConn /\ [Fresh EXCEPT !.closed = c].handlers = <<>>
  BY EmptySeq DEF Fresh, NoConn, HcRecord
<1>5. hcs'[h] = [Fresh EXCEPT !.closed = c]
  BY <1>2, <1>3
<1>6. OnlyHc(h)
  BY <1>2, <1>3, <1>4 DEF OnlyHc
<1>7. HandlersLeft(h, ToSet(rs))
  <2>1. hcs'[h].handlers = <<>> /\ Len(<<>>) = 0
    BY <1>4, <1>5
  <2>2. 1 .. Len(hcs'[h].handlers) = {}
    BY <2>1
  <2> QED BY <2>2, Zenon DEF HandlersLeft
<1>8. CASE hcs[h].conn = NoConn
  <2>1. net' = net
    BY <1>2, <1>8
  <2>2. NetLess
    BY <2>1 DEF NetLess, ClientTypeOK
  <2> QED BY <1>1, <1>6, <1>7, <1>8, <2>1, <2>2
<1>9. CASE hcs[h].conn # NoConn
  <2>1. hcs[h].conn \in 1 .. Len(net)
    BY <1>9 DEF ClientTypeOK
  <2>2. net' = [net EXCEPT ![hcs[h].conn].open = FALSE]
    BY <1>2, <1>9
  <2>3. NetLess /\ ~net'[hcs[h].conn].open /\ \A j \in 1 .. Len(net) : net'[j].jobs = net[j].jobs
    BY <2>1, <2>2, NetShut
  <2> QED BY <1>1, <1>6, <1>7, <2>3
<1> QED BY <1>8, <1>9

\* Steps that only take from the connections.
LEMMA LessKeeps ==
  ASSUME CInv, NetLess, SameCounts, req' = req, hcs' = hcs, chConnss' = chConnss
  PROVE  CInv'
<1>1. ClientTypeOK /\ HandlersInv
  BY DEF CInv
<1>2. Own \in 0 .. Made /\ DOMAIN hcs = 0 .. Made /\ \A i \in 1 .. Len(hcs[Own].handlers) : hcs[Own].handlers[i] \in Reqs
  BY <1>1, HcFacts
<1>3. Freed(Own, {})
  BY <1>1 DEF Freed, ClientTypeOK
<1>4. OnlyHc(Own)
  BY <1>1 DEF OnlyHc, ClientTypeOK
<1>5. HandlersLeft(Own, {})
  BY <1>1, <1>2 DEF HandlersLeft, HandlersInv
<1> QED BY <1>2, <1>3, <1>4, <1>5, FreedKeeps

LEMMA HandlerFacts ==
  ASSUME ClientTypeOK, HandlersInv, NEW h \in 0 .. Made
  PROVE  /\ hcs[h].handlers \in Seq(Reqs) /\ Len(hcs[h].handlers) \in Nat
         /\ \A i \in 1 .. Len(hcs[h].handlers) :
              /\ hcs[h].handlers[i] \in Reqs
              /\ req[hcs[h].handlers[i]].at = "sent" /\ req[hcs[h].handlers[i]].hc = h
         /\ \A i, j \in 1 .. Len(hcs[h].handlers) : hcs[h].handlers[i] = hcs[h].handlers[j] => i = j
<1>1. /\ hcs[h].handlers \in Seq(Reqs) /\ Len(hcs[h].handlers) \in Nat
      /\ \A i \in 1 .. Len(hcs[h].handlers) : hcs[h].handlers[i] \in Reqs
  BY HcFacts, Zenon
<1>2. /\ \A i \in 1 .. Len(hcs[h].handlers) :
           req[hcs[h].handlers[i]].at = "sent" /\ req[hcs[h].handlers[i]].hc = h
      /\ \A i, j \in 1 .. Len(hcs[h].handlers) : hcs[h].handlers[i] = hcs[h].handlers[j] => i = j
  BY Zenon DEF HandlersInv
<1> QED BY <1>1, <1>2, Zenon

LEMMA HandlersUnderWay ==
  ASSUME ClientTypeOK, HandlersInv, NEW h \in 0 .. Made
  PROVE  UnderWay(h, hcs[h].handlers)
<1>1. /\ hcs[h].handlers \in Seq(Reqs)
      /\ \A i \in 1 .. Len(hcs[h].handlers) :
           req[hcs[h].handlers[i]].at = "sent" /\ req[hcs[h].handlers[i]].hc = h
      /\ \A i, j \in 1 .. Len(hcs[h].handlers) : hcs[h].handlers[i] = hcs[h].handlers[j] => i = j
  BY HandlerFacts
<1> QED BY <1>1 DEF UnderWay

LEMMA MoreUnderWay ==
  ASSUME ClientTypeOK, HandlersInv, NEW r \in Reqs, req[r].at = "do"
  PROVE  UnderWay(req[r].hc, Append(hcs[req[r].hc].handlers, r))
<1> DEFINE h == req[r].hc  s == hcs[h].handlers  t == Append(s, r)
<1>1. h \in 0 .. Made
  BY ReqFacts
<1>2. s \in Seq(Reqs) /\ Len(s) \in Nat
  BY <1>1, HcFacts
<1>3. /\ \A i \in 1 .. Len(s) : req[s[i]].at = "sent" /\ req[s[i]].hc = h
      /\ \A i, j \in 1 .. Len(s) : s[i] = s[j] => i = j
  BY <1>1 DEF HandlersInv
<1>4. t \in Seq(Reqs) /\ Len(t) = Len(s) + 1 /\ (\A i \in 1 .. Len(s) : t[i] = s[i]) /\ t[Len(s) + 1] = r
  <2> HIDE DEF h, s
  <2> QED BY <1>2, AppendSeq
<1>5. req[r].hc = h
  OBVIOUS
<1> HIDE DEF h, s, t
<1>6. \A i \in 1 .. Len(t) : i \in 1 .. Len(s) \/ i = Len(s) + 1
  BY <1>2, <1>4
<1>7. \A i \in 1 .. Len(t) : req[t[i]].hc = h /\ req[t[i]].at \in {"do", "sent"}
  BY <1>3, <1>4, <1>5, <1>6
<1>8. \A i \in 1 .. Len(s) : t[i] # r
  BY <1>3, <1>4
<1>9. \A i, j \in 1 .. Len(t) : t[i] = t[j] => i = j
  BY <1>3, <1>4, <1>6, <1>8
<1>10. UnderWay(h, t)
  BY <1>4, <1>7, <1>9 DEF UnderWay
<1> QED BY <1>10 DEF h, s, t

\* When a request that is not sent yet has h, no response can come on h.
LEMMA NothingComes ==
  ASSUME CInv, ~cliClosed, ~crossed, NEW h \in 0 .. Made, h # Own, NEW r \in Reqs, Uses(r, h), req[r].at # "sent"
  PROVE  \A k \in 1 .. Len(net) : net[k].hc = h =>
           (\A i \in 1 .. Len(net[k].jobs) : net[k].jobs[i][1] # "response") /\ (net[k].open => net[k].wire = <<>>)
<1>1. ClientTypeOK /\ UserInv /\ HandlersInv /\ AnswerInv
  BY DEF CInv
<1> SUFFICES ASSUME NEW k \in 1 .. Len(net), net[k].hc = h
             PROVE  (\A i \in 1 .. Len(net[k].jobs) : net[k].jobs[i][1] # "response") /\ (net[k].open => net[k].wire = <<>>)
  OBVIOUS
<1>2. AnswerOf(k)
  BY <1>1, AnswerInvIs
<1>3. \A q : ~Waited(k, q)
  <2> SUFFICES ASSUME NEW q, hcs[h].handlers = <<q>> PROVE FALSE
    BY DEF Waited
  <2>1. Len(<<q>>) = 1 /\ <<q>>[1] = q
    OBVIOUS
  <2>2. 1 \in 1 .. Len(hcs[h].handlers) /\ hcs[h].handlers[1] = q
    BY <2>1
  <2>3. q \in Reqs /\ req[q].at = "sent" /\ req[q].hc = h
    BY <1>1, <2>2, HandlerFacts
  <2>4. r = q
    BY <1>1, <2>3, OneUser DEF Uses
  <2> QED BY <2>3, <2>4
<1> QED BY <1>2, <1>3 DEF AnswerOf

LEMMA CloseHcKeeps ==
  ASSUME CInv, NEW h \in closing, CloseHc(h)
  PROVE  CInv'
<1>1. ClientTypeOK /\ UserInv /\ HandlersInv
  BY DEF CInv
<1>2. /\ HcCloseWithError(h) /\ closing' = closing \ {h}
      /\ cliClosed' = cliClosed /\ crossed' = crossed /\ connNum' = connNum
  BY DEF CloseHc
<1>3. h \in 0 .. Made /\ cliClosed
  BY <1>1 DEF ClientTypeOK
<1>4. SameCounts
  <2>1. crossed' \in BOOLEAN
    BY <1>1, <1>2 DEF ClientTypeOK
  <2> QED BY <1>2, <2>1 DEF SameCounts
<1>5. CASE hcs[h].closed
  <2>1. req' = req /\ hcs' = hcs /\ chConnss' = chConnss /\ net' = net
    BY <1>2, <1>5 DEF HcCloseWithError
  <2>2. NetLess
    BY <1>1, <2>1 DEF NetLess, ClientTypeOK
  <2> QED BY <1>4, <2>1, <2>2, LessKeeps
<1>6. CASE ~hcs[h].closed
  <2>1. closeWithErrorWithoutLock(h, hcs[h].handlers, TRUE)
    BY <1>2, <1>6 DEF HcCloseWithError
  <2>2. UnderWay(h, hcs[h].handlers)
    BY <1>1, <1>3, HandlersUnderWay
  <2> QED BY <1>1, <1>3, <1>4, <2>1, <2>2, CloseWithErrorEffect, FreedKeeps
<1> QED BY <1>5, <1>6

\* ClientConn.Do that fails.
LEMMA DoFails ==
  ASSUME CInv, NEW r \in Reqs, req[r].at = "do",
         closeWithErrorWithoutLock(req[r].hc, Append(hcs[req[r].hc].handlers, r), FALSE),
         UNCHANGED <<cliClosed, crossed, closing, connNum>>
  PROVE  CInv'
<1> DEFINE h == req[r].hc  rs == Append(hcs[h].handlers, r)
<1>1. ClientTypeOK /\ UserInv /\ HandlersInv
  BY DEF CInv
<1>2. h \in 0 .. Made /\ UnderWay(h, rs)
  BY <1>1, MoreUnderWay, ReqFacts
<1>3. closeWithErrorWithoutLock(h, rs, FALSE)
  OBVIOUS
<1>4. SameCounts
  BY <1>1 DEF SameCounts, ClientTypeOK
<1>5. Uses(r, h)
  BY DEF Uses
<1> HIDE DEF h, rs
<1>6. /\ Freed(h, ToSet(rs)) /\ OnlyHc(h) /\ HandlersLeft(h, ToSet(rs)) /\ NetLess /\ OutcomeOf(ToSet(rs))
      /\ \A k \in 1 .. Len(net) : net'[k].jobs = net[k].jobs
  BY <1>1, <1>2, <1>3, CloseWithErrorEffect
<1>7. ~cliClosed /\ ~crossed /\ h # Own => NoAnswer(h)
  BY <1>2, <1>5, <1>6, NothingComes DEF NoAnswer, NetLess
<1> QED BY <1>2, <1>4, <1>6, <1>7, FreedKeeps

-----------------------------------------------------------------------------
(* Steps of one request.                                                   *)

\* r moves to a, and nothing else of it changes.
Moves(r, a) ==
  /\ req' \in [Reqs -> ReqRecord]
  /\ \A q \in Reqs : q # r => req'[q] = req[q]
  /\ req'[r].at = a /\ req'[r].hc = req[r].hc /\ req'[r].calls = req[r].calls /\ req'[r].got = req[r].got

LEMMA AtMoves ==
  ASSUME ClientTypeOK, NEW r \in Reqs, NEW a \in {"get", "count", "over", "wait", "do", "sent"}, At(r, a)
  PROVE  Moves(r, a)
<1>1. req \in [Reqs -> ReqRecord] /\ req' = [req EXCEPT ![r].at = a]
  BY DEF ClientTypeOK, At
<1>2. req'[r] = [req[r] EXCEPT !.at = a] /\ req[r] \in ReqRecord /\ \A q \in Reqs : q # r => req'[q] = req[q]
  BY <1>1
<1>3. req'[r] \in ReqRecord
  BY <1>2 DEF ReqRecord
<1>4. req'[r].at = a /\ req'[r].hc = req[r].hc /\ req'[r].calls = req[r].calls /\ req'[r].got = req[r].got
  BY <1>2 DEF ReqRecord
<1>5. req' \in [Reqs -> ReqRecord]
  BY <1>1, <1>2, <1>3
<1> QED BY <1>2, <1>4, <1>5 DEF Moves

\* r starts or goes on using its ClientConn.
LEMMA MovesUsers ==
  ASSUME ClientTypeOK, UserInv, NEW r \in Reqs, NEW a \in {"do", "sent"}, Moves(r, a),
         req[r].at \in {"reset", "do"}, chConnss' = chConnss, Made' = Made
  PROVE  UserInv' /\ \A q \in Reqs : req'[q].hc \in 0 .. Made
<1>1. \A q \in Reqs : req'[q].hc = req[q].hc
  BY DEF Moves
<1>2. \A q \in Reqs : q # r => req'[q] = req[q]
  BY DEF Moves
<1>3. \A q \in Reqs : UsesNext(q, req[q].hc) <=> Uses(q, req[q].hc)
  BY <1>1, <1>2 DEF Moves, Uses, UsesNext
<1>4. \A q \in Reqs : \A g : UsesNext(q, g) <=> Uses(q, g)
  BY <1>1, <1>3 DEF Uses, UsesNext
<1>5. \A q \in Reqs : req'[q].at \in {"new", "get", "count", "over", "wait"} => req'[q].hc = Own
  BY <1>1, <1>2 DEF UserInv, Moves
<1>6. \A q \in Reqs : req'[q].at = "reset" => req'[q].hc # Own
  BY <1>1, <1>2 DEF UserInv, Moves
<1>7. \A q, p \in Reqs : UsesNext(q, req'[q].hc) /\ UsesNext(p, req'[q].hc) /\ req'[q].hc # Own => q = p
  BY <1>1, <1>4 DEF UserInv
<1>8. \A q \in Reqs, i \in 1 .. Len(chConnss) : ~UsesNext(q, chConnss[i])
  BY <1>4 DEF UserInv
<1>9. \A g \in 1 .. Made : (\E q \in Reqs : UsesNext(q, g)) \/ \E i \in 1 .. Len(chConnss) : chConnss[i] = g
  BY <1>4 DEF UserInv
<1>10. \A i, j \in 1 .. Len(chConnss) : chConnss[i] = chConnss[j] => i = j
  BY DEF UserInv
<1>11. UserInv'
  BY <1>5, <1>6, <1>7, <1>8, <1>9, <1>10 DEF UserInv, Uses, UsesNext
<1> QED BY <1>1, <1>11, ReqFacts

\* ClientConn.Do has sent r on h.
LEMMA SentEffect ==
  ASSUME CInv, NEW r \in Reqs, NEW h, req[r].hc = h, req[r].at = "do", Moves(r, "sent"),
         hcs' \in [0 .. Made -> HcRecord], \A g \in 0 .. Made : g # h => hcs'[g] = hcs[g],
         hcs'[h].handlers = Append(hcs[h].handlers, r),
         UNCHANGED <<cliClosed, crossed, closing, connNum, chConnss>>
  PROVE  /\ CallsInv' /\ UserInv' /\ HandlersInv' /\ CountInv' /\ GotInv' /\ Made' = Made
         /\ \A q \in Reqs : req'[q].hc \in 0 .. Made
<1>1. ClientTypeOK /\ CallsInv /\ UserInv /\ HandlersInv /\ CountInv /\ GotInv
  BY DEF CInv
<1>2. h \in 0 .. Made
  BY <1>1, ReqFacts
<1>3. Made' = Made
  BY <1>1, MadeSame DEF ClientTypeOK
<1>4. UserInv' /\ \A q \in Reqs : req'[q].hc \in 0 .. Made
  BY <1>1, <1>3, MovesUsers
<1>5. CallsInv'
  BY <1>1 DEF CallsInv, Moves
<1>6. Over' = Over
  BY DEF Over, Moves
<1>7. CountInv'
  BY <1>1, <1>3, <1>6 DEF CountInv
<1>8. GotInv'
  BY <1>1 DEF GotInv, Pooled, Moves
<1>9. ASSUME NEW g \in 0 .. Made
      PROVE  /\ \A i \in 1 .. Len(hcs'[g].handlers) :
                  req'[hcs'[g].handlers[i]].at = "sent" /\ req'[hcs'[g].handlers[i]].hc = g
             /\ \A i, j \in 1 .. Len(hcs'[g].handlers) : hcs'[g].handlers[i] = hcs'[g].handlers[j] => i = j
  <2>1. CASE g # h
    <3>1. hcs'[g] = hcs[g]
      BY <2>1
    <3>2. /\ \A i \in 1 .. Len(hcs[g].handlers) :
               /\ hcs[g].handlers[i] \in Reqs
               /\ req[hcs[g].handlers[i]].at = "sent" /\ req[hcs[g].handlers[i]].hc = g
          /\ \A i, j \in 1 .. Len(hcs[g].handlers) : hcs[g].handlers[i] = hcs[g].handlers[j] => i = j
      BY <1>1, HandlerFacts
    <3>3. ASSUME NEW i \in 1 .. Len(hcs[g].handlers) PROVE req'[hcs[g].handlers[i]] = req[hcs[g].handlers[i]]
      <4>1. hcs[g].handlers[i] \in Reqs /\ hcs[g].handlers[i] # r
        BY <2>1, <3>2
      <4> QED BY <4>1 DEF Moves
    <3> QED BY <3>1, <3>2, <3>3
  <2>2. CASE g = h
    <3> DEFINE t == hcs'[h].handlers
    <3>1. UnderWay(h, t)
      BY <1>1, MoreUnderWay
    <3>2. hcs[h].handlers \in Seq(Reqs) /\ Len(hcs[h].handlers) \in Nat
      BY <1>1, <1>2, HcFacts
    <3>3. Len(t) = Len(hcs[h].handlers) + 1 /\ (\A i \in 1 .. Len(hcs[h].handlers) : t[i] = hcs[h].handlers[i])
          /\ t[Len(hcs[h].handlers) + 1] = r
      BY <3>2, AppendSeq
    <3>4. \A i \in 1 .. Len(hcs[h].handlers) : hcs[h].handlers[i] \in Reqs /\ req[hcs[h].handlers[i]].at = "sent"
      BY <1>1, <1>2, HcFacts DEF HandlersInv
    <3> HIDE DEF t
    <3>5. \A i \in 1 .. Len(t) : t[i] \in Reqs /\ (t[i] # r => req[t[i]].at = "sent")
      <4>1. \A i \in 1 .. Len(t) : i \in 1 .. Len(hcs[h].handlers) \/ i = Len(hcs[h].handlers) + 1
        BY <3>2, <3>3
      <4> QED BY <3>3, <3>4, <4>1
    <3>6. \A i \in 1 .. Len(t) : req'[t[i]].at = "sent" /\ req'[t[i]].hc = h
      BY <3>1, <3>5 DEF Moves, UnderWay
    <3>7. \A i, j \in 1 .. Len(t) : t[i] = t[j] => i = j
      BY <3>1 DEF UnderWay
    <3> QED BY <2>2, <3>6, <3>7 DEF t
  <2> QED BY <2>1, <2>2
<1>10. HandlersInv'
  BY <1>3, <1>9 DEF HandlersInv
<1> QED BY <1>3, <1>4, <1>5, <1>7, <1>8, <1>10

LEMMA AnswerOfSame ==
  ASSUME ClientTypeOK, NEW k \in 1 .. Len(net), AnswerOf(k), net'[k] = net[k], hcs'[net[k].hc] = hcs[net[k].hc]
  PROVE  AnswerOf(k)'
  BY DEF AnswerOf, Waited, Answered

\* The handlers of a ClientConn of the pool that a request is about to use.
LEMMA FirstHandler ==
  ASSUME CInv, NEW r \in Reqs, req[r].hc # Own, req[r].at = "do"
  PROVE  Append(hcs[req[r].hc].handlers, r) = <<r>>
<1> DEFINE h == req[r].hc  s == hcs[h].handlers
<1>1. ClientTypeOK /\ UserInv /\ HandlersInv
  BY DEF CInv
<1>2. h \in 0 .. Made
  BY <1>1, ReqFacts
<1>3. /\ s \in Seq(Reqs) /\ Len(s) \in Nat
      /\ \A i \in 1 .. Len(s) : s[i] \in Reqs /\ req[s[i]].at = "sent" /\ req[s[i]].hc = h
  <2> HIDE DEF h
  <2> QED BY <1>1, <1>2, HandlerFacts
<1>4. ASSUME NEW i \in 1 .. Len(s) PROVE FALSE
  <2>1. s[i] \in Reqs /\ req[s[i]].at = "sent" /\ req[s[i]].hc = h
    BY <1>3
  <2>2. Uses(s[i], h) /\ Uses(r, h)
    BY <2>1 DEF Uses
  <2>3. s[i] = r
    BY <1>1, <1>2, <2>1, <2>2, OneUser
  <2> QED BY <2>1, <2>3
<1>5. Len(s) = 0
  BY <1>3, <1>4
<1>6. s = <<>>
  BY <1>3, <1>5, SeqFacts
<1> QED BY <1>6

LEMMA DoOpenKeeps ==
  ASSUME CInv, NEW r \in Reqs, DoOpen(r)
  PROVE  CInv'
<1> DEFINE h == req[r].hc  k == hcs[h].conn  rs == Append(hcs[h].handlers, r)
<1>1. ClientTypeOK /\ CallsInv /\ UserInv /\ HandlersInv /\ CountInv /\ NetInv /\ AnswerInv /\ GotInv
  BY DEF CInv
<1>2. req[r].at = "do" /\ UNCHANGED <<cliClosed, crossed, closing, connNum>>
  BY DEF DoOpen
<1>3. h \in 0 .. Made /\ Uses(r, h)
  BY <1>1, <1>2, ReqFacts DEF Uses
<1>4. SameCounts
  BY <1>1, <1>2 DEF SameCounts, ClientTypeOK
<1> HIDE DEF h, k, rs
<1>5. CASE hcs[h].closed
  <2>1. Call(h, <<r>>, <<"error">>) /\ hcs' = hcs /\ net' = net
    BY <1>5 DEF DoOpen, h, k, rs
  <2>2. UnderWay(h, <<r>>)
    BY <1>2 DEF UnderWay, h
  <2>3. ToSet(<<r>>) = {r}
    BY DEF ToSet
  <2>4. Freed(h, {r}) /\ req'[r].got = <<"error">>
    <3>1. Freed(h, ToSet(<<r>>)) /\ \A q \in ToSet(<<r>>) : req'[q].got = <<"error">>
      BY <1>1, <1>3, <2>1, <2>2, OutcomeFacts, CallFrees
    <3> QED BY <2>3, <3>1
  <2>5. OnlyHc(h) /\ NetLess
    BY <1>1, <2>1 DEF OnlyHc, NetLess, ClientTypeOK
  <2>6. HandlersLeft(h, {r})
    <3>1. \A i \in 1 .. Len(hcs[h].handlers) : hcs[h].handlers[i] \in Reqs
      BY <1>1, <1>3, HcFacts
    <3> QED BY <1>1, <1>2, <1>3, <2>1, <3>1 DEF HandlersLeft, HandlersInv
  <2>7. OutcomeOf({r})
    BY <2>4 DEF OutcomeOf
  <2>8. ~cliClosed /\ ~crossed /\ h # Own => NoAnswer(h)
    BY <1>2, <1>3, <2>1, NothingComes DEF NoAnswer
  <2>9. cliClosed \/ crossed' \/ h = Own \/ (NoAnswer(h) /\ OutcomeOf({r}))
    BY <1>2, <2>7, <2>8
  <2> QED BY <1>3, <1>4, <2>4, <2>5, <2>6, <2>9, FreedKeeps
<1>6. CASE ~hcs[h].closed /\ ~net[k].open
  <2>1. closeWithErrorWithoutLock(h, rs, FALSE)
    BY <1>6 DEF DoOpen, h, k, rs
  <2> QED BY <1>2, <2>1, DoFails DEF h, rs
<1>7. CASE ~hcs[h].closed /\ net[k].open
  <2>1. /\ k # NoConn /\ At(r, "sent") /\ hcs' = [hcs EXCEPT ![h].handlers = rs]
        /\ net' = [net EXCEPT ![k].wire = Append(@, r)] /\ chConnss' = chConnss
    BY <1>7 DEF DoOpen, h, k, rs
  <2>2. k \in 1 .. Len(net) /\ net[k].hc = h
    BY <1>1, <1>3, <2>1 DEF ClientTypeOK, k
  <2>3. Moves(r, "sent")
    BY <1>1, <2>1, AtMoves
  <2>4. /\ hcs \in [0 .. Made -> HcRecord] /\ hcs[h] \in HcRecord
        /\ hcs'[h] = [hcs[h] EXCEPT !.handlers = rs] /\ \A g \in 0 .. Made : g # h => hcs'[g] = hcs[g]
    BY <1>1, <1>3, <2>1 DEF ClientTypeOK
  <2>5. rs \in Seq(Reqs)
    BY <1>1, <1>3, HcFacts, AppendSeq DEF rs
  <2>6. hcs'[h] \in HcRecord /\ hcs'[h].handlers = rs /\ hcs'[h].conn = k
    BY <2>4, <2>5 DEF HcRecord, k
  <2>7. ~hcs'[h].closed
    BY <1>7, <2>4 DEF HcRecord
  <2>8. hcs' \in [0 .. Made -> HcRecord]
    BY <2>1, <2>4, <2>6
  <2>9. /\ CallsInv' /\ UserInv' /\ HandlersInv' /\ CountInv' /\ GotInv' /\ Made' = Made
        /\ \A q \in Reqs : req'[q].hc \in 0 .. Made
    BY <1>2, <2>1, <2>3, <2>4, <2>6, <2>8, SentEffect DEF h, rs
  <2>10. /\ net \in [1 .. Len(net) -> NetRecord] /\ net[k] \in NetRecord
         /\ net'[k] = [net[k] EXCEPT !.wire = Append(net[k].wire, r)]
         /\ \A j \in 1 .. Len(net) : j # k => net'[j] = net[j]
    <3>1. net \in [1 .. Len(net) -> NetRecord]
      BY <1>1, SeqFacts DEF ClientTypeOK
    <3> QED BY <2>1, <2>2, <3>1
  <2>11. Append(net[k].wire, r) \in Seq(Reqs)
    BY <1>1, <2>2, NetFacts, AppendSeq
  <2>12. /\ net'[k] \in NetRecord /\ net'[k].hc = h /\ net'[k].wire = Append(net[k].wire, r)
         /\ net'[k].jobs = net[k].jobs /\ net'[k].junk = net[k].junk
    BY <2>2, <2>10, <2>11 DEF NetRecord
  <2>13. (net'[k].notified <=> net[k].notified) /\ (net'[k].open <=> net[k].open)
    BY <2>10 DEF NetRecord
  <2>14. net' \in Seq(NetRecord) /\ Len(net') = Len(net)
    <3>1. net' \in [1 .. Len(net) -> NetRecord]
      BY <2>1, <2>10, <2>12
    <3> QED BY <1>1, <3>1, NetSeq
  <2>15. NetInv'
    <3>1. ASSUME NEW j \in 1 .. Len(net)
          PROVE  /\ net'[j].jobs = net[j].jobs /\ net'[j].junk = net[j].junk
                 /\ (net'[j].notified <=> net[j].notified) /\ (net'[j].open <=> net[j].open)
      BY <2>10, <2>12, <2>13
    <3> QED BY <1>1, <2>14, <3>1 DEF NetInv
  <2>16. ClientTypeOK'
    <3>1. \A j \in 1 .. Len(net') : net'[j].hc = net[j].hc
      BY <2>2, <2>10, <2>12, <2>14
    <3>2. \A g \in 0 .. Made : hcs'[g].conn = hcs[g].conn
      BY <2>4, <2>6 DEF k
    <3>3. \A j \in 1 .. Len(net') : net'[j].hc \in 0 .. Made
      BY <1>1, <2>14, <3>1, NetFacts
    <3>4. \A g \in 0 .. Made : hcs'[g].conn # NoConn => hcs'[g].conn \in 1 .. Len(net') /\ net'[hcs'[g].conn].hc = g
      BY <1>1, <2>14, <3>1, <3>2 DEF ClientTypeOK
    <3>5. req' \in [Reqs -> ReqRecord]
      BY <2>3 DEF Moves
    <3> QED BY <1>1, <1>2, <2>1, <2>8, <2>9, <2>14, <3>3, <3>4, <3>5 DEF ClientTypeOK
  <2>17. AnswerInv'
    <3>1. ASSUME ~cliClosed, ~crossed, NEW j \in 1 .. Len(net'), net'[j].hc # Own
          PROVE  AnswerOf(j)'
      <4>1. CASE j # k /\ net[j].hc # h
        <5>1. net'[j] = net[j] /\ j \in 1 .. Len(net) /\ net[j].hc \in 0 .. Made
          BY <1>1, <2>10, <2>14, <4>1, NetFacts
        <5>2. AnswerOf(j)
          BY <1>1, <3>1, <5>1, AnswerInvIs
        <5> QED BY <1>1, <2>4, <4>1, <5>1, <5>2, AnswerOfSame
      <4>2. CASE j # k /\ net[j].hc = h
        <5>1. net'[j] = net[j] /\ j \in 1 .. Len(net) /\ h # Own
          BY <2>10, <2>14, <3>1, <4>2
        <5>2. /\ \A i \in 1 .. Len(net[j].jobs) : net[j].jobs[i][1] # "response"
              /\ net[j].open => net[j].wire = <<>>
          BY <1>2, <1>3, <3>1, <4>2, <5>1, NothingComes
        <5> QED BY <5>1, <5>2, AnswerOfNext
      <4>3. CASE j = k
        <5>1. h # Own
          BY <2>12, <3>1, <4>3
        <5>2. /\ \A i \in 1 .. Len(net[k].jobs) : net[k].jobs[i][1] # "response"
              /\ net[k].wire = <<>>
          BY <1>2, <1>3, <1>7, <2>2, <3>1, <5>1, NothingComes
        <5>3. rs = <<r>>
          BY <1>2, <5>1, FirstHandler DEF h, rs
        <5>4. net'[k].wire = <<r>> /\ Len(<<r>>) = 1 /\ <<r>>[1] = r
          BY <2>12, <5>2
        <5>5. WaitedNext(j, r)
          BY <2>6, <2>7, <2>12, <4>3, <5>3 DEF WaitedNext
        <5>6. ~Answered(j)'
          BY <2>2, <2>12, <2>14, <4>3, <5>2, AnsweredIsNext
        <5> QED BY <2>12, <4>3, <5>2, <5>4, <5>5, <5>6, AnswerOfNext
      <4> QED BY <4>1, <4>2, <4>3
    <3> QED BY <1>2, <3>1 DEF AnswerInv, AnswerOf
  <2> QED BY <2>9, <2>15, <2>16, <2>17 DEF CInv
<1> QED BY <1>5, <1>6, <1>7

\* A proxy dialer that succeeds has read all of the proxy's answer.
LEMMA NoJunk ==
  ASSUME NEW p \in Proxies, ProxyDial(p).ok
  PROVE  Junk(p) = 0
<1>1. /\ p.scheme \in {"none", "http", "socks5"} /\ p.sends \in 0 .. ReplyLength(p)
      /\ p.scheme = "socks5" => p.addr \in Nat
  BY ProxyAssumption
<1>2. CASE p.scheme = "none"
  BY <1>1, <1>2 DEF Junk, ProxyDial, ReplyLength
<1>3. CASE p.scheme = "http"
  <2>1. ProxyDial(p) = HttpProxyDial(p)
    BY <1>3 DEF ProxyDial
  <2>2. HttpProxyDial(p).ok => p.sends = 1
    BY Zenon DEF HttpProxyDial
  <2>3. HttpProxyDial(p).read = 1
    BY DEF HttpProxyDial
  <2> QED BY <2>1, <2>2, <2>3 DEF Junk
<1>4. CASE p.scheme = "socks5"
  <2> DEFINE auth == IF p.method = "password" THEN 2 ELSE 0
             size == IF p.atyp = "domain" THEN 1 ELSE 0
             addr == CASE p.atyp = "ip4" -> 4 [] p.atyp = "ip6" -> 16 [] OTHER -> p.addr
             steps == Socks5Steps(p)
  <2>1. /\ Len(steps) = 6 /\ DOMAIN steps = 1 .. 6
        /\ steps[3].ok => p.atyp \in {"ip4", "ip6", "domain"}
        /\ steps[6].upTo = 6 + auth + size + addr + 2
    <3>1. Len(steps) = 6 /\ DOMAIN steps = 1 .. 6
      BY DEF Socks5Steps
    <3>2. steps[6].upTo = 6 + auth + size + addr + 2
      BY DEF Socks5Steps
    <3>3. steps[3].ok => p.atyp \in {"ip4", "ip6", "domain"}
      BY DEF Socks5Steps
    <3> QED BY <3>1, <3>2, <3>3
  <2>2. ProxyDial(p) = Socks5Connect(p)
    BY <1>4 DEF ProxyDial
  <2>3. /\ Socks5Connect(p).read = steps[6].upTo
        /\ Socks5Connect(p).ok => steps[3].ok /\ steps[6].upTo <= p.sends
    BY <2>1 DEF Socks5Connect
  <2>4. p.atyp \in {"ip4", "ip6", "domain"} /\ 6 + auth + size + addr + 2 <= p.sends
    BY <2>1, <2>2, <2>3
  <2>5. auth \in Nat /\ addr \in Nat /\ size \in Nat /\ AddrLength(p) = size + addr
    BY <1>1, <1>4, <2>4 DEF AddrLength
  <2>6. ReplyLength(p) = 2 + auth + 4 + AddrLength(p) + 2
    BY <1>4 DEF ReplyLength
  <2>7. Junk(p) = p.sends - (6 + auth + size + addr + 2)
    BY <2>1, <2>2, <2>3 DEF Junk
  <2> HIDE DEF auth, size, addr, steps
  <2> QED BY <1>1, <2>4, <2>5, <2>6, <2>7
<1> QED BY <1>1, <1>2, <1>3, <1>4

LEMMA DoDialKeeps ==
  ASSUME CInv, NEW r \in Reqs, NEW p \in Proxies, DoDial(r, p)
  PROVE  CInv'
<1> DEFINE h == req[r].hc  rs == Append(hcs[h].handlers, r)  n == Len(net) + 1
           x == [hc |-> h, open |-> TRUE, wire |-> <<r>>, jobs |-> <<>>, notified |-> FALSE, junk |-> Junk(p)]
<1>1. ClientTypeOK /\ CallsInv /\ UserInv /\ HandlersInv /\ CountInv /\ NetInv /\ AnswerInv /\ GotInv
  BY DEF CInv
<1>2. /\ req[r].at = "do" /\ UNCHANGED <<cliClosed, crossed, closing, connNum>>
      /\ ~hcs[h].closed /\ hcs[h].conn = NoConn
  BY DEF DoDial
<1>3. h \in 0 .. Made /\ Uses(r, h)
  BY <1>1, <1>2, ReqFacts DEF Uses
<1>4. CASE ~(ProxyDial(p).ok /\ Len(net) < MaxDials)
  <2>1. closeWithErrorWithoutLock(h, rs, FALSE)
    BY <1>4 DEF DoDial
  <2> QED BY <1>2, <2>1, DoFails
<1>5. CASE ProxyDial(p).ok /\ Len(net) < MaxDials
  <2>1. /\ At(r, "sent") /\ hcs' = [hcs EXCEPT ![h].conn = n, ![h].handlers = rs]
        /\ net' = Append(net, x) /\ chConnss' = chConnss
    BY <1>5 DEF DoDial
  <2>2. rs \in Seq(Reqs) /\ Len(net) \in Nat
    BY <1>1, <1>3, HcFacts, NetFacts, AppendSeq
  <2>3. /\ x.hc = h /\ x.open = TRUE /\ x.wire = <<r>> /\ x.jobs = <<>> /\ x.notified = FALSE /\ x.junk = 0
        /\ x \in NetRecord
    <3>1. Junk(p) = 0
      BY <1>5, NoJunk
    <3>2. <<r>> \in Seq(Reqs) /\ <<>> \in Seq(Jobs) /\ h \in Nat
      BY <1>1, <1>3, HcFacts, EmptySeq
    <3> QED BY <3>1, <3>2 DEF NetRecord
  <2>4. rs = <<r>> \/ h = Own
    BY <1>2, FirstHandler
  <2>5. Moves(r, "sent")
    BY <1>1, <2>1, AtMoves
  <2>6. net \in Seq(NetRecord) /\ hcs \in [0 .. Made -> HcRecord]
    BY <1>1 DEF ClientTypeOK
  <2> HIDE DEF x, n
  <2>7. /\ net' \in Seq(NetRecord) /\ Len(net') = n /\ n \in Nat \ {0}
        /\ (\A j \in 1 .. Len(net) : net'[j] = net[j]) /\ net'[n] = x
    BY <2>1, <2>2, <2>3, <2>6, AppendSeq DEF n
  <2> HIDE DEF h, rs
  <2>8. /\ hcs'[h] = [hcs[h] EXCEPT !.conn = n, !.handlers = rs] /\ hcs[h] \in HcRecord
        /\ \A g \in 0 .. Made : g # h => hcs'[g] = hcs[g]
    BY <1>3, <2>1, <2>6
  <2>9. hcs'[h] \in HcRecord /\ hcs'[h].handlers = rs /\ hcs'[h].conn = n
    BY <2>2, <2>7, <2>8 DEF HcRecord
  <2>10. ~hcs'[h].closed
    BY <1>2, <2>8 DEF HcRecord
  <2>11. hcs' \in [0 .. Made -> HcRecord]
    BY <2>1, <2>6, <2>8, <2>9
  <2>12. /\ CallsInv' /\ UserInv' /\ HandlersInv' /\ CountInv' /\ GotInv' /\ Made' = Made
         /\ \A q \in Reqs : req'[q].hc \in 0 .. Made
    BY <1>2, <2>1, <2>5, <2>8, <2>9, <2>11, SentEffect DEF h, rs
  <2>13. \A j \in 1 .. Len(net') : j \in 1 .. Len(net) \/ j = n
    BY <2>2, <2>7 DEF n
  <2>14. 1 .. Len(net) \subseteq 1 .. Len(net') /\ n \in 1 .. Len(net')
    BY <2>2, <2>7 DEF n
  <2>15. NetInv'
    <3>1. Len(net'[n].jobs) = 0 /\ net'[n].junk = 0 /\ ~net'[n].notified
      BY <2>3, <2>7
    <3> QED BY <1>1, <2>7, <2>13, <3>1 DEF NetInv
  <2>16. ClientTypeOK'
    <3>1. \A j \in 1 .. Len(net') : net'[j].hc \in 0 .. Made
      BY <1>1, <1>3, <2>3, <2>7, <2>13, NetFacts
    <3>2. ASSUME NEW g \in 0 .. Made, hcs'[g].conn # NoConn
          PROVE  hcs'[g].conn \in 1 .. Len(net') /\ net'[hcs'[g].conn].hc = g
      <4>1. CASE g = h
        BY <2>3, <2>7, <2>9, <2>14, <4>1
      <4>2. CASE g # h
        <5>1. hcs'[g] = hcs[g] /\ hcs[g].conn \in 1 .. Len(net) /\ net[hcs[g].conn].hc = g
          BY <1>1, <2>8, <3>2, <4>2 DEF ClientTypeOK
        <5> QED BY <2>7, <2>14, <5>1
      <4> QED BY <4>1, <4>2
    <3>3. req' \in [Reqs -> ReqRecord]
      BY <2>5 DEF Moves
    <3> QED BY <1>1, <1>2, <2>1, <2>7, <2>11, <2>12, <3>1, <3>2, <3>3 DEF ClientTypeOK
  <2>17. AnswerInv'
    <3>1. ASSUME ~cliClosed, ~crossed, NEW j \in 1 .. Len(net'), net'[j].hc # Own
          PROVE  AnswerOf(j)'
      <4>1. CASE j \in 1 .. Len(net) /\ net[j].hc # h
        <5>1. net'[j] = net[j] /\ net[j].hc \in 0 .. Made
          BY <1>1, <2>7, <4>1, NetFacts
        <5>2. AnswerOf(j)
          BY <1>1, <3>1, <4>1, <5>1, AnswerInvIs
        <5> QED BY <1>1, <2>8, <4>1, <5>1, <5>2, AnswerOfSame
      <4>2. CASE j \in 1 .. Len(net) /\ net[j].hc = h
        <5>1. net'[j] = net[j] /\ h # Own
          BY <2>7, <3>1, <4>2
        <5>2. /\ \A i \in 1 .. Len(net[j].jobs) : net[j].jobs[i][1] # "response"
              /\ net[j].open => net[j].wire = <<>>
          BY <1>2, <1>3, <3>1, <4>2, <5>1, NothingComes
        <5> QED BY <5>1, <5>2, AnswerOfNext
      <4>3. CASE j = n
        <5>1. net'[j].hc = h /\ net'[j].wire = <<r>> /\ net'[j].jobs = <<>> /\ Len(<<>>) = 0
          BY <2>3, <2>7, <4>3
        <5>2. rs = <<r>> /\ Len(<<r>>) = 1 /\ <<r>>[1] = r
          BY <2>4, <3>1, <5>1
        <5>3. WaitedNext(j, r)
          BY <2>9, <2>10, <4>3, <5>1, <5>2 DEF WaitedNext
        <5>4. ~Answered(j)'
          BY <2>7, <3>1, <5>1, AnsweredIsNext
        <5> QED BY <5>1, <5>2, <5>3, <5>4, AnswerOfNext
      <4> QED BY <2>13, <4>1, <4>2, <4>3
    <3> QED BY <1>2, <3>1 DEF AnswerInv, AnswerOf
  <2> QED BY <2>12, <2>15, <2>16, <2>17 DEF CInv
<1> QED BY <1>4, <1>5

LEMMA DoPanicsKeeps ==
  ASSUME CInv, NEW r \in Reqs, NEW p, DoPanics(r, p)
  PROVE  CInv'
<1> DEFINE h == req[r].hc  rs == Append(hcs[h].handlers, r)
<1>1. ClientTypeOK /\ CallsInv /\ UserInv /\ HandlersInv /\ CountInv /\ NetInv /\ AnswerInv /\ GotInv
  BY DEF CInv
<1>2. /\ req[r].at = "do" /\ At(r, "sent") /\ hcs' = [hcs EXCEPT ![h].handlers = rs]
      /\ UNCHANGED <<cliClosed, crossed, closing, connNum, chConnss, net>>
  BY DEF DoPanics
<1>3. h \in 0 .. Made /\ Uses(r, h)
  BY <1>1, <1>2, ReqFacts DEF Uses
<1> HIDE DEF h, rs
<1>4. Moves(r, "sent")
  BY <1>1, <1>2, AtMoves
<1>5. /\ hcs \in [0 .. Made -> HcRecord] /\ hcs[h] \in HcRecord
      /\ hcs'[h] = [hcs[h] EXCEPT !.handlers = rs] /\ \A g \in 0 .. Made : g # h => hcs'[g] = hcs[g]
  BY <1>1, <1>2, <1>3 DEF ClientTypeOK
<1>6. rs \in Seq(Reqs)
  BY <1>1, <1>3, HcFacts, AppendSeq DEF rs
<1>7. hcs'[h] \in HcRecord /\ hcs'[h].handlers = rs /\ hcs'[h].conn = hcs[h].conn
  BY <1>5, <1>6 DEF HcRecord
<1>8. hcs' \in [0 .. Made -> HcRecord]
  BY <1>2, <1>5, <1>7
<1>9. /\ CallsInv' /\ UserInv' /\ HandlersInv' /\ CountInv' /\ GotInv' /\ Made' = Made
      /\ \A q \in Reqs : req'[q].hc \in 0 .. Made
  BY <1>2, <1>4, <1>5, <1>7, <1>8, SentEffect DEF h, rs
<1>10. ClientTypeOK'
  <2>1. \A g \in 0 .. Made : hcs'[g].conn = hcs[g].conn
    BY <1>5, <1>7
  <2>2. req' \in [Reqs -> ReqRecord]
    BY <1>4 DEF Moves
  <2> QED BY <1>1, <1>2, <1>8, <1>9, <2>1, <2>2 DEF ClientTypeOK
<1>11. NetInv'
  BY <1>1, <1>2 DEF NetInv
<1>12. AnswerInv'
  <2>1. ASSUME ~cliClosed, ~crossed, NEW j \in 1 .. Len(net'), net'[j].hc # Own
        PROVE  AnswerOf(j)'
    <3>1. net'[j] = net[j] /\ j \in 1 .. Len(net) /\ net[j].hc \in 0 .. Made
      BY <1>1, <1>2, NetFacts
    <3>2. CASE net[j].hc # h
      <4>1. AnswerOf(j)
        BY <1>1, <2>1, <3>1, AnswerInvIs
      <4> QED BY <1>1, <1>5, <3>1, <3>2, <4>1, AnswerOfSame
    <3>3. CASE net[j].hc = h
      <4>1. /\ \A i \in 1 .. Len(net[j].jobs) : net[j].jobs[i][1] # "response"
            /\ net[j].open => net[j].wire = <<>>
        BY <1>2, <1>3, <2>1, <3>1, <3>3, NothingComes
      <4> QED BY <3>1, <4>1, AnswerOfNext
    <3> QED BY <3>2, <3>3
  <2> QED BY <1>2, <2>1 DEF AnswerInv, AnswerOf
<1> QED BY <1>9, <1>10, <1>11, <1>12 DEF CInv

LEMMA DialFailsKeeps ==
  ASSUME CInv, NEW r \in Reqs, DialFails(r)
  PROVE  CInv'
  BY DoFails DEF DialFails

\* Steps of the pool leave connections alone, and the requests that are sent.
PoolStep ==
  /\ UNCHANGED <<cliClosed, crossed, closing, net>>
  /\ req' \in [Reqs -> ReqRecord]
  /\ \A q \in Reqs : req[q].at = "sent" => req'[q] = req[q]

LEMMA PoolStepKeeps ==
  ASSUME CInv, PoolStep, hcs' = hcs, connNum' \in Int, chConnss' \in Seq(1 .. Made),
         \A q \in Reqs : req'[q].hc \in 0 .. Made, CallsInv', UserInv', CountInv', GotInv'
  PROVE  CInv'
<1>1. ClientTypeOK /\ HandlersInv /\ NetInv /\ AnswerInv
  BY DEF CInv
<1>2. Made' = Made
  BY MadeSame
<1>3. UNCHANGED <<cliClosed, crossed, closing, net>> /\ req' \in [Reqs -> ReqRecord]
  BY DEF PoolStep
<1>4. ClientTypeOK'
  BY <1>1, <1>2, <1>3 DEF ClientTypeOK
<1>5. HandlersInv'
  <2>1. ASSUME NEW g \in 0 .. Made, NEW i \in 1 .. Len(hcs[g].handlers)
        PROVE  req'[hcs[g].handlers[i]].at = "sent" /\ req'[hcs[g].handlers[i]].hc = g
    <3>1. hcs[g].handlers[i] \in Reqs /\ req[hcs[g].handlers[i]].at = "sent" /\ req[hcs[g].handlers[i]].hc = g
      BY <1>1, HandlerFacts
    <3>2. req'[hcs[g].handlers[i]] = req[hcs[g].handlers[i]]
      BY <3>1 DEF PoolStep
    <3> QED BY <3>1, <3>2
  <2>2. \A g \in 0 .. Made : \A i, j \in 1 .. Len(hcs[g].handlers) : hcs[g].handlers[i] = hcs[g].handlers[j] => i = j
    BY <1>1, Zenon DEF HandlersInv
  <2>3. 0 .. Made' = 0 .. Made
    BY <1>2
  <2> QED BY <2>1, <2>2, <2>3, Zenon DEF HandlersInv
<1>6. NetInv'
  BY <1>1, <1>3 DEF NetInv
<1>7. AnswerInv'
  <2>1. ASSUME ~cliClosed, ~crossed, NEW k \in 1 .. Len(net), net[k].hc # Own PROVE AnswerOf(k)'
    BY <1>1, <1>3, <2>1, AnswerInvIs, AnswerOfSame
  <2> QED BY <1>3, <2>1 DEF AnswerInv, AnswerOf
<1> QED BY <1>4, <1>5, <1>6, <1>7 DEF CInv

\* A request that has no ClientConn goes on, or fails.
Waiting == {"new", "get", "count", "over", "wait"}
Early(r, a) ==
  /\ req[r].at \in Waiting
  /\ req' \in [Reqs -> ReqRecord] /\ \A q \in Reqs : q # r => req'[q] = req[q]
  /\ req'[r].at = a /\ req'[r].hc = req[r].hc
  /\ req'[r].calls = req[r].calls + (IF a = "done" THEN 1 ELSE 0)
  /\ req'[r].got = (IF a = "done" THEN <<"error">> ELSE req[r].got)

LEMMA EarlyAt ==
  ASSUME ClientTypeOK, NEW r \in Reqs, req[r].at \in Waiting, NEW a \in {"get", "count", "over", "wait", "do"}, At(r, a)
  PROVE  Early(r, a)
<1>1. Moves(r, a)
  BY AtMoves
<1>2. req[r].calls \in Nat
  BY ReqFacts
<1>3. a # "done" /\ req[r].calls + 0 = req[r].calls
  BY <1>2
<1> QED BY <1>1, <1>3 DEF Early, Moves

LEMMA EarlyFails ==
  ASSUME ClientTypeOK, NEW r \in Reqs, req[r].at \in Waiting, Finish(r, <<"error">>)
  PROVE  Early(r, "done")
<1>1. req \in [Reqs -> ReqRecord] /\ req' = [req EXCEPT ![r].at = "done", ![r].calls = @ + 1, ![r].got = <<"error">>]
  BY DEF ClientTypeOK, Finish
<1>2. /\ req'[r] = [req[r] EXCEPT !.at = "done", !.calls = @ + 1, !.got = <<"error">>]
      /\ req[r] \in ReqRecord /\ \A q \in Reqs : q # r => req'[q] = req[q]
  BY <1>1
<1>3. req[r].calls + 1 \in Nat /\ <<"error">> \in Outcomes
  BY ReqFacts, OutcomeFacts
<1>4. req'[r] \in ReqRecord
  BY <1>2, <1>3 DEF ReqRecord
<1>5. req'[r].at = "done" /\ req'[r].hc = req[r].hc /\ req'[r].calls = req[r].calls + 1 /\ req'[r].got = <<"error">>
  BY <1>2, <1>3 DEF ReqRecord
<1>6. req' \in [Reqs -> ReqRecord]
  BY <1>1, <1>2, <1>4
<1> QED BY <1>2, <1>5, <1>6 DEF Early

LEMMA EarlyUsers ==
  ASSUME ClientTypeOK, CallsInv, UserInv, NEW r \in Reqs, NEW a \in {"get", "count", "over", "wait", "do", "done"},
         Early(r, a), chConnss' = chConnss, Made' = Made
  PROVE  CallsInv' /\ UserInv' /\ \A q \in Reqs : req'[q].hc \in 0 .. Made
<1>1. \A q \in Reqs : req'[q].hc = req[q].hc
  BY DEF Early
<1>2. \A q \in Reqs : q # r => req'[q] = req[q]
  BY DEF Early
<1>3. req[r].hc = Own /\ req[r].at \in Waiting /\ req'[r].at = a
  BY DEF UserInv, Early, Waiting
<1>4. CallsInv'
  <2>1. req[r].calls = 0 /\ req[r].got = <<>>
    BY <1>3 DEF CallsInv, Waiting
  <2>2. req'[r].calls = (IF req'[r].at = "done" THEN 1 ELSE 0)
    BY <1>3, <2>1 DEF Early
  <2>3. req'[r].at # "done" => req'[r].got = <<>>
    BY <1>3, <2>1 DEF Early
  <2> QED BY <1>2, <2>2, <2>3 DEF CallsInv
<1>5. \A q \in Reqs : \A g : g # Own => (UsesNext(q, g) <=> Uses(q, g))
  BY <1>1, <1>2, <1>3 DEF Uses, UsesNext
<1>6. \A q \in Reqs : req'[q].at \in {"new", "get", "count", "over", "wait"} => req'[q].hc = Own
  BY <1>1, <1>2, <1>3 DEF UserInv
<1>7. \A q \in Reqs : req'[q].at = "reset" => req'[q].hc # Own
  BY <1>1, <1>2, <1>3 DEF UserInv
<1>8. \A q, p \in Reqs : UsesNext(q, req'[q].hc) /\ UsesNext(p, req'[q].hc) /\ req'[q].hc # Own => q = p
  BY <1>1, <1>5 DEF UserInv
<1>9. \A i \in 1 .. Len(chConnss) : chConnss[i] # Own
  BY HcFacts DEF Own
<1>10. \A q \in Reqs, i \in 1 .. Len(chConnss) : ~UsesNext(q, chConnss[i])
  BY <1>5, <1>9 DEF UserInv
<1>11. \A g \in 1 .. Made : (\E q \in Reqs : UsesNext(q, g)) \/ \E i \in 1 .. Len(chConnss) : chConnss[i] = g
  <2>1. \A g \in 1 .. Made : g # Own
    BY HcFacts DEF Own
  <2> QED BY <1>5, <2>1 DEF UserInv
<1>12. \A i, j \in 1 .. Len(chConnss) : chConnss[i] = chConnss[j] => i = j
  BY DEF UserInv
<1>13. UserInv'
  BY <1>6, <1>7, <1>8, <1>10, <1>11, <1>12 DEF UserInv, Uses, UsesNext
<1> QED BY <1>1, <1>4, <1>13, ReqFacts

LEMMA EarlyKeeps ==
  ASSUME CInv, NEW r \in Reqs, NEW a \in {"get", "count", "over", "wait", "do", "done"}, Early(r, a),
         UNCHANGED <<cliClosed, crossed, closing, chConnss, hcs, net>>, connNum' \in Int, CountInv'
  PROVE  CInv'
<1>1. ClientTypeOK /\ CallsInv /\ UserInv /\ GotInv
  BY DEF CInv
<1>2. Made' = Made
  BY MadeSame
<1>3. CallsInv' /\ UserInv' /\ \A q \in Reqs : req'[q].hc \in 0 .. Made
  BY <1>1, <1>2, EarlyUsers
<1>4. req[r].hc = Own
  BY <1>1 DEF UserInv, Early, Waiting
<1>5. GotInv'
  BY <1>1, <1>4 DEF GotInv, Pooled, Early
<1>6. PoolStep
  BY DEF PoolStep, Early, Waiting
<1>7. chConnss' \in Seq(1 .. Made)
  BY <1>1 DEF ClientTypeOK
<1> QED BY <1>3, <1>5, <1>6, <1>7, PoolStepKeeps

LEMMA getConnKeeps ==
  ASSUME CInv, NEW r \in Reqs, getConn(r) \/ Ask(r)
  PROVE  CInv'
<1>1. ClientTypeOK /\ CountInv
  BY DEF CInv
<1>2. req[r].at = "new" /\ UNCHANGED <<cliClosed, crossed, closing, connNum, chConnss, hcs, net>>
  BY DEF getConn, Ask
<1>3. req[r].at \in Waiting
  BY <1>2 DEF Waiting
<1>4. Finish(r, <<"error">>) \/ At(r, "get") \/ At(r, "do")
  BY DEF getConn, Ask
<1>5. \E a \in {"get", "do", "done"} : Early(r, a)
  BY <1>1, <1>3, <1>4, EarlyAt, EarlyFails
<1>6. PICK a \in {"get", "do", "done"} : Early(r, a)
  BY <1>5
<1>7. Over' = Over
  BY <1>2, <1>6 DEF Over, Early
<1>8. CountInv' /\ connNum' \in Int
  BY <1>1, <1>2, <1>7, MadeSame DEF CountInv, ClientTypeOK
<1> QED BY <1>2, <1>6, <1>8, EarlyKeeps

LEMMA GetTimeoutKeeps ==
  ASSUME CInv, NEW r \in Reqs, GetTimeout(r)
  PROVE  CInv'
<1>1. ClientTypeOK /\ CountInv
  BY DEF CInv
<1>2. req[r].at \in {"get", "wait"} /\ UNCHANGED <<cliClosed, crossed, closing, connNum, chConnss, hcs, net>>
  BY DEF GetTimeout
<1>3. Early(r, "done")
  BY <1>1, <1>2, EarlyFails DEF GetTimeout, Waiting
<1>4. Over' = Over
  BY <1>2, <1>3 DEF Over, Early
<1>5. CountInv' /\ connNum' \in Int
  BY <1>1, <1>2, <1>4, MadeSame DEF CountInv, ClientTypeOK
<1> QED BY <1>2, <1>3, <1>5, EarlyKeeps

LEMMA TakeBackKeeps ==
  ASSUME CInv, NEW r \in Reqs, TakeBack(r)
  PROVE  CInv'
<1>1. ClientTypeOK /\ CountInv
  BY DEF CInv
<1>2. /\ req[r].at = "over" /\ connNum' = connNum - 1 /\ At(r, "wait")
      /\ UNCHANGED <<cliClosed, crossed, closing, chConnss, hcs, net>>
  BY DEF TakeBack
<1>3. Early(r, "wait")
  BY <1>1, <1>2, EarlyAt DEF Waiting
<1>4. Over' = Over \ {r} /\ r \in Over
  BY <1>2, <1>3 DEF Over, Early
<1>5. IsFiniteSet(Over') /\ Cardinality(Over') = Cardinality(Over) - 1 /\ Cardinality(Over) \in Nat
  BY <1>1, <1>4, FS_RemoveElement, FS_CardinalityType DEF CountInv
<1>6. connNum \in Int /\ connNum = Made + Cardinality(Over) /\ Made \in Nat /\ Made <= MaxConnNum /\ Made' = Made
  BY <1>1, <1>2, MadeSame DEF CountInv, ClientTypeOK
<1>7. connNum' \in Int /\ connNum' = Made + Cardinality(Over')
  BY <1>2, <1>5, <1>6
<1>8. CountInv'
  BY <1>5, <1>6, <1>7 DEF CountInv
<1> QED BY <1>2, <1>3, <1>7, <1>8, EarlyKeeps

\* A free ClientConn is taken.
LEMMA TakeKeeps ==
  ASSUME CInv, NEW r \in Reqs, req[r].at \in {"get", "wait"}, Take(r),
         UNCHANGED <<cliClosed, crossed, closing, connNum, hcs, net>>
  PROVE  CInv'
<1> DEFINE h == Head(chConnss)
<1>1. ClientTypeOK /\ CallsInv /\ UserInv /\ CountInv /\ GotInv
  BY DEF CInv
<1>2. /\ chConnss # <<>> /\ chConnss' = Tail(chConnss)
      /\ req' = [req EXCEPT ![r].at = "reset", ![r].hc = h]
  BY DEF Take
<1>3. chConnss \in Seq(1 .. Made) /\ Len(chConnss) \in Nat /\ Made \in Nat
  BY <1>1, HcFacts
<1>4. /\ h \in 1 .. Made /\ h = chConnss[1] /\ chConnss' \in Seq(1 .. Made) /\ Len(chConnss') = Len(chConnss) - 1
      /\ \A i \in 1 .. Len(chConnss) - 1 : chConnss'[i] = chConnss[i + 1]
  BY <1>2, <1>3, TailSeq
<1>5. Len(chConnss) # 0
  BY <1>2, <1>3, SeqFacts
<1> HIDE DEF h
<1>6. h \in Nat /\ h # Own /\ 1 \in 1 .. Len(chConnss)
  BY <1>3, <1>4, <1>5 DEF Own
<1>7. /\ req'[r] = [req[r] EXCEPT !.at = "reset", !.hc = h] /\ req[r] \in ReqRecord
      /\ \A q \in Reqs : q # r => req'[q] = req[q]
  BY <1>1, <1>2 DEF ClientTypeOK
<1>17. \A q \in Reqs : q # r => req'[q] = req[q]
  BY <1>7
<1>8. req'[r] \in ReqRecord /\ req'[r].at = "reset" /\ req'[r].hc = h /\ req'[r].calls = req[r].calls /\ req'[r].got = req[r].got
  BY <1>6, <1>7 DEF ReqRecord
<1>9. req' \in [Reqs -> ReqRecord]
  BY <1>1, <1>2, <1>7, <1>8 DEF ClientTypeOK
<1>10. \A q \in Reqs : req'[q].hc \in 0 .. Made
  <2>1. h \in 0 .. Made
    BY <1>3, <1>4
  <2>2. \A q \in Reqs : req[q].hc \in 0 .. Made
    BY <1>1 DEF ClientTypeOK
  <2> QED BY <1>8, <1>17, <2>1, <2>2
<1>11. CallsInv'
  BY <1>1, <1>7, <1>8 DEF CallsInv
<1>12. Made' = Made
  BY MadeSame
<1>13. CountInv' /\ connNum' \in Int
  <2>1. Over' = Over
    BY <1>7, <1>8 DEF Over
  <2> QED BY <1>1, <1>12, <2>1 DEF CountInv, ClientTypeOK
<1>14. GotInv'
  <2>1. req'[r].got = <<>>
    BY <1>1, <1>8 DEF CallsInv
  <2> QED BY <1>1, <1>7, <2>1 DEF GotInv, Pooled
<1>15. UserInv'
  <2>1. \A q \in Reqs : \A g : UsesNext(q, g) <=> Uses(q, g) \/ (q = r /\ g = h)
    <3> SUFFICES ASSUME NEW q \in Reqs, NEW g PROVE UsesNext(q, g) <=> Uses(q, g) \/ (q = r /\ g = h)
      OBVIOUS
    <3>1. CASE q = r
      <4>1. ~Uses(q, g)
        BY <3>1 DEF Uses
      <4> QED BY <1>8, <3>1, <4>1 DEF UsesNext
    <3>2. CASE q # r
      BY <1>7, <3>2 DEF Uses, UsesNext
    <3> QED BY <3>1, <3>2
  <2>2. \A q \in Reqs : ~Uses(q, h)
    BY <1>1, <1>4, <1>6 DEF UserInv
  <2>3. \A i, j \in 1 .. Len(chConnss) : chConnss[i] = chConnss[j] => i = j
    BY <1>1 DEF UserInv
  <2>4. \A i \in 1 .. Len(chConnss') : i + 1 \in 1 .. Len(chConnss) /\ chConnss'[i] = chConnss[i + 1] /\ i \in Int
    BY <1>3, <1>4
  <2>5. \A i \in 1 .. Len(chConnss') : chConnss'[i] # h
    <3> SUFFICES ASSUME NEW i \in 1 .. Len(chConnss'), chConnss'[i] = h PROVE FALSE
      OBVIOUS
    <3>1. i + 1 = 1 /\ i \in 1 .. Len(chConnss')
      BY <1>4, <1>6, <2>3, <2>4
    <3> QED BY <3>1
  <2>6. \A i, j \in 1 .. Len(chConnss') : chConnss'[i] = chConnss'[j] => i = j
    <3> SUFFICES ASSUME NEW i \in 1 .. Len(chConnss'), NEW j \in 1 .. Len(chConnss'), chConnss'[i] = chConnss'[j]
                 PROVE  i = j
      OBVIOUS
    <3>1. i + 1 = j + 1 /\ i \in Int /\ j \in Int
      BY <2>3, <2>4
    <3> QED BY <3>1
  <2>7. \A q \in Reqs, i \in 1 .. Len(chConnss') : ~UsesNext(q, chConnss'[i])
    <3> SUFFICES ASSUME NEW q \in Reqs, NEW i \in 1 .. Len(chConnss') PROVE ~UsesNext(q, chConnss'[i])
      OBVIOUS
    <3>1. ~Uses(q, chConnss[i + 1])
      BY <1>1, <2>4 DEF UserInv
    <3> QED BY <2>1, <2>4, <2>5, <3>1
  <2>8. \A g \in 1 .. Made : (\E q \in Reqs : UsesNext(q, g)) \/ \E i \in 1 .. Len(chConnss') : chConnss'[i] = g
    <3> SUFFICES ASSUME NEW g \in 1 .. Made, g # h
                 PROVE  (\E q \in Reqs : UsesNext(q, g)) \/ \E i \in 1 .. Len(chConnss') : chConnss'[i] = g
      BY <2>1
    <3>1. CASE \E q \in Reqs : Uses(q, g)
      BY <2>1, <3>1
    <3>2. CASE \E i \in 1 .. Len(chConnss) : chConnss[i] = g
      <4>1. PICK i \in 1 .. Len(chConnss) : chConnss[i] = g
        BY <3>2
      <4>2. i # 1
        BY <1>4, <4>1
      <4>3. i - 1 \in 1 .. Len(chConnss') /\ (i - 1) + 1 = i
        BY <1>3, <1>4, <4>2
      <4>4. chConnss'[i - 1] = g
        BY <1>4, <4>1, <4>3
      <4> QED BY <4>3, <4>4
    <3> QED BY <1>1, <3>1, <3>2 DEF UserInv
  <2>9. \A q \in Reqs : req'[q].at \in {"new", "get", "count", "over", "wait"} => req'[q].hc = Own
    BY <1>1, <1>8, <1>17 DEF UserInv
  <2>10. \A q \in Reqs : req'[q].at = "reset" => req'[q].hc # Own
    BY <1>1, <1>6, <1>8, <1>17 DEF UserInv
  <2>11. \A q, p \in Reqs : UsesNext(q, req'[q].hc) /\ UsesNext(p, req'[q].hc) /\ req'[q].hc # Own => q = p
    <3> SUFFICES ASSUME NEW q \in Reqs, NEW p \in Reqs, NEW g, g # Own, UsesNext(q, g), UsesNext(p, g)
                 PROVE  q = p
      OBVIOUS
    <3>1. CASE g = h
      BY <2>1, <2>2, <3>1
    <3>2. CASE g # h
      <4>1. Uses(q, g) /\ Uses(p, g)
        BY <2>1, <3>2
      <4> QED BY <1>1, <4>1 DEF UserInv, Uses
    <3> QED BY <3>1, <3>2
  <2> QED BY <1>12, <2>6, <2>7, <2>8, <2>9, <2>10, <2>11 DEF UserInv, Uses, UsesNext
<1>16. PoolStep
  BY <1>7, <1>9 DEF PoolStep
<1> QED BY <1>4, <1>10, <1>11, <1>13, <1>14, <1>15, <1>16, PoolStepKeeps

LEMMA GetFreeKeeps ==
  ASSUME CInv, NEW r \in Reqs, GetFree(r)
  PROVE  CInv'
<1>1. ClientTypeOK /\ CountInv
  BY DEF CInv
<1>2. req[r].at = "get" /\ UNCHANGED <<cliClosed, crossed, closing, connNum, hcs, net>>
  BY DEF GetFree
<1>3. CASE Take(r)
  BY <1>2, <1>3, TakeKeeps
<1>4. CASE (Finish(r, <<"error">>) \/ At(r, "count")) /\ chConnss' = chConnss
  <2>1. req[r].at \in Waiting
    BY <1>2 DEF Waiting
  <2>2. \E a \in {"count", "done"} : Early(r, a)
    BY <1>1, <1>4, <2>1, EarlyAt, EarlyFails
  <2>3. PICK a \in {"count", "done"} : Early(r, a)
    BY <2>2
  <2>4. Over' = Over
    BY <1>2, <2>3 DEF Over, Early
  <2>5. CountInv' /\ connNum' \in Int
    BY <1>1, <1>2, <2>4, MadeSame DEF CountInv, ClientTypeOK
  <2> QED BY <1>2, <1>4, <2>3, <2>5, EarlyKeeps
<1> QED BY <1>3, <1>4 DEF GetFree

LEMMA GetWaitKeeps ==
  ASSUME CInv, NEW r \in Reqs, GetWait(r)
  PROVE  CInv'
  BY TakeKeeps DEF GetWait

LEMMA FreshFacts ==
  Fresh \in HcRecord /\ Fresh.conn = NoConn /\ Fresh.handlers = <<>> /\ Len(Fresh.handlers) = 0
  BY EmptySeq DEF Fresh, NoConn, HcRecord

\* Reset makes a closed ClientConn usable again.
LEMMA ResetKeeps ==
  ASSUME CInv, NEW r \in Reqs, Reset(r)
  PROVE  CInv'
<1> DEFINE h == req[r].hc
<1>1. ClientTypeOK /\ CallsInv /\ UserInv /\ HandlersInv /\ CountInv /\ NetInv /\ AnswerInv /\ GotInv
  BY DEF CInv
<1>2. /\ req[r].at = "reset" /\ At(r, "do") /\ UNCHANGED <<cliClosed, crossed, closing, connNum, chConnss, net>>
      /\ hcs' = IF hcs[h].closed THEN [hcs EXCEPT ![h] = Fresh] ELSE hcs
  BY DEF Reset
<1>3. h \in 0 .. Made /\ h # Own /\ Uses(r, h)
  BY <1>1, <1>2, ReqFacts DEF UserInv, Uses
<1>4. Moves(r, "do")
  BY <1>1, <1>2, AtMoves
<1> HIDE DEF h
<1>5. /\ hcs' \in [0 .. Made -> HcRecord] /\ \A g \in 0 .. Made : g # h => hcs'[g] = hcs[g]
      /\ hcs'[h] = hcs[h] \/ hcs'[h] = Fresh
  <2>1. hcs \in [0 .. Made -> HcRecord]
    BY <1>1 DEF ClientTypeOK
  <2> QED BY <1>2, <1>3, <2>1, FreshFacts
<1>6. Made' = Made
  BY <1>1, <1>5, MadeSame DEF ClientTypeOK
<1>7. UserInv' /\ \A q \in Reqs : req'[q].hc \in 0 .. Made
  BY <1>1, <1>2, <1>4, <1>6, MovesUsers
<1>8. CallsInv'
  BY <1>1, <1>2, <1>4 DEF CallsInv, Moves
<1>9. CountInv'
  <2>1. Over' = Over
    BY <1>2, <1>4 DEF Over, Moves
  <2> QED BY <1>1, <1>2, <1>6, <2>1 DEF CountInv
<1>10. GotInv'
  BY <1>1, <1>2, <1>4 DEF GotInv, Pooled, Moves
<1>11. NetInv'
  BY <1>1, <1>2 DEF NetInv
<1>12. ClientTypeOK'
  <2>1. req' \in [Reqs -> ReqRecord]
    BY <1>4 DEF Moves
  <2>2. \A g \in 0 .. Made : hcs'[g].conn = hcs[g].conn \/ hcs'[g].conn = NoConn
    BY <1>5, FreshFacts
  <2>3. \A g \in 0 .. Made : hcs'[g].conn # NoConn => hcs'[g].conn \in 1 .. Len(net) /\ net[hcs'[g].conn].hc = g
    BY <1>1, <2>2 DEF ClientTypeOK
  <2> QED BY <1>1, <1>2, <1>5, <1>6, <1>7, <2>1, <2>3 DEF ClientTypeOK
<1>13. HandlersInv'
  <2> SUFFICES ASSUME NEW g \in 0 .. Made
               PROVE  /\ \A i \in 1 .. Len(hcs'[g].handlers) :
                           req'[hcs'[g].handlers[i]].at = "sent" /\ req'[hcs'[g].handlers[i]].hc = g
                      /\ \A i, j \in 1 .. Len(hcs'[g].handlers) : hcs'[g].handlers[i] = hcs'[g].handlers[j] => i = j
    BY <1>6 DEF HandlersInv
  <2>1. CASE hcs'[g] = Fresh
    BY <2>1, FreshFacts
  <2>2. CASE hcs'[g] = hcs[g]
    <3>1. \A i \in 1 .. Len(hcs[g].handlers) : hcs[g].handlers[i] \in Reqs /\ hcs[g].handlers[i] # r
      BY <1>1, <1>2, HcFacts DEF HandlersInv
    <3> QED BY <1>1, <1>4, <2>2, <3>1 DEF HandlersInv, Moves
  <2> QED BY <1>5, <2>1, <2>2
<1>14. AnswerInv'
  <2>1. ASSUME ~cliClosed, ~crossed, NEW k \in 1 .. Len(net), net[k].hc # Own PROVE AnswerOf(k)'
    <3>1. net' = net /\ net[k].hc \in 0 .. Made
      BY <1>1, <1>2, NetFacts
    <3>2. CASE net[k].hc # h
      BY <1>1, <1>5, <2>1, <3>1, <3>2, AnswerInvIs, AnswerOfSame
    <3>3. CASE net[k].hc = h
      <4>1. /\ \A i \in 1 .. Len(net[k].jobs) : net[k].jobs[i][1] # "response"
            /\ net[k].open => net[k].wire = <<>>
        BY <1>2, <1>3, <2>1, <3>3, NothingComes
      <4> QED BY <3>1, <4>1, AnswerOfNext
    <3> QED BY <3>2, <3>3
  <2> QED BY <1>2, <2>1 DEF AnswerInv, AnswerOf
<1> QED BY <1>7, <1>8, <1>9, <1>10, <1>11, <1>12, <1>13, <1>14 DEF CInv

\* The pool has one more ClientConn.
LEMMA HcsGrow ==
  ASSUME ClientTypeOK, NEW h, h = Cardinality(DOMAIN hcs), hcs' = [g \in DOMAIN hcs \cup {h} |-> IF g = h THEN Fresh ELSE hcs[g]]
  PROVE  /\ h = Made + 1 /\ Made' = h /\ hcs' \in [0 .. h -> HcRecord]
         /\ hcs'[h] = Fresh /\ \A g \in 0 .. Made : hcs'[g] = hcs[g]
<1>1. hcs \in [0 .. Made -> HcRecord] /\ Made \in Nat /\ DOMAIN hcs = 0 .. Made
  BY DEF ClientTypeOK
<1>2. Cardinality(0 .. Made) = Made + 1 /\ Cardinality(0 .. Made + 1) = Made + 2
  <2>1. 0 \in Int /\ Made \in Int /\ Made + 1 \in Int /\ ~(0 > Made) /\ ~(0 > Made + 1)
    BY <1>1
  <2>2. Cardinality(0 .. Made) = Made - 0 + 1 /\ Cardinality(0 .. (Made + 1)) = (Made + 1) - 0 + 1
    BY <2>1, FS_Interval
  <2> QED BY <1>1, <2>2
<1>3. h = Made + 1
  BY <1>1, <1>2
<1>5. (0 .. Made) \cup {h} = 0 .. h /\ h \notin 0 .. Made /\ h \in 0 .. h
  BY <1>1, <1>3
<1>6. hcs' = [g \in 0 .. h |-> IF g = h THEN Fresh ELSE hcs[g]]
  BY <1>1, <1>5
<1>7. /\ hcs' \in [0 .. h -> HcRecord] /\ hcs'[h] = Fresh /\ \A g \in 0 .. Made : hcs'[g] = hcs[g]
  BY <1>1, <1>5, <1>6, FreshFacts
<1>8. Made' = h
  <2>1. DOMAIN hcs' = 0 .. Made + 1
    BY <1>3, <1>6
  <2>2. Made' = Cardinality(DOMAIN hcs') - 1
    BY DEF Made
  <2> QED BY <1>1, <1>2, <1>3, <2>1, <2>2
<1> QED BY <1>3, <1>7, <1>8

LEMMA GetNewKeeps ==
  ASSUME CInv, NEW r \in Reqs, GetNew(r)
  PROVE  CInv'
<1>1. ClientTypeOK /\ CallsInv /\ UserInv /\ HandlersInv /\ CountInv /\ NetInv /\ AnswerInv /\ GotInv
  BY DEF CInv
<1>2. /\ req[r].at = "count" /\ connNum' = connNum + 1
      /\ UNCHANGED <<cliClosed, crossed, closing, chConnss, net>>
  BY DEF GetNew
<1>3. /\ IsFiniteSet(Over) /\ connNum = Made + Cardinality(Over) /\ Made <= MaxConnNum /\ Made \in Nat
      /\ Cardinality(Over) \in Nat /\ MaxConnNum \in Nat
  BY <1>1, FS_CardinalityType, ClientAssumption DEF CountInv, ClientTypeOK
<1>4. CASE ~(connNum + 1 <= MaxConnNum)
  <2>1. At(r, "over") /\ hcs' = hcs
    BY <1>4 DEF GetNew
  <2>2. Early(r, "over")
    BY <1>1, <1>2, <2>1, EarlyAt DEF Waiting
  <2>3. Over' = Over \cup {r} /\ r \notin Over
    BY <1>2, <2>2 DEF Over, Early
  <2>4. IsFiniteSet(Over') /\ Cardinality(Over') = Cardinality(Over) + 1
    BY <1>3, <2>3, FS_AddElement
  <2>5. Made' = Made
    BY <2>1, MadeSame
  <2>6. connNum' \in Int /\ connNum' = Made + Cardinality(Over')
    BY <1>2, <1>3, <2>4
  <2>7. CountInv'
    BY <1>3, <2>4, <2>5, <2>6 DEF CountInv
  <2> QED BY <1>2, <2>1, <2>2, <2>6, <2>7, EarlyKeeps
<1>5. CASE connNum + 1 <= MaxConnNum
  <2> DEFINE h == Cardinality(DOMAIN hcs)
  <2>1. hcs' = [g \in DOMAIN hcs \cup {h} |-> IF g = h THEN Fresh ELSE hcs[g]] /\ req' = [req EXCEPT ![r].at = "reset", ![r].hc = h]
    BY <1>5 DEF GetNew
  <2>2. /\ h = Made + 1 /\ Made' = h /\ hcs' \in [0 .. h -> HcRecord]
        /\ hcs'[h] = Fresh /\ \A g \in 0 .. Made : hcs'[g] = hcs[g]
    BY <1>1, <2>1, HcsGrow
  <2> HIDE DEF h
  <2>3. /\ h \in Nat /\ h # Own /\ h \notin 0 .. Made /\ 0 .. Made \subseteq 0 .. h /\ 1 .. Made \subseteq 1 .. h
        /\ h \in 0 .. h /\ \A g \in 0 .. h : g \in 0 .. Made \/ g = h
    BY <1>3, <2>2 DEF Own
  <2>4. \A g \in 1 .. h : g \in 1 .. Made \/ g = h
    BY <1>3, <2>2
  <2>5. /\ req'[r] = [req[r] EXCEPT !.at = "reset", !.hc = h] /\ req[r] \in ReqRecord
        /\ \A q \in Reqs : q # r => req'[q] = req[q]
    BY <1>1, <2>1 DEF ClientTypeOK
  <2>6. /\ req'[r] \in ReqRecord /\ req'[r].at = "reset" /\ req'[r].hc = h
        /\ req'[r].calls = req[r].calls /\ req'[r].got = req[r].got
    BY <2>3, <2>5 DEF ReqRecord
  <2>7. \A q \in Reqs : q # r => req'[q] = req[q]
    BY <2>5
  <2>8. req' \in [Reqs -> ReqRecord]
    BY <1>1, <2>1, <2>6, <2>7 DEF ClientTypeOK
  <2>9. \A q \in Reqs : req[q].hc \in 0 .. Made
    BY <1>1 DEF ClientTypeOK
  <2>10. CallsInv'
    BY <1>1, <1>2, <2>6, <2>7 DEF CallsInv
  <2>11. CountInv'
    <3>1. Over' = Over
      BY <1>2, <2>6, <2>7 DEF Over
    <3>2. h <= MaxConnNum /\ connNum + 1 = h + Cardinality(Over)
      BY <1>3, <1>5, <2>2
    <3> QED BY <1>2, <1>3, <2>2, <3>1, <3>2 DEF CountInv
  <2>12. GotInv'
    <3>1. req'[r].got = <<>>
      BY <1>1, <1>2, <2>6 DEF CallsInv
    <3> QED BY <1>1, <1>2, <2>7, <3>1 DEF GotInv, Pooled
  <2>13. NetInv'
    BY <1>1, <1>2 DEF NetInv
  <2>14. \A g \in 0 .. h : hcs'[g].conn # NoConn => hcs'[g].conn \in 1 .. Len(net) /\ net[hcs'[g].conn].hc = g
    <3>1. hcs'[h].conn = NoConn
      BY <2>2, FreshFacts
    <3> QED BY <1>1, <2>2, <2>3, <3>1 DEF ClientTypeOK
  <2>15. ClientTypeOK'
    <3>1. closing \subseteq 1 .. h /\ (closing # {} => cliClosed) /\ cliClosed \in BOOLEAN /\ crossed \in BOOLEAN
      BY <1>1, <2>3 DEF ClientTypeOK
    <3>2. chConnss \in Seq(1 .. h)
      BY <1>1, <2>3, SeqMonotonic DEF ClientTypeOK
    <3>3. \A q \in Reqs : req'[q].hc \in 0 .. h
      BY <2>3, <2>6, <2>7, <2>9
    <3>4. net \in Seq(NetRecord) /\ \A k \in 1 .. Len(net) : net[k].hc \in 0 .. h
      BY <1>1, <2>3 DEF ClientTypeOK
    <3>5. connNum' \in Int
      BY <1>1, <1>2 DEF ClientTypeOK
    <3> QED BY <1>2, <2>2, <2>3, <2>8, <2>14, <3>1, <3>2, <3>3, <3>4, <3>5 DEF ClientTypeOK
  <2>16. HandlersInv'
    <3> SUFFICES ASSUME NEW g \in 0 .. h
                 PROVE  /\ \A i \in 1 .. Len(hcs'[g].handlers) :
                             req'[hcs'[g].handlers[i]].at = "sent" /\ req'[hcs'[g].handlers[i]].hc = g
                        /\ \A i, j \in 1 .. Len(hcs'[g].handlers) : hcs'[g].handlers[i] = hcs'[g].handlers[j] => i = j
      BY <2>2 DEF HandlersInv
    <3>1. CASE g = h
      BY <2>2, <3>1, FreshFacts
    <3>2. CASE g \in 0 .. Made
      <4>1. \A i \in 1 .. Len(hcs[g].handlers) : hcs[g].handlers[i] \in Reqs /\ hcs[g].handlers[i] # r
        BY <1>1, <1>2, <3>2, HcFacts DEF HandlersInv
      <4> QED BY <1>1, <2>2, <2>7, <3>2, <4>1 DEF HandlersInv
    <3> QED BY <2>3, <3>1, <3>2
  <2>17. AnswerInv'
    <3>1. ASSUME ~cliClosed, ~crossed, NEW k \in 1 .. Len(net), net[k].hc # Own PROVE AnswerOf(k)'
      <4>1. net' = net /\ net[k].hc \in 0 .. Made
        BY <1>1, <1>2, NetFacts
      <4> QED BY <1>1, <2>2, <3>1, <4>1, AnswerInvIs, AnswerOfSame
    <3> QED BY <1>2, <3>1 DEF AnswerInv, AnswerOf
  <2>18. UserInv'
    <3>1. \A q \in Reqs : \A g : UsesNext(q, g) <=> Uses(q, g) \/ (q = r /\ g = h)
      <4> SUFFICES ASSUME NEW q \in Reqs, NEW g PROVE UsesNext(q, g) <=> Uses(q, g) \/ (q = r /\ g = h)
        OBVIOUS
      <4>1. CASE q = r
        <5>1. ~Uses(q, g)
          BY <1>2, <4>1 DEF Uses
        <5> QED BY <2>6, <4>1, <5>1 DEF UsesNext
      <4>2. CASE q # r
        BY <2>7, <4>2 DEF Uses, UsesNext
      <4> QED BY <4>1, <4>2
    <3>2. \A q \in Reqs : ~Uses(q, h)
      BY <2>3, <2>9 DEF Uses
    <3>3. \A i \in 1 .. Len(chConnss) : chConnss[i] # h
      BY <1>1, <2>2, <2>3, HcFacts
    <3>4. \A q \in Reqs : \A i \in 1 .. Len(chConnss) : ~UsesNext(q, chConnss[i])
      BY <1>1, <3>1, <3>3 DEF UserInv
    <3>5. \A g \in 1 .. h : (\E q \in Reqs : UsesNext(q, g)) \/ \E i \in 1 .. Len(chConnss) : chConnss[i] = g
      BY <1>1, <2>4, <3>1 DEF UserInv
    <3>6. \A q \in Reqs : req'[q].at \in {"new", "get", "count", "over", "wait"} => req'[q].hc = Own
      BY <1>1, <2>6, <2>7 DEF UserInv
    <3>7. \A q \in Reqs : req'[q].at = "reset" => req'[q].hc # Own
      BY <1>1, <2>3, <2>6, <2>7 DEF UserInv
    <3>8. \A q, p \in Reqs : UsesNext(q, req'[q].hc) /\ UsesNext(p, req'[q].hc) /\ req'[q].hc # Own => q = p
      <4> SUFFICES ASSUME NEW q \in Reqs, NEW p \in Reqs, NEW g, g # Own, UsesNext(q, g), UsesNext(p, g)
                   PROVE  q = p
        OBVIOUS
      <4>1. CASE g = h
        BY <3>1, <3>2, <4>1
      <4>2. CASE g # h
        <5>1. Uses(q, g) /\ Uses(p, g)
          BY <3>1, <4>2
        <5> QED BY <1>1, <5>1 DEF UserInv, Uses
      <4> QED BY <4>1, <4>2
    <3>9. \A i, j \in 1 .. Len(chConnss) : chConnss[i] = chConnss[j] => i = j
      BY <1>1 DEF UserInv
    <3> QED BY <1>2, <2>2, <3>4, <3>5, <3>6, <3>7, <3>8, <3>9 DEF UserInv, Uses, UsesNext
  <2> QED BY <2>10, <2>11, <2>12, <2>13, <2>15, <2>16, <2>17, <2>18 DEF CInv
<1> QED BY <1>4, <1>5

-----------------------------------------------------------------------------
(* Steps of the connections.                                               *)

\* A job is added to those of k.
JobAdded(k, j, w, b) ==
  /\ net' = [i \in 1 .. Len(net) |-> net'[i]] /\ \A i \in 1 .. Len(net) : i # k => net'[i] = net[i]
  /\ net'[k] \in NetRecord /\ net'[k].hc = net[k].hc /\ net'[k].wire = w /\ net'[k].junk = net[k].junk
  /\ net'[k].jobs = Append(net[k].jobs, j) /\ (net'[k].notified <=> b) /\ (net'[k].open <=> net[k].open)

LEMMA ReplyAdds ==
  ASSUME ClientTypeOK, NEW k \in 1 .. Len(net), Reply(k)
  PROVE  JobAdded(k, <<"response", Head(net[k].wire)>>, Tail(net[k].wire), net[k].notified)
<1> DEFINE j == <<"response", Head(net[k].wire)>>  w == Tail(net[k].wire)
<1>1. net[k].wire # <<>> /\ net' = [net EXCEPT ![k].wire = w, ![k].jobs = Append(@, j)]
  BY DEF Reply
<1>2. net[k] \in NetRecord /\ net[k].wire \in Seq(Reqs) /\ net[k].jobs \in Seq(Jobs) /\ DOMAIN net = 1 .. Len(net)
  BY NetFacts
<1>3. w \in Seq(Reqs) /\ Head(net[k].wire) \in Reqs
  BY <1>1, <1>2, TailSeq
<1>4. j \in Jobs
  BY <1>3, JobFacts
<1>5. Append(net[k].jobs, j) \in Seq(Jobs)
  BY <1>2, <1>4, AppendSeq
<1> HIDE DEF j, w
<1>6. /\ net' = [i \in 1 .. Len(net) |-> net'[i]] /\ \A i \in 1 .. Len(net) : i # k => net'[i] = net[i]
      /\ net'[k] = [net[k] EXCEPT !.wire = w, !.jobs = Append(net[k].jobs, j)]
  BY <1>1, <1>2
<1>7. net'[k] \in NetRecord /\ net'[k].hc = net[k].hc /\ net'[k].wire = w /\ net'[k].junk = net[k].junk
      /\ net'[k].jobs = Append(net[k].jobs, j)
  BY <1>2, <1>3, <1>5, <1>6 DEF NetRecord
<1>8. (net'[k].notified <=> net[k].notified) /\ (net'[k].open <=> net[k].open)
  BY <1>2, <1>6 DEF NetRecord
<1>9. JobAdded(k, j, w, net[k].notified)
  BY <1>6, <1>7, <1>8 DEF JobAdded
<1> QED BY <1>9 DEF j, w

LEMMA NotifyAdds ==
  ASSUME ClientTypeOK, NEW k \in 1 .. Len(net), NetNotifies(k)
  PROVE  JobAdded(k, <<"close">>, net[k].wire, TRUE)
<1> DEFINE j == <<"close">>
<1>1. net' = [net EXCEPT ![k].notified = TRUE, ![k].jobs = Append(@, j)]
  BY DEF NetNotifies
<1>2. net[k] \in NetRecord /\ net[k].jobs \in Seq(Jobs) /\ DOMAIN net = 1 .. Len(net)
  BY NetFacts
<1>3. Append(net[k].jobs, j) \in Seq(Jobs)
  BY <1>2, JobFacts, AppendSeq
<1> HIDE DEF j
<1>4. /\ net' = [i \in 1 .. Len(net) |-> net'[i]] /\ \A i \in 1 .. Len(net) : i # k => net'[i] = net[i]
      /\ net'[k] = [net[k] EXCEPT !.notified = TRUE, !.jobs = Append(net[k].jobs, j)]
  BY <1>1, <1>2
<1>5. net'[k] \in NetRecord /\ net'[k].hc = net[k].hc /\ net'[k].wire = net[k].wire /\ net'[k].junk = net[k].junk
      /\ net'[k].jobs = Append(net[k].jobs, j)
  BY <1>2, <1>3, <1>4 DEF NetRecord
<1>6. (net'[k].notified <=> TRUE) /\ (net'[k].open <=> net[k].open)
  BY <1>2, <1>4 DEF NetRecord
<1>7. JobAdded(k, j, net[k].wire, TRUE)
  BY <1>4, <1>5, <1>6, Zenon DEF JobAdded
<1> QED BY <1>7 DEF j

LEMMA JobAddedKeeps ==
  ASSUME CInv, NEW k \in 1 .. Len(net), NEW j \in Jobs, NEW w, NEW b, JobAdded(k, j, w, b),
         UNCHANGED <<cliClosed, crossed, closing, connNum, chConnss, req, hcs>>,
         ~net[k].notified, j[1] = "close" <=> b, b => ~net[k].open,
         ~cliClosed /\ ~crossed /\ net[k].hc # Own => AnswerOf(k)'
  PROVE  CInv'
<1>1. ClientTypeOK /\ CallsInv /\ UserInv /\ HandlersInv /\ CountInv /\ NetInv /\ AnswerInv /\ GotInv
  BY DEF CInv
<1>2. Made' = Made
  BY MadeSame
<1>3. CallsInv' /\ UserInv' /\ HandlersInv' /\ GotInv'
  BY <1>1, <1>2 DEF CallsInv, UserInv, HandlersInv, GotInv, Uses, Pooled
<1>4. CountInv'
  <2>1. Over' = Over
    BY DEF Over
  <2> QED BY <1>1, <1>2, <2>1 DEF CountInv
<1>5. \A i \in 1 .. Len(net) : net[i] \in NetRecord /\ net[i].hc \in 0 .. Made
  BY <1>1, NetFacts
<1>6. net' \in Seq(NetRecord) /\ Len(net') = Len(net)
  <2>1. net' \in [1 .. Len(net) -> NetRecord]
    BY <1>5 DEF JobAdded
  <2> QED BY <1>1, <2>1, NetSeq
<1>7. \A i \in 1 .. Len(net) : net'[i].hc = net[i].hc
  BY DEF JobAdded
<1>8. ClientTypeOK'
  BY <1>1, <1>2, <1>5, <1>6, <1>7 DEF ClientTypeOK
<1>9. NetInv'
  <2> DEFINE s == net[k].jobs  t == net'[k].jobs
  <2>1. s \in Seq(Jobs) /\ Len(s) \in Nat
    BY <1>1, NetFacts
  <2>2. Len(t) = Len(s) + 1 /\ (\A i \in 1 .. Len(s) : t[i] = s[i]) /\ t[Len(s) + 1] = j
    BY <2>1, AppendSeq DEF JobAdded
  <2>3. \A i \in 1 .. Len(s) : s[i][1] # "close"
    BY <1>1 DEF NetInv
  <2>4. net'[k].junk = 0 /\ (net'[k].notified => ~net'[k].open) /\ (net'[k].notified <=> j[1] = "close")
    BY <1>1 DEF NetInv, JobAdded
  <2> HIDE DEF s, t
  <2>5. \A i \in 1 .. Len(t) : i \in 1 .. Len(s) \/ i = Len(s) + 1
    BY <2>1, <2>2
  <2>6. \A i \in 1 .. Len(t) : t[i][1] = "close" => net'[k].notified /\ i = Len(t)
    BY <2>2, <2>3, <2>4, <2>5
  <2>7. \A i \in 1 .. Len(net'[k].jobs) : net'[k].jobs[i][1] = "close" => net'[k].notified /\ i = Len(net'[k].jobs)
    BY <2>6 DEF t
  <2>8. ASSUME NEW n \in 1 .. Len(net)
        PROVE  /\ net'[n].junk = 0 /\ (net'[n].notified => ~net'[n].open)
               /\ \A i \in 1 .. Len(net'[n].jobs) :
                    net'[n].jobs[i][1] = "close" => net'[n].notified /\ i = Len(net'[n].jobs)
    <3>1. CASE n = k
      BY <2>4, <2>7, <3>1
    <3>2. CASE n # k
      <4>1. net'[n] = net[n]
        BY <3>2 DEF JobAdded
      <4> QED BY <1>1, <4>1 DEF NetInv
    <3> QED BY <3>1, <3>2
  <2> QED BY <1>6, <2>8 DEF NetInv
<1>10. AnswerInv'
  <2>1. ASSUME ~cliClosed, ~crossed, NEW n \in 1 .. Len(net'), net'[n].hc # Own PROVE AnswerOf(n)'
    <3>1. n \in 1 .. Len(net) /\ net[n].hc # Own
      BY <1>6, <1>7, <2>1
    <3>2. CASE n = k
      BY <2>1, <3>1, <3>2
    <3>3. CASE n # k
      <4>1. net'[n] = net[n]
        BY <3>1, <3>3 DEF JobAdded
      <4> QED BY <1>1, <2>1, <3>1, <4>1, AnswerInvIs, AnswerOfSame
    <3> QED BY <3>2, <3>3
  <2> QED BY <2>1 DEF AnswerInv, AnswerOf
<1> QED BY <1>3, <1>4, <1>8, <1>9, <1>10 DEF CInv

LEMMA ReplyKeeps ==
  ASSUME CInv, NEW k \in 1 .. Len(net), Reply(k)
  PROVE  CInv'
<1> DEFINE r == Head(net[k].wire)  j == <<"response", r>>  w == Tail(net[k].wire)  s == net[k].jobs  t == net'[k].jobs
<1>1. ClientTypeOK /\ NetInv /\ AnswerInv
  BY DEF CInv
<1>2. /\ net[k].open /\ net[k].wire # <<>>
      /\ UNCHANGED <<cliClosed, crossed, closing, connNum, chConnss, req, hcs>>
  BY DEF Reply
<1>3. JobAdded(k, j, w, net[k].notified)
  BY <1>1, ReplyAdds
<1>4. net[k].wire \in Seq(Reqs) /\ s \in Seq(Jobs) /\ Len(s) \in Nat
  BY <1>1, NetFacts
<1>5. r \in Reqs /\ r = net[k].wire[1] /\ w \in Seq(Reqs) /\ Len(w) = Len(net[k].wire) - 1
  BY <1>2, <1>4, TailSeq
<1>6. j \in Jobs /\ j[1] = "response" /\ j[2] = r
  BY <1>5, JobFacts
<1>7. ~net[k].notified
  BY <1>1, <1>2 DEF NetInv
<1>8. net'[k].hc = net[k].hc /\ net'[k].wire = w /\ net'[k].jobs = Append(s, j)
  BY <1>3 DEF JobAdded
<1>9. Len(t) = Len(s) + 1 /\ (\A i \in 1 .. Len(s) : t[i] = s[i]) /\ t[Len(s) + 1] = j
  BY <1>4, <1>6, <1>8, AppendSeq
<1>10. ASSUME ~cliClosed, ~crossed, net[k].hc # Own PROVE AnswerOf(k)'
  <2>1. AnswerOf(k)
    BY <1>1, <1>10, AnswerInvIs
  <2>2. Len(net[k].wire) = 1 /\ Waited(k, net[k].wire[1]) /\ ~Answered(k)
    BY <1>2, <2>1 DEF AnswerOf
  <2>3. w = <<>>
    <3>1. w \in Seq(Reqs) /\ Len(w) = 0
      BY <1>5, <2>2
    <3> HIDE DEF w
    <3> QED BY <3>1, SeqFacts
  <2>4. WaitedNext(k, r)
    BY <1>2, <1>5, <1>8, <2>2 DEF Waited, WaitedNext
  <2>5. \A i \in 1 .. Len(s) : s[i][1] # "response"
    BY <1>1, <2>2, AnsweredIs
  <2> HIDE DEF r, j, w, s, t
  <2>6. \A i \in 1 .. Len(t) : i \in 1 .. Len(s) \/ i = Len(s) + 1
    BY <1>4, <1>9
  <2>7. \A i \in 1 .. Len(t) : t[i][1] = "response" => i = Len(s) + 1 /\ t[i][2] = r
    BY <1>6, <1>9, <2>5, <2>6
  <2>8. /\ \A i \in 1 .. Len(t) : t[i][1] = "response" => WaitedNext(k, t[i][2])
        /\ \A i, n \in 1 .. Len(t) : t[i][1] = "response" /\ t[n][1] = "response" => i = n
    BY <2>4, <2>7
  <2>9. net'[k].wire = <<>>
    BY <1>8, <2>3
  <2> QED BY <2>8, <2>9, AnswerOfNext DEF t
<1>11. j[1] = "close" <=> net[k].notified
  BY <1>6, <1>7
<1> HIDE DEF r, j, w, s, t
<1> QED BY <1>2, <1>3, <1>6, <1>7, <1>10, <1>11, JobAddedKeeps

LEMMA NetNotifiesKeeps ==
  ASSUME CInv, NEW k \in 1 .. Len(net), NetNotifies(k)
  PROVE  CInv'
<1> DEFINE j == <<"close">>  s == net[k].jobs  t == net'[k].jobs
<1>1. ClientTypeOK /\ AnswerInv
  BY DEF CInv
<1>2. /\ ~net[k].open /\ ~net[k].notified
      /\ UNCHANGED <<cliClosed, crossed, closing, connNum, chConnss, req, hcs>>
  BY DEF NetNotifies
<1>3. JobAdded(k, j, net[k].wire, TRUE)
  BY <1>1, NotifyAdds
<1>4. s \in Seq(Jobs) /\ Len(s) \in Nat /\ j \in Jobs /\ j[1] = "close"
  BY <1>1, NetFacts, JobFacts
<1>5. net'[k].hc = net[k].hc /\ net'[k].jobs = Append(s, j) /\ ~net'[k].open
  BY <1>2, <1>3 DEF JobAdded
<1>6. Len(t) = Len(s) + 1 /\ (\A i \in 1 .. Len(s) : t[i] = s[i]) /\ t[Len(s) + 1] = j
  BY <1>4, <1>5, AppendSeq
<1>7. ASSUME ~cliClosed, ~crossed, net[k].hc # Own PROVE AnswerOf(k)'
  <2>1. AnswerOf(k)
    BY <1>1, <1>7, AnswerInvIs
  <2>2. /\ \A i \in 1 .. Len(s) : s[i][1] = "response" => Waited(k, s[i][2])
        /\ \A i, n \in 1 .. Len(s) : s[i][1] = "response" /\ s[n][1] = "response" => i = n
    BY <2>1 DEF AnswerOf
  <2> HIDE DEF j, s, t
  <2>3. \A i \in 1 .. Len(t) : i \in 1 .. Len(s) \/ i = Len(s) + 1
    BY <1>4, <1>6
  <2>4. \A i \in 1 .. Len(t) : t[i][1] = "response" => i \in 1 .. Len(s) /\ t[i] = s[i]
    BY <1>4, <1>6, <2>3
  <2>5. \A q : Waited(k, q) => WaitedNext(k, q)
    BY <1>2, <1>5 DEF Waited, WaitedNext
  <2>6. /\ \A i \in 1 .. Len(t) : t[i][1] = "response" => WaitedNext(k, t[i][2])
        /\ \A i, n \in 1 .. Len(t) : t[i][1] = "response" /\ t[n][1] = "response" => i = n
    BY <2>2, <2>4, <2>5
  <2> QED BY <1>5, <2>6, AnswerOfNext DEF t
<1>8. j[1] = "close" <=> TRUE
  BY <1>4
<1> HIDE DEF j, s, t
<1> QED BY <1>2, <1>3, <1>4, <1>7, <1>8, JobAddedKeeps

LEMMA NetClosesKeeps ==
  ASSUME CInv, NEW k \in 1 .. Len(net), NetCloses(k)
  PROVE  CInv'
<1>1. ClientTypeOK
  BY DEF CInv
<1>2. net' = [net EXCEPT ![k].open = FALSE] /\ UNCHANGED <<cliClosed, crossed, closing, connNum, chConnss, req, hcs>>
  BY DEF NetCloses
<1>3. NetLess
  BY <1>1, <1>2, NetShut
<1>4. SameCounts
  BY <1>1, <1>2 DEF SameCounts, ClientTypeOK
<1> QED BY <1>2, <1>3, <1>4, LessKeeps

\* The engine closes the connections of its dialers.
LEMMA CloseAllKeepsClient ==
  ASSUME CInv, closeAllConns
  PROVE  CInv'
<1>1. ClientTypeOK
  BY DEF CInv
<1>2. /\ net' = [k \in DOMAIN net |-> [net[k] EXCEPT !.open = @ /\ k \notin dialerConns]]
      /\ UNCHANGED <<cliClosed, crossed, closing, connNum, chConnss, req, hcs>>
  BY DEF closeAllConns
<1>3. DOMAIN net = 1 .. Len(net) /\ \A k \in 1 .. Len(net) : net[k] \in NetRecord
  BY <1>1, NetFacts
<1>4. ASSUME NEW k \in 1 .. Len(net)
      PROVE  /\ net'[k] \in NetRecord /\ net'[k].hc = net[k].hc /\ net'[k].wire = net[k].wire
             /\ net'[k].junk = net[k].junk /\ net'[k].jobs = net[k].jobs
             /\ (net'[k].notified <=> net[k].notified) /\ (net'[k].open => net[k].open)
  <2> DEFINE o == net[k].open /\ k \notin dialerConns
  <2>1. net'[k] = [net[k] EXCEPT !.open = o]
    BY <1>2, <1>3
  <2>2. o \in BOOLEAN /\ (o => net[k].open)
    BY Zenon
  <2>3. net[k] \in NetRecord
    BY <1>3
  <2> HIDE DEF o
  <2>4. net'[k] \in NetRecord
    BY <2>1, <2>2, <2>3 DEF NetRecord
  <2>5. /\ net'[k].hc = net[k].hc /\ net'[k].wire = net[k].wire
        /\ net'[k].junk = net[k].junk /\ net'[k].jobs = net[k].jobs
    BY <2>1, <2>3 DEF NetRecord
  <2>6. net'[k].notified = net[k].notified /\ net'[k].open = o
    BY <2>1, <2>3 DEF NetRecord
  <2> QED BY <2>2, <2>4, <2>5, <2>6
<1>5. net' \in [1 .. Len(net) -> NetRecord]
  <2>1. net' = [k \in 1 .. Len(net) |-> net'[k]]
    BY <1>2, <1>3
  <2> QED BY <1>4, <2>1
<1>6. net' \in Seq(NetRecord) /\ Len(net') = Len(net)
  BY <1>1, <1>5, NetSeq
<1>7. NetLess
  BY <1>4, <1>6 DEF NetLess
<1>8. SameCounts
  BY <1>1, <1>2 DEF SameCounts, ClientTypeOK
<1> QED BY <1>2, <1>7, <1>8, LessKeeps

LEMMA CloseClientKeeps ==
  ASSUME CInv, CloseClient
  PROVE  CInv'
<1>1. ClientTypeOK /\ CallsInv /\ UserInv /\ HandlersInv /\ CountInv /\ NetInv
  BY DEF CInv
<1>2. /\ cliClosed' = TRUE /\ closing' = DOMAIN hcs \ {Own}
      /\ UNCHANGED <<crossed, connNum, chConnss, req, hcs, net>>
  BY DEF CloseClient
<1>3. Made' = Made
  BY <1>2, MadeSame
<1>4. closing' \subseteq 1 .. Made
  BY <1>1, <1>2, HcFacts DEF Own
<1>5. CallsInv' /\ UserInv' /\ HandlersInv' /\ NetInv'
  BY <1>1, <1>2, <1>3 DEF CallsInv, UserInv, HandlersInv, Uses, NetInv
<1>6. CountInv'
  <2>1. Over' = Over
    BY <1>2 DEF Over
  <2> QED BY <1>1, <1>2, <1>3, <2>1 DEF CountInv
<1>7. AnswerInv' /\ GotInv'
  BY <1>2 DEF AnswerInv, GotInv
<1>8. cliClosed' \in BOOLEAN /\ (closing' # {} => cliClosed')
  BY <1>2, Zenon
<1>9. ClientTypeOK'
  BY <1>1, <1>2, <1>3, <1>4, <1>8 DEF ClientTypeOK
<1> QED BY <1>5, <1>6, <1>7, <1>9 DEF CInv

\* The first job of k is a response for the request the ClientConn waits for,
\* and the only one that h can get.
LEMMA OnlyResponse ==
  ASSUME CInv, ~cliClosed, ~crossed, NEW k \in 1 .. Len(net), net[k].hc # Own, net[k].jobs # <<>>,
         Head(net[k].jobs)[1] = "response"
  PROVE  /\ Waited(k, Head(net[k].jobs)[2])
         /\ \A i \in 1 .. Len(net[k].jobs) : net[k].jobs[i][1] = "response" => i = 1
         /\ net[k].open => net[k].wire = <<>>
         /\ \A n \in 1 .. Len(net) : n # k /\ net[n].hc = net[k].hc =>
              (\A i \in 1 .. Len(net[n].jobs) : net[n].jobs[i][1] # "response") /\ (net[n].open => net[n].wire = <<>>)
<1>1. ClientTypeOK /\ AnswerInv
  BY DEF CInv
<1>2. AnswerOf(k)
  BY <1>1, AnswerInvIs
<1>3. net[k].jobs \in Seq(Jobs) /\ Len(net[k].jobs) \in Nat
  BY <1>1, NetFacts
<1>4. Len(net[k].jobs) # 0 /\ Head(net[k].jobs) = net[k].jobs[1]
  BY <1>3, SeqFacts, TailSeq
<1>5. 1 \in 1 .. Len(net[k].jobs)
  BY <1>3, <1>4
<1>6. Waited(k, Head(net[k].jobs)[2])
  BY <1>2, <1>4, <1>5 DEF AnswerOf
<1>7. \A i \in 1 .. Len(net[k].jobs) : net[k].jobs[i][1] = "response" => i = 1
  BY <1>2, <1>4, <1>5 DEF AnswerOf
<1>8. Answered(k)
  BY <1>1, <1>4, <1>5, AnsweredIs
<1>9. net[k].open => net[k].wire = <<>>
  BY <1>2, <1>8 DEF AnswerOf
<1>10. hcs[net[k].hc].conn = k
  BY <1>6 DEF Waited
<1>11. ASSUME NEW n \in 1 .. Len(net), n # k, net[n].hc = net[k].hc
       PROVE  (\A i \in 1 .. Len(net[n].jobs) : net[n].jobs[i][1] # "response") /\ (net[n].open => net[n].wire = <<>>)
  <2>1. AnswerOf(n)
    BY <1>1, <1>11, AnswerInvIs
  <2>2. \A q : ~Waited(n, q)
    BY <1>10, <1>11 DEF Waited
  <2> QED BY <2>1, <2>2 DEF AnswerOf
<1> QED BY <1>6, <1>7, <1>9, <1>11

LEMMA onResponseKeeps ==
  ASSUME CInv, NEW k \in 1 .. Len(net), net[k].jobs # <<>>, NEW r, Head(net[k].jobs)[1] = "response",
         r = Head(net[k].jobs)[2], onResponse(k, r), UNCHANGED <<cliClosed, crossed, closing, connNum>>
  PROVE  CInv'
<1> DEFINE h == net[k].hc  rs == hcs[h].handlers  q == Head(rs)
<1>1. ClientTypeOK /\ UserInv /\ HandlersInv
  BY DEF CInv
<1>2. net' = [net EXCEPT ![k].jobs = Tail(@)]
  BY DEF onResponse
<1>3. /\ NetLess /\ net'[k].jobs = Tail(net[k].jobs)
      /\ \A j \in 1 .. Len(net) : j # k => net'[j] = net[j]
      /\ net'[k].open <=> net[k].open
  BY <1>1, <1>2, NetTakes
<1>4. SameCounts
  BY <1>1 DEF SameCounts, ClientTypeOK
<1>5. net[k].jobs \in Seq(Jobs) /\ Len(net[k].jobs) \in Nat /\ h \in 0 .. Made
  BY <1>1, NetFacts
<1>6. r \in Reqs
  <2>1. Head(net[k].jobs) \in Jobs
    BY <1>5, TailSeq
  <2> QED BY <2>1, JobFacts
<1>7. rs \in Seq(Reqs) /\ Len(rs) \in Nat
  BY <1>1, <1>5, HcFacts
<1>8. CASE hcs[h].closed \/ rs = <<>>
  <2>1. req' = req /\ hcs' = hcs /\ chConnss' = chConnss
    BY <1>8 DEF onResponse
  <2> QED BY <1>3, <1>4, <2>1, LessKeeps
<1>9. CASE ~(hcs[h].closed \/ rs = <<>>)
  <2>1. Call(h, <<q>>, <<"response", r>>) /\ hcs' = [hcs EXCEPT ![h].handlers = Tail(@)]
    BY <1>9 DEF onResponse
  <2>2. /\ q \in Reqs /\ q = rs[1] /\ Tail(rs) \in Seq(Reqs) /\ Len(Tail(rs)) = Len(rs) - 1
        /\ \A i \in 1 .. Len(rs) - 1 : Tail(rs)[i] = rs[i + 1]
    BY <1>7, <1>9, TailSeq
  <2>3. Len(rs) # 0
    BY <1>7, <1>9, SeqFacts
  <2>4. /\ \A i \in 1 .. Len(rs) : req[rs[i]].at = "sent" /\ req[rs[i]].hc = h
        /\ \A i, j \in 1 .. Len(rs) : rs[i] = rs[j] => i = j
        /\ \A i \in 1 .. Len(rs) : rs[i] \in Reqs
    BY <1>1, <1>5, HcFacts DEF HandlersInv
  <2>5. hcs \in [0 .. Made -> HcRecord] /\ hcs[h] \in HcRecord /\ hcs'[h] = [hcs[h] EXCEPT !.handlers = Tail(rs)]
    BY <1>1, <1>5, <2>1 DEF ClientTypeOK
  <2>6. hcs'[h] \in HcRecord /\ hcs'[h].handlers = Tail(rs) /\ hcs'[h].conn = hcs[h].conn
    BY <2>2, <2>5 DEF HcRecord
  <2>7. OnlyHc(h)
    BY <1>5, <2>1, <2>5, <2>6 DEF OnlyHc
  <2>8. ~cliClosed /\ ~crossed /\ h # Own => NoAnswer(h) /\ q = r
    <3> SUFFICES ASSUME ~cliClosed, ~crossed, h # Own PROVE NoAnswer(h) /\ q = r
      OBVIOUS
    <3>1. /\ Waited(k, r)
          /\ \A i \in 1 .. Len(net[k].jobs) : net[k].jobs[i][1] = "response" => i = 1
          /\ net[k].open => net[k].wire = <<>>
          /\ \A n \in 1 .. Len(net) : n # k /\ net[n].hc = net[k].hc =>
               (\A i \in 1 .. Len(net[n].jobs) : net[n].jobs[i][1] # "response") /\ (net[n].open => net[n].wire = <<>>)
      BY OnlyResponse
    <3>2. rs = <<r>>
      BY <3>1 DEF Waited
    <3>3. q = r
      BY <3>2
    <3>4. \A i \in 1 .. Len(net'[k].jobs) : i + 1 \in 1 .. Len(net[k].jobs) /\ net'[k].jobs[i] = net[k].jobs[i + 1] /\ i + 1 # 1
      <4>1. Len(Tail(net[k].jobs)) = Len(net[k].jobs) - 1
            /\ \A i \in 1 .. Len(net[k].jobs) - 1 : Tail(net[k].jobs)[i] = net[k].jobs[i + 1]
        BY <1>5, TailSeq
      <4> QED BY <1>3, <1>5, <4>1
    <3>5. \A i \in 1 .. Len(net'[k].jobs) : net'[k].jobs[i][1] # "response"
      BY <3>1, <3>4
    <3>6. NoAnswer(h)
      <4> SUFFICES ASSUME NEW n \in 1 .. Len(net), net[n].hc = h
                   PROVE  /\ \A i \in 1 .. Len(net'[n].jobs) : net'[n].jobs[i][1] # "response"
                          /\ net'[n].open => net[n].wire = <<>>
        BY DEF NoAnswer
      <4>1. CASE n = k
        BY <1>3, <3>1, <3>5, <4>1
      <4>2. CASE n # k
        BY <1>3, <3>1, <4>2
      <4> QED BY <4>1, <4>2
    <3> QED BY <3>3, <3>6
  <2> HIDE DEF h, rs, q
  <2>9. 1 \in 1 .. Len(rs)
    BY <1>7, <2>3
  <2>10. UnderWay(h, <<q>>)
    <3>1. req[q].hc = h /\ req[q].at = "sent"
      BY <2>2, <2>4, <2>9
    <3> QED BY <2>2, <3>1 DEF UnderWay
  <2>11. Freed(h, {q}) /\ req'[q].got = <<"response", r>>
    <3>1. Freed(h, ToSet(<<q>>)) /\ \A p \in ToSet(<<q>>) : req'[p].got = <<"response", r>>
      BY <1>1, <1>5, <1>6, <2>1, <2>10, OutcomeFacts, CallFrees
    <3>2. ToSet(<<q>>) = {q}
      BY DEF ToSet
    <3> QED BY <3>1, <3>2
  <2>12. HandlersLeft(h, {q})
    <3> DEFINE t == Tail(rs)
    <3>1. \A i \in 1 .. Len(t) : i + 1 \in 1 .. Len(rs) /\ t[i] = rs[i + 1] /\ i \in Int /\ i + 1 # 1
      BY <1>7, <2>2
    <3> HIDE DEF t
    <3>2. \A i \in 1 .. Len(t) : t[i] \in Reqs /\ t[i] # q /\ req[t[i]].at = "sent" /\ req[t[i]].hc = h
      BY <2>2, <2>4, <2>9, <3>1
    <3>3. ASSUME NEW i \in 1 .. Len(t), NEW j \in 1 .. Len(t), t[i] = t[j] PROVE i = j
      <4>1. i + 1 = j + 1 /\ i \in Int /\ j \in Int
        BY <2>4, <3>1, <3>3
      <4> QED BY <4>1
    <3>4. hcs'[h].handlers = t
      BY <2>6 DEF t
    <3> QED BY <3>2, <3>3, <3>4 DEF HandlersLeft
  <2>13. cliClosed \/ crossed' \/ h = Own \/ (NoAnswer(h) /\ OutcomeOf({q}))
    BY <2>8, <2>11 DEF OutcomeOf
  <2> QED BY <1>3, <1>4, <1>5, <2>7, <2>11, <2>12, <2>13, FreedKeeps
<1> QED BY <1>8, <1>9

\* The first job of k is taken and connection c is closed.
TakesAndShuts(k, c) ==
  /\ net' = [i \in 1 .. Len(net) |-> net'[i]]
  /\ \A i \in 1 .. Len(net) :
       /\ net'[i] \in NetRecord /\ net'[i].hc = net[i].hc /\ net'[i].wire = net[i].wire /\ net'[i].junk = net[i].junk
       /\ (net'[i].notified <=> net[i].notified) /\ (net'[i].open <=> net[i].open /\ i # c)
       /\ net'[i].jobs = IF i = k THEN Tail(net[i].jobs) ELSE net[i].jobs

LEMMA TakesAndShutsLess ==
  ASSUME ClientTypeOK, NEW k \in 1 .. Len(net), net[k].jobs # <<>>, NEW c, TakesAndShuts(k, c)
  PROVE  NetLess
<1>1. net' \in [1 .. Len(net) -> NetRecord]
  BY DEF TakesAndShuts
<1>2. net' \in Seq(NetRecord) /\ Len(net') = Len(net)
  BY <1>1, NetSeq
<1> QED BY <1>2 DEF NetLess, TakesAndShuts

CleanNet(k, c) ==
  net' = [j \in DOMAIN net |-> [net[j] EXCEPT !.jobs = IF j = k THEN Tail(@) ELSE @, !.open = @ /\ j # c]]

LEMMA CleanShuts ==
  ASSUME ClientTypeOK, NEW k \in 1 .. Len(net), net[k].jobs # <<>>, NEW c,
         CleanNet(k, c)
  PROVE  TakesAndShuts(k, c)
<1>1. /\ DOMAIN net = 1 .. Len(net)
      /\ \A i \in 1 .. Len(net) : net[i] \in NetRecord /\ net[i].jobs \in Seq(Jobs)
  BY NetFacts
<1>2. net' = [i \in 1 .. Len(net) |-> net'[i]]
  BY <1>1 DEF CleanNet
<1>3. ASSUME NEW i \in 1 .. Len(net)
      PROVE  /\ net'[i] \in NetRecord /\ net'[i].hc = net[i].hc /\ net'[i].wire = net[i].wire /\ net'[i].junk = net[i].junk
             /\ (net'[i].notified <=> net[i].notified) /\ (net'[i].open <=> net[i].open /\ i # c)
             /\ net'[i].jobs = IF i = k THEN Tail(net[i].jobs) ELSE net[i].jobs
  <2> DEFINE o == net[i].open /\ i # c  s == IF i = k THEN Tail(net[i].jobs) ELSE net[i].jobs
  <2>1. net[i] \in NetRecord
    BY <1>1
  <2>2. o \in BOOLEAN /\ (o <=> net[i].open /\ i # c)
    BY Zenon
  <2>3. s \in Seq(Jobs)
    BY <1>1, TailSeq
  <2>4. net'[i] = [net[i] EXCEPT !.jobs = s, !.open = o]
    BY <1>1 DEF CleanNet
  <2>5. s = IF i = k THEN Tail(net[i].jobs) ELSE net[i].jobs
    OBVIOUS
  <2> HIDE DEF o, s
  <2>6. net'[i] \in NetRecord
    BY <2>1, <2>2, <2>3, <2>4 DEF NetRecord
  <2>7. net'[i].hc = net[i].hc /\ net'[i].wire = net[i].wire /\ net'[i].junk = net[i].junk /\ net'[i].jobs = s
    BY <2>1, <2>4 DEF NetRecord
  <2>8. net'[i].notified = net[i].notified /\ net'[i].open = o
    BY <2>1, <2>4 DEF NetRecord
  <2> QED BY <2>2, <2>5, <2>6, <2>7, <2>8
<1> QED BY <1>2, <1>3 DEF TakesAndShuts

LEMMA onResponseLateKeeps ==
  ASSUME CInv, NEW k \in 1 .. Len(net), net[k].jobs # <<>>, NEW r, Head(net[k].jobs)[1] = "response",
         r = Head(net[k].jobs)[2], onResponseLate(k, r), UNCHANGED <<cliClosed, crossed, closing, connNum>>
  PROVE  CInv'
<1> DEFINE h == net[k].hc  rs == hcs[h].handlers  D == ToSet(rs)  got(q) == IF q = Head(rs) THEN <<"response", r>> ELSE <<"error">>
<1>1. ClientTypeOK /\ UserInv /\ HandlersInv
  BY DEF CInv
<1>2. h \in 0 .. Made
  BY <1>1, NetFacts
<1>3. UnderWay(h, rs) /\ rs \in Seq(Reqs) /\ Len(rs) \in Nat /\ \A i \in 1 .. Len(rs) : rs[i] \in Reqs
  BY <1>1, <1>2, HandlersUnderWay, HcFacts
<1>4. h = Own
  <2>1. Len(rs) > 1
    BY DEF onResponseLate
  <2> QED BY <1>1, <1>2, <1>3, <2>1, UnderWayPool
<1>5. /\ req' = [q \in Reqs |-> IF q \in D THEN [req[q] EXCEPT !.at = "done", !.calls = @ + 1, !.got = got(q)] ELSE req[q]]
      /\ chConnss' = chConnss /\ hcs' = [hcs EXCEPT ![h] = Fresh]
      /\ CleanNet(k, hcs[h].conn)
  BY <1>4 DEF onResponseLate, CleanNet
<1>6. NetLess
  BY <1>1, <1>5, CleanShuts, TakesAndShutsLess
<1>7. r \in Reqs
  <2>1. Head(net[k].jobs) \in Jobs
    BY <1>1, NetFacts, TailSeq
  <2> QED BY <2>1, JobFacts
<1>8. \A q : got(q) \in Outcomes
  BY <1>7, OutcomeFacts
<1>9. \A q \in D : q \in Reqs /\ req[q].hc = h /\ req[q].at \in {"do", "sent"}
  <2>1. DOMAIN rs = 1 .. Len(rs)
    BY <1>3, SeqFacts
  <2>2. \A i \in 1 .. Len(rs) : rs[i] \in Reqs /\ req[rs[i]].hc = h /\ req[rs[i]].at \in {"do", "sent"}
    BY <1>3 DEF UnderWay
  <2>3. ASSUME NEW q \in D PROVE \E i \in 1 .. Len(rs) : q = rs[i]
    BY <2>1, Zenon DEF ToSet
  <2> HIDE DEF h, rs, D
  <2> QED BY <2>2, <2>3
<1> HIDE DEF h, rs, D, got
<1>10. ASSUME NEW q \in Reqs, q \in D
       PROVE  req'[q] \in ReqRecord /\ req'[q].at = "done" /\ req'[q].hc = h /\ req'[q].calls = req[q].calls + 1
  <2>1. req'[q] = [req[q] EXCEPT !.at = "done", !.calls = @ + 1, !.got = got(q)]
    BY <1>5, <1>10
  <2>2. req[q] \in ReqRecord /\ req[q].hc = h /\ req[q].calls + 1 \in Nat /\ got(q) \in Outcomes
    BY <1>1, <1>8, <1>9, <1>10, ReqFacts
  <2>3. req'[q] \in ReqRecord
    BY <2>1, <2>2 DEF ReqRecord
  <2> QED BY <2>1, <2>2, <2>3 DEF ReqRecord
<1>11. ASSUME NEW q \in Reqs, q \notin D PROVE req'[q] = req[q] /\ req'[q] \in ReqRecord
  BY <1>1, <1>5, <1>11, ReqFacts
<1>12. req' \in [Reqs -> ReqRecord]
  <2>1. req' = [q \in Reqs |-> req'[q]]
    BY <1>5
  <2> QED BY <1>10, <1>11, <2>1
<1>13. Freed(h, D)
  BY <1>4, <1>5, <1>9, <1>10, <1>11, <1>12 DEF Freed
<1>14. hcs'[h] = Fresh /\ OnlyHc(h)
  BY <1>1, <1>2, <1>5, FreshFacts DEF OnlyHc, ClientTypeOK
<1>15. HandlersLeft(h, D)
  <2>1. 1 .. Len(hcs'[h].handlers) = {}
    BY <1>14, FreshFacts
  <2> QED BY <2>1, Zenon DEF HandlersLeft
<1>16. SameCounts
  BY <1>1 DEF SameCounts, ClientTypeOK
<1> QED BY <1>2, <1>4, <1>6, <1>13, <1>14, <1>15, <1>16, FreedKeeps

LEMMA NetCleansKeeps ==
  ASSUME CInv, NEW k \in 1 .. Len(net), net[k].jobs # <<>>, Head(net[k].jobs)[1] = "close", NetCleans(k),
         UNCHANGED <<cliClosed, closing, connNum>>
  PROVE  CInv'
<1> DEFINE h == net[k].hc  c == hcs[h].conn  rs == hcs[h].handlers
<1>1. ClientTypeOK /\ UserInv /\ HandlersInv /\ NetInv /\ AnswerInv
  BY DEF CInv
<1>2. crossed' = (crossed \/ (~hcs[h].closed /\ c \notin {NoConn, k} /\ Answered(c)))
  BY DEF NetCleans
<1>3. SameCounts
  <2>1. crossed' \in BOOLEAN /\ (crossed => crossed')
    BY <1>2, Zenon
  <2> QED BY <2>1 DEF SameCounts
<1>4. h \in 0 .. Made /\ net[k].jobs \in Seq(Jobs) /\ Len(net[k].jobs) \in Nat
  BY <1>1, NetFacts
<1>5. CASE hcs[h].closed
  <2>1. net' = [net EXCEPT ![k].jobs = Tail(@)] /\ req' = req /\ hcs' = hcs /\ chConnss' = chConnss
    BY <1>5 DEF NetCleans
  <2>2. NetLess
    BY <1>1, <2>1, NetTakes
  <2> QED BY <1>3, <2>1, <2>2, LessKeeps
<1>6. CASE ~hcs[h].closed
  <2>1. Call(h, rs, <<"error">>) /\ hcs' = [hcs EXCEPT ![h] = [Fresh EXCEPT !.closed = TRUE]] /\ CleanNet(k, c)
    BY <1>6 DEF NetCleans, CleanNet
  <2>2. TakesAndShuts(k, c)
    BY <1>1, <2>1, CleanShuts
  <2>3. NetLess
    BY <1>1, <2>2, TakesAndShutsLess
  <2>4. UnderWay(h, rs)
    BY <1>1, <1>4, HandlersUnderWay
  <2>5. Freed(h, ToSet(rs)) /\ OutcomeOf(ToSet(rs))
    <3>1. Freed(h, ToSet(rs)) /\ \A r \in ToSet(rs) : r \in Reqs /\ req'[r].got = <<"error">>
      BY <1>1, <1>4, <2>1, <2>4, OutcomeFacts, CallFrees
    <3> QED BY <3>1 DEF OutcomeOf
  <2>6. /\ [Fresh EXCEPT !.closed = TRUE] \in HcRecord
        /\ [Fresh EXCEPT !.closed = TRUE].conn = NoConn /\ [Fresh EXCEPT !.closed = TRUE].handlers = <<>>
    BY EmptySeq DEF Fresh, NoConn, HcRecord
  <2>7. hcs'[h] = [Fresh EXCEPT !.closed = TRUE] /\ OnlyHc(h)
    BY <1>1, <1>4, <2>1, <2>6 DEF OnlyHc, ClientTypeOK
  <2>8. HandlersLeft(h, ToSet(rs))
    <3>1. hcs'[h].handlers = <<>> /\ Len(<<>>) = 0
      BY <2>6, <2>7
    <3>2. 1 .. Len(hcs'[h].handlers) = {}
      BY <3>1
    <3> QED BY <3>2, Zenon DEF HandlersLeft
  <2>9. ASSUME ~cliClosed, ~crossed', h # Own PROVE NoAnswer(h)
    <3>1. ~crossed /\ ~(c \notin {NoConn, k} /\ Answered(c))
      BY <1>2, <1>6, <2>9, Zenon
    <3> SUFFICES ASSUME NEW n \in 1 .. Len(net), net[n].hc = h
                 PROVE  /\ \A i \in 1 .. Len(net'[n].jobs) : net'[n].jobs[i][1] # "response"
                        /\ net'[n].open => net[n].wire = <<>>
      BY DEF NoAnswer
    <3>2. AnswerOf(n)
      BY <1>1, <2>9, <3>1, AnswerInvIs
    <3>3. net'[n].jobs = (IF n = k THEN Tail(net[n].jobs) ELSE net[n].jobs) /\ (net'[n].open <=> net[n].open /\ n # c)
      BY <2>2 DEF TakesAndShuts
    <3>4. \A q : Waited(n, q) => n = c
      BY DEF Waited
    <3>5. net'[n].open => net[n].wire = <<>>
      BY <3>2, <3>3, <3>4 DEF AnswerOf
    <3>6. CASE n = k
      <4>1. Len(net[k].jobs) # 0 /\ Head(net[k].jobs) = net[k].jobs[1]
        BY <1>4, SeqFacts, TailSeq
      <4>2. 1 \in 1 .. Len(net[k].jobs)
        BY <1>4, <4>1
      <4>3. Len(net[k].jobs) = 1
        BY <1>1, <4>1, <4>2 DEF NetInv
      <4>4. Len(net'[k].jobs) = 0
        <5>1. Len(Tail(net[k].jobs)) = Len(net[k].jobs) - 1
          BY <1>4, TailSeq
        <5>2. net'[k].jobs = Tail(net[k].jobs)
          BY <3>3, <3>6, Zenon
        <5>3. Len(net'[k].jobs) = Len(net[k].jobs) - 1
          BY <5>1, <5>2, Zenon
        <5> QED BY <4>3, <5>3
      <4>5. 1 .. Len(net'[n].jobs) = {}
        BY <3>6, <4>4
      <4> QED BY <3>5, <4>5, Zenon
    <3>7. CASE n # k
      <4>1. net'[n].jobs = net[n].jobs
        BY <3>3, <3>7
      <4>2. ASSUME NEW i \in 1 .. Len(net[n].jobs), net[n].jobs[i][1] = "response" PROVE FALSE
        <5>1. n = c
          BY <3>2, <3>4, <4>2 DEF AnswerOf
        <5>2. Answered(n)
          BY <1>1, <4>2, AnsweredIs
        <5>3. n # NoConn
          BY DEF NoConn
        <5> QED BY <3>1, <3>7, <5>1, <5>2, <5>3
      <4> QED BY <3>5, <4>1, <4>2
    <3> QED BY <3>6, <3>7
  <2>10. cliClosed \/ crossed' \/ h = Own \/ (NoAnswer(h) /\ OutcomeOf(ToSet(rs)))
    BY <2>5, <2>9
  <2> QED BY <1>3, <1>4, <2>3, <2>5, <2>7, <2>8, <2>10, FreedKeeps
<1> QED BY <1>5, <1>6

LEMMA NetJobKeeps ==
  ASSUME CInv, NEW k \in 1 .. Len(net), NetJob(k)
  PROVE  CInv'
<1>1. /\ net[k].jobs # <<>> /\ UNCHANGED <<cliClosed, closing, connNum>>
      /\ \/ Head(net[k].jobs)[1] = "response" /\ onResponse(k, Head(net[k].jobs)[2]) /\ UNCHANGED crossed
         \/ Head(net[k].jobs)[1] = "response" /\ onResponseLate(k, Head(net[k].jobs)[2]) /\ UNCHANGED crossed
         \/ Head(net[k].jobs)[1] = "close" /\ NetCleans(k)
  BY DEF NetJob
<1>2. CASE Head(net[k].jobs)[1] = "response" /\ onResponse(k, Head(net[k].jobs)[2]) /\ UNCHANGED crossed
  BY <1>1, <1>2, onResponseKeeps
<1>3. CASE Head(net[k].jobs)[1] = "response" /\ onResponseLate(k, Head(net[k].jobs)[2]) /\ UNCHANGED crossed
  BY <1>1, <1>3, onResponseLateKeeps
<1>4. CASE Head(net[k].jobs)[1] = "close" /\ NetCleans(k)
  BY <1>1, <1>4, NetCleansKeeps
<1> QED BY <1>1, <1>2, <1>3, <1>4

-----------------------------------------------------------------------------
(* The theorems about the client.                                          *)

LEMMA ClientInitHolds ==
  ASSUME Init
  PROVE  CInv
<1>1. /\ cliClosed = FALSE /\ closing = {} /\ connNum = 0 /\ chConnss = <<>> /\ crossed = FALSE
      /\ req = [r \in Reqs |-> [at |-> "new", hc |-> Own, calls |-> 0, got |-> <<>>]]
      /\ hcs = [h \in {Own} |-> Fresh] /\ net = <<>>
  BY DEF Init, ClientInit
<1>2. Made = 0 /\ hcs \in [0 .. Made -> HcRecord] /\ \A h \in 0 .. Made : hcs[h] = Fresh
  <2>1. DOMAIN hcs = {0} /\ 0 .. 0 = {0}
    BY <1>1 DEF Own
  <2>2. Made = 0
    <3>1. Cardinality({0}) = 1
      BY FS_Singleton
    <3> QED BY <2>1, <3>1 DEF Made
  <2> QED BY <1>1, <2>1, <2>2, FreshFacts DEF Own
<1>3. Len(chConnss) = 0 /\ Len(net) = 0 /\ chConnss \in Seq(1 .. Made) /\ net \in Seq(NetRecord)
  BY <1>1, EmptySeq
<1>4. ASSUME NEW r \in Reqs
      PROVE  /\ req[r] \in ReqRecord /\ req[r].at = "new" /\ req[r].hc = Own /\ req[r].calls = 0 /\ req[r].got = <<>>
  BY <1>1, OutcomeFacts DEF ReqRecord, Own
<1>5. req \in [Reqs -> ReqRecord]
  BY <1>1, <1>4
<1>6. cliClosed \in BOOLEAN /\ crossed \in BOOLEAN
  BY <1>1, Zenon
<1>7. ClientTypeOK
  BY <1>1, <1>2, <1>3, <1>4, <1>5, <1>6, FreshFacts DEF ClientTypeOK, Own
<1>8. CallsInv
  BY <1>4 DEF CallsInv
<1>9. UserInv
  BY <1>2, <1>3, <1>4 DEF UserInv, Uses
<1>10. HandlersInv
  BY <1>2, FreshFacts DEF HandlersInv
<1>11. CountInv
  <2>1. Over = {}
    BY <1>4 DEF Over
  <2> QED BY <1>1, <1>2, <2>1, FS_EmptySet, ClientAssumption DEF CountInv
<1>12. NetInv /\ AnswerInv
  BY <1>3 DEF NetInv, AnswerInv
<1>13. GotInv
  BY <1>4 DEF GotInv, Pooled
<1> QED BY <1>7, <1>8, <1>9, <1>10, <1>11, <1>12, <1>13 DEF CInv

LEMMA ClientSame ==
  ASSUME CInv, UNCHANGED clientVars
  PROVE  CInv'
<1>1. ClientTypeOK
  BY DEF CInv
<1>2. /\ cliClosed' = cliClosed /\ crossed' = crossed /\ closing' = closing /\ connNum' = connNum
      /\ chConnss' = chConnss /\ req' = req /\ hcs' = hcs /\ net' = net
  BY DEF clientVars
<1>3. NetLess /\ SameCounts
  BY <1>1, <1>2 DEF NetLess, SameCounts, ClientTypeOK
<1> QED BY <1>2, <1>3, LessKeeps

\* Only the client's own steps and closeAllConns change its state.
LEMMA ClientCases ==
  ASSUME [Next]_vars
  PROVE  UNCHANGED clientVars \/ closeAllConns \/ Client
<1>1. UNCHANGED vars \/ MuxStep => UNCHANGED clientVars
  BY DEF vars, MuxStep
<1>2. ASSUME NEW x \in Listeners, Listen(x) PROVE UNCHANGED clientVars
  <2>0. ASSUME NEW y, NEW e, Got(y, e) PROVE UNCHANGED clientVars
    BY <2>0 DEF Got
  <2>1. ListenCheck(x) \/ ListenMux(x) \/ ListenDirect => UNCHANGED clientVars
    BY <2>0, Zenon DEF ListenCheck, ListenMux, ListenDirect
  <2>2. AddRefuse(x) \/ AddTable(x) \/ StartReading(x) => UNCHANGED clientVars
    BY DEF AddRefuse, AddTable, StartReading
  <2>3. ASSUME NEW ok \in BOOLEAN, StartPolling(x, ok) PROVE UNCHANGED clientVars
    BY <2>3 DEF StartPolling
  <2> QED BY <1>2, <2>1, <2>2, <2>3, Zenon DEF Listen
<1>3. ASSUME NEW c \in Conns, Arrive(c) \/ Serve(c) \/ Transfer(c) PROVE UNCHANGED clientVars
  <2>1. Arrive(c) \/ Transfer(c) \/ AddTransferredConn(c) => UNCHANGED clientVars
    BY DEF Arrive, Transfer, AddTransferredConn
  <2>2. ReadEnds(c) \/ ReadEnded(c) \/ OnClose(c) => UNCHANGED clientVars
    BY DEF ReadEnds, ReadEnded, OnClose
  <2>3. ASSUME NEW ok \in BOOLEAN, TransferPolls(c, ok) PROVE UNCHANGED clientVars
    BY <2>3 DEF TransferPolls
  <2> QED BY <1>3, <2>1, <2>2, <2>3, Zenon DEF Serve
<1>4. ASSUME NEW h \in Conns \X {"tcp", "nbc"}, ConnCloses(h) PROVE UNCHANGED clientVars
  BY <1>4 DEF ConnCloses
<1>5. ShutdownStart \/ stopListeners \/ ShutdownTick \/ StopCloses \/ StopWaited \/ EngineStops => UNCHANGED clientVars
  BY DEF ShutdownStart, stopListeners, ShutdownTick, StopCloses, StopWaited, EngineStops
<1>6. ShutdownCloses \/ ShutdownReturns \/ ShutdownTimeout => closeAllConns
  BY DEF ShutdownCloses, ShutdownReturns, ShutdownTimeout
<1> QED BY <1>1, <1>2, <1>3, <1>4, <1>5, <1>6, Zenon DEF Next, Shutdown

LEMMA ClientStepHolds ==
  ASSUME CInv, [Next]_vars
  PROVE  CInv'
<1>1. CASE UNCHANGED clientVars
  BY <1>1, ClientSame
<1>2. CASE closeAllConns
  BY <1>2, CloseAllKeepsClient
<1>3. ASSUME NEW r \in Reqs, \/ getConn(r) \/ Ask(r) \/ GetFree(r) \/ GetNew(r) \/ TakeBack(r) \/ GetWait(r)
                             \/ GetTimeout(r) \/ Reset(r) \/ DoOpen(r) \/ DialFails(r)
                             \/ \E p \in Proxies : DoDial(r, p) \/ DoPanics(r, p)
      PROVE  CInv'
  BY <1>3, getConnKeeps, GetFreeKeeps, GetNewKeeps, TakeBackKeeps, GetWaitKeeps, GetTimeoutKeeps, ResetKeeps,
     DoOpenKeeps, DoDialKeeps, DoPanicsKeeps, DialFailsKeeps
<1>4. CASE CloseClient
  BY <1>4, CloseClientKeeps
<1>5. ASSUME NEW h \in closing, CloseHc(h) PROVE CInv'
  BY <1>5, CloseHcKeeps
<1>6. ASSUME NEW k \in DOMAIN net, Reply(k) \/ NetCloses(k) \/ NetNotifies(k) \/ NetJob(k) PROVE CInv'
  <2>1. DOMAIN net = 1 .. Len(net)
    BY NetFacts DEF CInv
  <2> QED BY <1>6, <2>1, ReplyKeeps, NetClosesKeeps, NetNotifiesKeeps, NetJobKeeps
<1>7. CASE Client
  BY <1>3, <1>4, <1>5, <1>6, <1>7, Zenon DEF Client
<1> QED BY <1>1, <1>2, <1>7, ClientCases

LEMMA ClientInvariance == Spec => []CInv
  BY ClientInitHolds, ClientStepHolds, PTL DEF Spec

\* Each ClientConn of the pool has exactly one user.
LEMMA OneUserEach ==
  ASSUME CInv, NEW h \in 1 .. Made
  PROVE  Users(h) = 1 /\ Len(hcs[h].handlers) <= 1
<1> DEFINE R == {r \in Pooled : req[r].hc = h /\ req[r].at \in {"reset", "do", "sent"}}
           F == {k \in DOMAIN chConnss : chConnss[k] = h}
<1>1. ClientTypeOK /\ UserInv /\ HandlersInv
  BY DEF CInv
<1>2. h # Own /\ h \in 0 .. Made
  BY <1>1, HcFacts DEF Own
<1>3. DOMAIN chConnss = 1 .. Len(chConnss)
  BY <1>1, HcFacts, SeqFacts
<1>4. R = {r \in Reqs : Uses(r, h)} /\ F = {i \in 1 .. Len(chConnss) : chConnss[i] = h}
  BY <1>2, <1>3 DEF Pooled, Uses
<1>5. Users(h) = Cardinality(R) + Cardinality(F)
  BY DEF Users
<1> HIDE DEF R, F
<1>8. Len(hcs[h].handlers) <= 1
  <2>1. UnderWay(h, hcs[h].handlers)
    BY <1>1, <1>2, HandlersUnderWay
  <2>2. \A rs : UnderWay(h, rs) => Len(rs) \in {0, 1}
    BY <1>1, <1>2, UnderWayPool
  <2>3. Len(hcs[h].handlers) \in {0, 1}
    BY <2>1, <2>2
  <2>4. \A n \in {0, 1} : n <= 1
    OBVIOUS
  <2> QED BY <2>3, <2>4, Zenon
<1>6. CASE \E r \in Reqs : Uses(r, h)
  <2>1. PICK r \in Reqs : Uses(r, h)
    BY <1>6
  <2>2. R = {r}
    BY <1>1, <1>2, <1>4, <2>1, OneUser
  <2>3. F = {}
    BY <1>1, <1>4, <2>1 DEF UserInv
  <2>4. Cardinality(R) = 1 /\ Cardinality(F) = 0
    BY <2>2, <2>3, FS_Singleton, FS_EmptySet
  <2>5. Users(h) = 1
    BY <1>5, <2>4
  <2> QED BY <1>8, <2>5
<1>7. CASE ~\E r \in Reqs : Uses(r, h)
  <2>1. PICK i \in 1 .. Len(chConnss) : chConnss[i] = h
    BY <1>1, <1>7 DEF UserInv
  <2>2. F = {i}
    BY <1>1, <1>4, <2>1 DEF UserInv
  <2>3. R = {}
    BY <1>4, <1>7
  <2>4. Cardinality(R) = 0 /\ Cardinality(F) = 1
    BY <2>2, <2>3, FS_Singleton, FS_EmptySet
  <2>5. Users(h) = 1
    BY <1>5, <2>4
  <2> QED BY <1>8, <2>5
<1> QED BY <1>6, <1>7

LEMMA PoolNotFull ==
  ASSUME CInv
  PROVE  Cardinality(DOMAIN hcs \ {Own}) = Made /\ Len(chConnss) <= Made
<1>1. ClientTypeOK /\ UserInv
  BY DEF CInv
<1>2. Made \in Nat /\ DOMAIN hcs = 0 .. Made /\ chConnss \in Seq(1 .. Made) /\ Len(chConnss) \in Nat
  BY <1>1, HcFacts
<1>3. DOMAIN hcs \ {Own} = 1 .. Made
  BY <1>2 DEF Own
<1>4. \A n \in Nat : IsFiniteSet(1 .. n) /\ Cardinality(1 .. n) = n
  BY FS_Interval
<1>5. ASSUME Len(chConnss) > Made PROVE FALSE
  <2>1. chConnss \in [1 .. Len(chConnss) -> 1 .. Made]
    BY <1>2, SeqFacts
  <2>2. Cardinality(1 .. Made) < Cardinality(1 .. Len(chConnss)) /\ IsFiniteSet(1 .. Made) /\ IsFiniteSet(1 .. Len(chConnss))
    BY <1>2, <1>4, <1>5
  <2>3. \E x, y \in 1 .. Len(chConnss) : x # y /\ chConnss[x] = chConnss[y]
    BY <2>1, <2>2, FS_PigeonHole
  <2> QED BY <1>1, <2>3 DEF UserInv
<1>6. Cardinality(DOMAIN hcs \ {Own}) = Made
  BY <1>2, <1>3, <1>4
<1> QED BY <1>2, <1>5, <1>6

\* For every number of requests and every MaxConnsPerHost: the handler of a
\* request is called once, a ClientConn of the pool is free or belongs to one
\* request and is never given back twice, connNum counts them, and there are
\* never more than MaxConnNum (client.go, getConn, releaseConn and Do;
\* client_conn.go).
THEOREM PoolIsExact == Spec => []PoolExact
<1>1. CInv => PoolExact
  <2> SUFFICES ASSUME CInv PROVE PoolExact
    OBVIOUS
  <2>1. Cardinality(DOMAIN hcs \ {Own}) = Made /\ Len(chConnss) <= Made
    BY PoolNotFull
  <2>2. Made \in Nat /\ DOMAIN hcs = 0 .. Made /\ Len(chConnss) \in Nat
    BY HcFacts DEF CInv
  <2>3. Made <= MaxConnNum /\ connNum = Made + Cardinality({r \in Reqs : req[r].at = "over"}) /\ MaxConnNum \in Nat
    BY ClientAssumption DEF CInv, CountInv, Over
  <2>4. Len(chConnss) <= MaxConnNum
    BY <2>1, <2>2, <2>3
  <2>5. \A r \in Reqs : req[r].calls = (IF req[r].at = "done" THEN 1 ELSE 0)
    BY DEF CInv, CallsInv
  <2>6. DOMAIN hcs \ {Own} = 1 .. Made
    BY <2>2 DEF Own
  <2>7. \A h \in DOMAIN hcs \ {Own} : Users(h) = 1 /\ Len(hcs[h].handlers) <= 1
    BY <2>6, OneUserEach
  <2> QED BY <2>1, <2>3, <2>4, <2>5, <2>7 DEF PoolExact
<1> QED BY <1>1, ClientInvariance, PTL

\* For every number of requests, connections and ways a proxy may answer: a
\* handler of Client.Do gets the response to its own request or an error until
\* the client is closed, unless a late clean-up job closed a newer connection
\* whose response was in its jobs; and a proxy dialer that succeeds leaves
\* nothing of the proxy's answer in front of the response (client_conn.go,
\* onResponse and CloseWithError; client.go, the proxy dialers).
THEOREM ResponsesMatch == Spec => []ResponseMatches
<1>1. CInv => ResponseMatches
  <2> SUFFICES ASSUME CInv PROVE ResponseMatches
    OBVIOUS
  <2>1. DOMAIN net = 1 .. Len(net)
    BY NetFacts DEF CInv
  <2>2. \A k \in DOMAIN net : net[k].junk = 0
    BY <2>1 DEF CInv, NetInv
  <2> QED BY <2>2 DEF CInv, GotInv, ResponseMatches
<1> QED BY <1>1, ClientInvariance, PTL
=============================================================================
