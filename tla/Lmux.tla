-------------------------------- MODULE Lmux ---------------------------------
(***************************************************************************)
(* lmux/lmux.go: one listener is split in two, A for at most maxOnlineA    *)
(* connections and B for the rest.                                         *)
(***************************************************************************)
EXTENDS Integers, Sequences, FiniteSets, SequencesExt

CONSTANTS
  Conns,        \* connections that arrive
  MaxOnlineA    \* maxOnlineA

ASSUME LmuxAssumption == MaxOnlineA \in Nat

VARIABLES
  backlog,      \* connections the listener has not given out
  listening,    \* the listener is open
  lmShutdown,   \* lm.shutdown
  onlineA,      \* lm.onlineA
  mux,          \* the accepting goroutine: [at, conn]; at "over" conn is for B
  chEvent,      \* of A and of B
  chClose       \* lm.chClose is closed

lmuxVars == <<backlog, listening, lmShutdown, onlineA, mux, chEvent, chClose>>

\* What Accept returns instead of a connection.
Error == 0
ErrClosed == 0 - 1
ASSUME ConnsAssumption == Conns \subseteq Nat \ {0}

LmuxInit(mixed) ==
  /\ backlog = {} /\ listening = TRUE /\ lmShutdown = FALSE /\ onlineA = 0
  /\ mux = [at |-> IF mixed THEN "accept" ELSE "gone", conn |-> Error]
  /\ chEvent = [x \in {"A", "B"} |-> <<>>] /\ chClose = FALSE

Send(x, e) == chEvent' = [chEvent EXCEPT ![x] = Append(@, e)]

\* The listener gives a connection to the goroutine of Start, which counts it.
MuxAccept(c) ==
  /\ mux.at = "accept" /\ ~lmShutdown /\ listening /\ c \in backlog
  /\ backlog' = backlog \ {c}
  /\ onlineA' = onlineA + 1
  /\ IF onlineA + 1 <= MaxOnlineA THEN Send("A", c) /\ UNCHANGED mux
                                  ELSE mux' = [at |-> "over", conn |-> c] /\ UNCHANGED chEvent
  /\ UNCHANGED <<listening, lmShutdown, chClose>>

MuxTakeBack ==
  /\ mux.at = "over"
  /\ onlineA' = onlineA - 1
  /\ Send("B", mux.conn)
  /\ mux' = [at |-> "accept", conn |-> Error]
  /\ UNCHANGED <<backlog, listening, lmShutdown, chClose>>

\* Accept fails for good; a timeout is retried.  Both listeners learn of it.
MuxFails ==
  /\ mux.at = "accept"
  /\ mux' = [mux EXCEPT !.at = "gone"]
  /\ chEvent' = [x \in {"A", "B"} |-> Append(chEvent[x], Error)]
  /\ UNCHANGED <<backlog, listening, lmShutdown, onlineA, chClose>>

\* Stop; a connection in the backlog is reset by the kernel.
MuxStop ==
  /\ lmShutdown' = TRUE /\ chClose' = TRUE
  /\ listening' = FALSE /\ backlog' = {}
  /\ UNCHANGED <<onlineA, mux, chEvent>>

\* ChanListener.Accept: what it may return.
AcceptOutcomes(x) ==
  (IF chEvent[x] # <<>> THEN {Head(chEvent[x])} ELSE {}) \cup (IF chClose THEN {ErrClosed} ELSE {})
Accepted(x, e) ==
  IF e # ErrClosed THEN chEvent' = [chEvent EXCEPT ![x] = Tail(@)] ELSE UNCHANGED chEvent

\* DecreaseOnlineA
Decrease(x) == onlineA' = IF x = "A" THEN onlineA - 1 ELSE onlineA
=============================================================================
