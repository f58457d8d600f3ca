------------------------------ MODULE PoolStats -------------------------------
(***************************************************************************)
(* The periodic logger of pool statistics (orm/pool_stats.go).  Starting,  *)
(* stopping and changing the interval hold poolStatsMu and are one step    *)
(* each; the goroutine of a started logger reads the global stop channel   *)
(* without it, at every turn of its loop.                                  *)
(***************************************************************************)
EXTENDS Naturals

CONSTANT MaxStarts \* bound: loggers started in one behaviour

NoChan   == 0 \* a nil channel
Channels == 1..MaxStarts

VARIABLES
  stopChan, \* poolStatsStopChan
  running,  \* poolStatsRunning
  started,  \* channels made so far are 1..started; the goroutine of start c is c
  closed,   \* the channels closed
  loop,     \* where goroutine c is: "none", "turn" (outside select), "select", "ended"
  waitsOn   \* the channel its select evaluated

vars == <<stopChan, running, started, closed, loop, waitsOn>>

Init ==
  /\ stopChan = NoChan
  /\ running = FALSE
  /\ started = 0
  /\ closed = {}
  /\ loop = [c \in Channels |-> "none"]
  /\ waitsOn = [c \in Channels |-> NoChan]

\* stopPoolStatsLogger closes the channel; closing it twice would panic.
Closing == IF stopChan # NoChan THEN closed \union {stopChan} ELSE closed

RestartOnly ==
  /\ started < MaxStarts
  /\ started' = started + 1
  /\ stopChan' = started'
  /\ running' = TRUE
  /\ loop' = [loop EXCEPT ![started'] = "turn"]
  /\ UNCHANGED <<closed, waitsOn>>

\* stopPoolStatsLogger, then startPoolStatsLogger.
Restart ==
  /\ started < MaxStarts
  /\ closed' = IF running THEN Closing ELSE closed
  /\ started' = started + 1
  /\ stopChan' = started'
  /\ running' = TRUE
  /\ loop' = [loop EXCEPT ![started'] = "turn"]
  /\ UNCHANGED waitsOn

\* StartPoolStatsLogger, and SetPoolStatsInterval with a positive interval.
Start == Restart

\* StopPoolStatsLogger; SetPoolStatsInterval(0) does the same if one is running.
Stop ==
  /\ closed' = Closing
  /\ stopChan' = NoChan
  /\ running' = FALSE
  /\ UNCHANGED <<started, loop, waitsOn>>

\* The goroutine evaluates its select: it waits on the channel that is the
\* current one now, not on the one made for it.
EnterSelect(c) ==
  /\ loop[c] = "turn"
  /\ loop' = [loop EXCEPT ![c] = "select"]
  /\ waitsOn' = [waitsOn EXCEPT ![c] = stopChan]
  /\ UNCHANGED <<stopChan, running, started, closed>>

\* The ticker fires: the statistics are logged.
Tick(c) ==
  /\ loop[c] = "select"
  /\ loop' = [loop EXCEPT ![c] = "turn"]
  /\ waitsOn' = [waitsOn EXCEPT ![c] = NoChan]
  /\ UNCHANGED <<stopChan, running, started, closed>>

\* Its channel is closed: the goroutine returns.
EndLogger(c) ==
  /\ loop[c] = "select"
  /\ waitsOn[c] \in closed
  /\ loop' = [loop EXCEPT ![c] = "ended"]
  /\ waitsOn' = [waitsOn EXCEPT ![c] = NoChan]
  /\ UNCHANGED <<stopChan, running, started, closed>>

Run == \E c \in Channels : EnterSelect(c) \/ Tick(c) \/ EndLogger(c)

-----------------------------------------------------------------------------
TypeOK ==
  /\ stopChan \in Channels \union {NoChan}
  /\ running \in BOOLEAN
  /\ started \in 0..MaxStarts
  /\ closed \subseteq 1..started
  /\ loop \in [Channels -> {"none", "turn", "select", "ended"}]
  /\ waitsOn \in [Channels -> Channels \union {NoChan}]

\* Restarting never strands a logger: one that waits on an open channel waits
\* on the current one, which the next stop closes; and the current channel has
\* not been closed, so closing it cannot panic.
NoLostLogger ==
  /\ stopChan \notin closed
  /\ \A c \in Channels : waitsOn[c] \in closed \union {NoChan, stopChan}
=============================================================================
