------------------------------ MODULE Heartbeat ------------------------------
(***************************************************************************)
(* The heartbeat of a socket wire: ping, run every heartBeatInterval by    *)
(* the heartbeat thread of a connection, and the PING part of read_header, *)
(* at both ends.  Each end counts the pings it has sent; a ping carries    *)
(* that count and echoes the last count heard from the counterpart.        *)
(* The counters outlive connections: only heartbeatAlive is derived from   *)
(* them.  Time is not modelled: an end pings when it pings.                *)
(***************************************************************************)
EXTENDS Integers, Sequences

CONSTANTS
  MaximumHeartbeatDelay,  \* the wire's constant, 3
  MaxTimestamp,           \* bound of the model: pings sent by each end
  MaxBreak                \* bound of the model: connections lost

ASSUME DelayAssumption == MaximumHeartbeatDelay \in Nat
ASSUME BoundAssumption == MaxTimestamp \in Nat /\ MaxBreak \in Nat

Ends == {1, 2}
Other(e) == 3 - e

VARIABLES
  timestamp,    \* current_timestamp of each end
  heard,        \* counterpart_timestamp
  echoed,       \* counterpart_acknowledge_timestamp
  alive,        \* heartbeatAlive
  pinger,       \* control of the heartbeat thread of each end, in ping
  packed,       \* ping_pkg_header: the echo in the ping about to be sent
  reader,       \* control of the socket thread of each end, in read_header
  taken,        \* what it holds: the echo it has read, then (history) the
                \* timestamp it has compared
  lag,          \* history: own pings counted between the comparison a belief
                \* rests on and the set(true) that made it one
  pings,        \* pings on their way to each end
  linked,       \* the connection works
  broken        \* how many connections have been lost

beatVars == <<timestamp, heard, echoed, alive, pinger, packed, reader, taken, lag,
              pings, linked, broken>>

OneBeatTooMany(t, notion) ==  \* mutation: off by one
  t - notion <= MaximumHeartbeatDelay + 1

connection_established(t, notion) == t - notion <= MaximumHeartbeatDelay

BeatInit ==
  /\ timestamp = [e \in Ends |-> 0]
  /\ heard = [e \in Ends |-> 0]
  /\ echoed = [e \in Ends |-> 0]
  /\ alive = [e \in Ends |-> FALSE]
  /\ pinger = [e \in Ends |-> "asleep"]
  /\ packed = [e \in Ends |-> 0]
  /\ reader = [e \in Ends |-> "reading"]
  /\ taken = [e \in Ends |-> 0]
  /\ lag = [e \in Ends |-> 0]
  /\ pings = [e \in Ends |-> <<>>]
  /\ linked = TRUE
  /\ broken = 0

\* ping begins: it compares two counters the socket thread may be changing ...
PingBegin(e) ==
  /\ pinger[e] = "asleep"
  /\ timestamp[e] < MaxTimestamp
  /\ IF connection_established(timestamp[e], echoed[e])
       THEN /\ pinger' = [pinger EXCEPT ![e] = "pack"]
            /\ lag' = [lag EXCEPT ![e] = 0]
       ELSE /\ pinger' = [pinger EXCEPT ![e] = "lower"]
            /\ UNCHANGED lag
  /\ UNCHANGED <<timestamp, heard, echoed, alive, packed, reader, taken, pings, linked, broken>>

\* ... acts on what it has seen ...
PingLower(e) ==
  /\ pinger[e] = "lower"
  /\ alive' = [alive EXCEPT ![e] = FALSE]
  /\ lag' = [lag EXCEPT ![e] = 0]
  /\ pinger' = [pinger EXCEPT ![e] = "pack"]
  /\ UNCHANGED <<timestamp, heard, echoed, packed, reader, taken, pings, linked, broken>>

\* ... and packs the ping, before it waits for the socket.
PingPack(e) ==
  /\ pinger[e] = "pack"
  /\ packed' = [packed EXCEPT ![e] = heard[e]]
  /\ pinger' = [pinger EXCEPT ![e] = "send"]
  /\ UNCHANGED <<timestamp, heard, echoed, alive, reader, taken, lag, pings, linked, broken>>

\* The socket takes the ping (a broken one may, and lose it) ...
PingSent(e) ==
  /\ pinger[e] = "send"
  /\ pings' = IF linked THEN [pings EXCEPT ![Other(e)] =
                            Append(@, [sent |-> timestamp[e], echo |-> packed[e]])]
                    ELSE pings
  /\ packed' = [packed EXCEPT ![e] = 0]
  /\ pinger' = [pinger EXCEPT ![e] = "count"]
  /\ UNCHANGED <<timestamp, heard, echoed, alive, reader, taken, lag, linked, broken>>

\* ... and the ping is counted, when its answer may be there already ...
PingCount(e) ==
  /\ pinger[e] = "count"
  /\ timestamp' = [timestamp EXCEPT ![e] = @ + 1]
  /\ pinger' = [pinger EXCEPT ![e] = "asleep"]
  /\ UNCHANGED <<heard, echoed, alive, packed, reader, taken, lag, pings, linked, broken>>

\* ... or the socket does not take it: the early return and the exception alike.
PingFailed(e) ==
  /\ pinger[e] = "send"
  /\ ~linked
  /\ packed' = [packed EXCEPT ![e] = 0]
  /\ pinger' = [pinger EXCEPT ![e] = "asleep"]
  /\ UNCHANGED <<timestamp, heard, echoed, alive, reader, taken, lag, pings, linked, broken>>

\* read_header takes a PING and notes its count ...
ReadPing(e) ==
  /\ reader[e] = "reading"
  /\ pings[e] # <<>>
  /\ LET p == Head(pings[e]) IN
       /\ heard' = [heard EXCEPT ![e] = p.sent]
       /\ taken' = [taken EXCEPT ![e] = p.echo]
  /\ pings' = [pings EXCEPT ![e] = Tail(@)]
  /\ reader' = [reader EXCEPT ![e] = "echo"]
  /\ UNCHANGED <<timestamp, echoed, alive, pinger, packed, lag, linked, broken>>

\* ... and what it echoes; ...
ReadEcho(e) ==
  /\ reader[e] = "echo"
  /\ echoed' = [echoed EXCEPT ![e] = taken[e]]
  /\ reader' = [reader EXCEPT ![e] = "compare"]
  /\ UNCHANGED <<timestamp, heard, alive, pinger, packed, taken, lag, pings, linked, broken>>

\* ... it compares the echo with a timestamp the heartbeat thread may be counting up ...
Compare(e) ==
  /\ reader[e] = "compare"
  /\ IF connection_established(timestamp[e], echoed[e])
       THEN /\ reader' = [reader EXCEPT ![e] = "set"]
            /\ taken' = [taken EXCEPT ![e] = timestamp[e]]
       ELSE /\ reader' = [reader EXCEPT ![e] = "reading"]
            /\ taken' = [taken EXCEPT ![e] = 0]
  /\ UNCHANGED <<timestamp, heard, echoed, alive, pinger, packed, lag, pings, linked, broken>>

\* ... and acts on what it has seen, however many pings later.
SetAlive(e) ==
  /\ reader[e] = "set"
  /\ alive' = [alive EXCEPT ![e] = TRUE]
  /\ lag' = [lag EXCEPT ![e] = IF alive[e] THEN @ ELSE timestamp[e] - taken[e]]
  /\ reader' = [reader EXCEPT ![e] = "reading"]
  /\ taken' = [taken EXCEPT ![e] = 0]
  /\ UNCHANGED <<timestamp, heard, echoed, pinger, packed, pings, linked, broken>>

\* The connection is lost, with part of what is under way ...
LoseConnection ==
  /\ linked /\ broken < MaxBreak
  /\ linked' = FALSE
  /\ broken' = broken + 1
  /\ \E k \in 0..Len(pings[1]), m \in 0..Len(pings[2]) :
       pings' = [e \in Ends |-> SubSeq(pings[e], 1, IF e = 1 THEN k ELSE m)]
  /\ UNCHANGED <<timestamp, heard, echoed, alive, pinger, packed, reader, taken, lag>>

\* ... and both ends, having read what was left of it and seen the end of its
\* heartbeat thread, get a new one.
Reconnect ==
  /\ ~linked
  /\ \A e \in Ends : pings[e] = <<>> /\ reader[e] = "reading" /\ pinger[e] = "asleep"
  /\ linked' = TRUE
  /\ UNCHANGED <<timestamp, heard, echoed, alive, pinger, packed, reader, taken, lag, pings,
                 broken>>

\* The bound of the model is reached and everything has arrived.
Finished ==
  /\ \A e \in Ends : timestamp[e] = MaxTimestamp /\ pings[e] = <<>> /\ reader[e] = "reading"
  /\ UNCHANGED beatVars

BeatNext ==
  \/ \E e \in Ends :
       \/ PingBegin(e) \/ PingLower(e) \/ PingPack(e)
       \/ PingSent(e) \/ PingCount(e) \/ PingFailed(e)
       \/ ReadPing(e) \/ ReadEcho(e) \/ Compare(e) \/ SetAlive(e)
  \/ LoseConnection
  \/ Reconnect
  \/ Finished

BeatSpec == BeatInit /\ [][BeatNext]_beatVars

-----------------------------------------------------------------------------
BeatTypeOK ==
  /\ timestamp \in [Ends -> 0..MaxTimestamp]
  /\ heard \in [Ends -> Nat] /\ echoed \in [Ends -> Nat]
  /\ alive \in [Ends -> BOOLEAN]
  /\ pinger \in [Ends -> {"asleep", "lower", "pack", "send", "count"}]
  /\ packed \in [Ends -> Nat]
  /\ reader \in [Ends -> {"reading", "echo", "compare", "set"}]
  /\ taken \in [Ends -> Nat]
  /\ lag \in [Ends -> Nat]
  /\ pings \in [Ends -> Seq([sent : Nat, echo : Nat])]
  /\ linked \in BOOLEAN
  /\ broken \in 0..MaxBreak

\* An end that believes its counterpart alive is as right as the comparison its
\* belief rests on: the counterpart has heard one of its last
\* MaximumHeartbeatDelay + 1 pings (the last one carries timestamp - 1), or, as no
\* lock covers the socket thread's comparison and its set(true), one of so many
\* more as were counted between the two; the next ping that finds the connection
\* established takes that lag back.  This holds whatever was lost with broken
\* connections meanwhile (ping l.378-408, read_header l.268-286).
AliveMeansHeard ==
  \A e \in Ends :
    alive[e] => timestamp[e] - heard[Other(e)] <= MaximumHeartbeatDelay + 1 + lag[e]

=============================================================================
