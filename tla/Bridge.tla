------------------------------- MODULE Bridge -------------------------------
(***************************************************************************)
(* One player session end to end: the TCP connection of a local client,    *)
(* the bridge of the join (join_accept_loop), a QUIC stream, the bridge of *)
(* the host (host_handle_conn) and the TCP connection to the target        *)
(* server.  Both bridges run core/src/tunnel/iroh/transport.rs.            *)
(*                                                                         *)
(* A side is named by the end it serves; an app is what is at the other    *)
(* end of its TCP connection.  Data are units, numbered by the app that    *)
(* writes them.  A channel is one direction of one connection: the app's   *)
(* writing, the QUIC stream out of a side, the app's reading.  It holds    *)
(* Capacity units, as flow control and socket buffers do.                  *)
(*                                                                         *)
(* tokio::io::copy (external) reads a unit into a buffer of its own and    *)
(* then writes it, and the buffer goes with the copy when it is dropped.   *)
(* A SendStream that is dropped is finished, a RecvStream that is dropped  *)
(* stops the sender; a socket that is closed over unread data resets its   *)
(* connection.                                                             *)
(***************************************************************************)
EXTENDS Naturals, Sequences

CONSTANTS
  MaxUnits,   \* Bound on the units an app writes.
  Capacity    \* Units a channel holds.

ASSUME UnitsAssumption == MaxUnits \in Nat /\ Capacity \in Nat \ {0}

VARIABLES
  chan,     \* The channels: data, how they end, and whether anybody reads.
  buffer,   \* What each copy has read and not written.
  bridge,   \* Where the bridge of each side is.
  wrote,    \* Units each app has written.
  got,      \* Units of each app that the other app has read.
  cut,      \* History: apps a unit of which was dropped with a copy.
  gaveUp    \* History: apps whose data a bridge gave up, by an error or the timeout.

sessionVars == <<chan, buffer, bridge, wrote, got, cut, gaveUp>>

-----------------------------------------------------------------------------
Sides == {"join", "host"}
Other(s) == IF s = "join" THEN "host" ELSE "join"

\* The direction of a copy, seen from its bridge: TCP to QUIC, QUIC to TCP.
Directions == {"out", "in"}
Opposite(d) == IF d = "out" THEN "in" ELSE "out"

Written(s) == <<"written", s>>
Stream(s) == <<"stream", s>>
Readable(s) == <<"readable", s>>

Source(s, d) == IF d = "out" THEN Written(s) ELSE Stream(Other(s))
Target(s, d) == IF d = "out" THEN Stream(s) ELSE Readable(s)

\* The app whose data a copy carries.
Origin(s, d) == IF d = "out" THEN s ELSE Other(s)

Copying(s, d) ==
  bridge[s] = "both" \/ bridge[s] = (IF d = "out" THEN "drainOut" ELSE "drainIn")

SessionInit ==
  /\ chan = [ch \in {"written", "stream", "readable"} \X Sides |->
               [data |-> <<>>, end |-> "open", read |-> TRUE]]
  /\ buffer = [s \in Sides |-> [d \in Directions |-> <<>>]]
  /\ bridge = [join |-> "both", host |-> "waiting"]
  /\ wrote = [s \in Sides |-> 0]
  /\ got = [s \in Sides |-> <<>>]
  /\ cut = {}
  /\ gaveUp = {}

\* How a channel ends once its writer is gone.
EndOf(ch, how) == IF chan[ch].end = "open" THEN how ELSE chan[ch].end

HasRoom(ch) == Len(chan[ch].data) < Capacity

-----------------------------------------------------------------------------
(* Apps and the connection (external) *)

Connected(s) == bridge[s] # "waiting"

AppWrites(s) ==
  /\ Connected(s)
  /\ wrote[s] < MaxUnits
  /\ chan[Written(s)].end = "open" /\ chan[Written(s)].read /\ HasRoom(Written(s))
  /\ wrote' = [wrote EXCEPT ![s] = @ + 1]
  /\ chan' = [chan EXCEPT ![Written(s)].data = Append(@, wrote'[s])]
  /\ UNCHANGED <<buffer, bridge, got, cut, gaveUp>>

AppReads(s) ==
  /\ chan[Readable(s)].read /\ chan[Readable(s)].data # <<>>
  /\ got' = [got EXCEPT ![Other(s)] = Append(@, Head(chan[Readable(s)].data))]
  /\ chan' = [chan EXCEPT ![Readable(s)].data = Tail(@)]
  /\ UNCHANGED <<buffer, bridge, wrote, cut, gaveUp>>

\* The app closes its writing half, or its socket, or dies.
AppEnds(s) ==
  /\ Connected(s)
  /\ chan[Written(s)].end = "open"
  /\ \E how \in {"finished", "broken"}, stays \in BOOLEAN :
       /\ how = "broken" => ~stays
       /\ chan' = [chan EXCEPT ![Written(s)].end = how, ![Readable(s)].read = stays]
  /\ UNCHANGED <<buffer, bridge, wrote, got, cut, gaveUp>>

ConnectionLost ==
  /\ \E s \in Sides : bridge[s] # "over" /\ chan[Stream(s)].end # "broken"
  /\ chan' = [ch \in DOMAIN chan |->
                IF ch[1] = "stream" THEN [chan[ch] EXCEPT !.end = "broken", !.read = FALSE]
                ELSE chan[ch]]
  /\ UNCHANGED <<buffer, bridge, wrote, got, cut, gaveUp>>

-----------------------------------------------------------------------------
(* Bridges *)

\* The bridge, or the task that would have run it, returns and drops all it has.
Return(s) ==
  /\ bridge' = [bridge EXCEPT ![s] = "over"]
  /\ buffer' = [buffer EXCEPT ![s] = [d \in Directions |-> <<>>]]
  /\ chan' = [chan EXCEPT
       ![Stream(s)].end = EndOf(Stream(s), "finished"),
       ![Stream(Other(s))].read = FALSE,
       ![Written(s)].read = FALSE,
       ![Readable(s)].end =
          EndOf(Readable(s), IF chan[Written(s)].data = <<>> THEN "finished" ELSE "broken")]

\* host_handle_conn: accept_bi returns once the stream carries anything, and the
\* target is connected to.
HostConnects ==
  /\ bridge["host"] = "waiting"
  /\ chan[Stream("join")].data # <<>> \/ chan[Stream("join")].end = "finished"
  /\ chan[Stream("join")].end # "broken"
  /\ bridge' = [bridge EXCEPT !["host"] = "both"]
  /\ UNCHANGED <<chan, buffer, wrote, got, cut, gaveUp>>

\* The connection ends first, or the target is unavailable.
HostFails ==
  /\ bridge["host"] = "waiting"
  /\ chan[Stream("join")].data # <<>> \/ chan[Stream("join")].end # "open"
  /\ Return("host")
  /\ gaveUp' = Sides
  /\ UNCHANGED <<wrote, got, cut>>

\* The copy reads a unit and writes it, or keeps it until the target has room.
CopyReads(s, d) ==
  LET from == chan[Source(s, d)]
      read == [chan EXCEPT ![Source(s, d)].data = Tail(@)]
  IN
  /\ Copying(s, d)
  /\ buffer[s][d] = <<>> /\ from.data # <<>> /\ from.end # "broken"
  /\ IF chan[Target(s, d)].read /\ HasRoom(Target(s, d))
     THEN /\ chan' = [read EXCEPT ![Target(s, d)].data = Append(@, Head(from.data))]
          /\ UNCHANGED buffer
     ELSE /\ chan' = read
          /\ buffer' = [buffer EXCEPT ![s][d] = <<Head(from.data)>>]
  /\ UNCHANGED <<bridge, wrote, got, cut, gaveUp>>

CopyWrites(s, d) ==
  /\ Copying(s, d)
  /\ buffer[s][d] # <<>> /\ chan[Target(s, d)].read /\ HasRoom(Target(s, d))
  /\ chan' = [chan EXCEPT ![Target(s, d)].data = @ \o buffer[s][d]]
  /\ buffer' = [buffer EXCEPT ![s][d] = <<>>]
  /\ UNCHANGED <<bridge, wrote, got, cut, gaveUp>>

\* The copy has read the end of its source and written all it read.
Copied(s, d) ==
  /\ buffer[s][d] = <<>>
  /\ chan[Source(s, d)].data = <<>> /\ chan[Source(s, d)].end = "finished"

\* Mutant: the other direction is not drained.
ReturnAtFirstEnd(s, d) ==
  /\ bridge[s] = "both"
  /\ Copied(s, d)
  /\ Return(s)
  /\ UNCHANGED <<wrote, got, cut, gaveUp>>

\* One direction has ended: select! drops the copy of the other, and a new one
\* drains it.
FirstEnds(s, d) ==
  /\ bridge[s] = "both"
  /\ Copied(s, d)
  /\ bridge' = [bridge EXCEPT ![s] = IF d = "out" THEN "drainIn" ELSE "drainOut"]
  /\ chan' = IF d = "out"
             THEN [chan EXCEPT ![Stream(s)].end = EndOf(Stream(s), "finished")] ELSE chan
  /\ buffer' = [buffer EXCEPT ![s][Opposite(d)] = <<>>]
  /\ cut' = IF buffer[s][Opposite(d)] = <<>> THEN cut
            ELSE cut \cup {Origin(s, Opposite(d))}
  /\ UNCHANGED <<wrote, got, gaveUp>>

DrainEnds(s, d) ==
  /\ bridge[s] # "both" /\ Copying(s, d)
  /\ Copied(s, d)
  /\ Return(s)
  /\ UNCHANGED <<wrote, got, cut, gaveUp>>

\* Mutant: the drain is not timed.
DrainNeverTimesOut(s, d) == FALSE

\* DRAIN_TIMEOUT
DrainTimesOut(s, d) ==
  /\ bridge[s] # "both" /\ Copying(s, d)
  /\ Return(s)
  /\ gaveUp' = gaveUp \cup {Origin(s, d)}
  /\ UNCHANGED <<wrote, got, cut>>

\* A copy fails, and with it the bridge, in whatever phase.
CopyFails(s, d) ==
  /\ Copying(s, d)
  /\ \/ chan[Source(s, d)].end = "broken"
     \/ buffer[s][d] # <<>> /\ ~chan[Target(s, d)].read
  /\ Return(s)
  /\ gaveUp' = Sides
  /\ UNCHANGED <<wrote, got, cut>>

-----------------------------------------------------------------------------
BridgeNext(s, d) ==
  \/ CopyReads(s, d) \/ CopyWrites(s, d) \/ FirstEnds(s, d)
  \/ DrainEnds(s, d) \/ DrainTimesOut(s, d) \/ CopyFails(s, d)

SessionNext ==
  \/ \E s \in Sides : AppWrites(s) \/ AppReads(s) \/ AppEnds(s)
  \/ ConnectionLost \/ HostConnects \/ HostFails
  \/ \E s \in Sides, d \in Directions : BridgeNext(s, d)

SessionSpec == SessionInit /\ [][SessionNext]_sessionVars

(***************************************************************************)
(* Copies are polled when they can go on, and a timeout runs out.  A copy  *)
(* that waits for its target to take what it holds is not polled on behalf *)
(* of its source, so only a target that is gone makes it fail.  Nothing is *)
(* assumed of an app: it may stop writing and stop reading, and stay.      *)
(***************************************************************************)
SessionFairness ==
  /\ WF_sessionVars(HostConnects \/ HostFails)
  /\ \A s \in Sides, d \in Directions :
       /\ WF_sessionVars(CopyReads(s, d)) /\ WF_sessionVars(CopyWrites(s, d))
       /\ WF_sessionVars(FirstEnds(s, d) \/ DrainEnds(s, d))
       /\ WF_sessionVars(DrainTimesOut(s, d))
       /\ WF_sessionVars(/\ buffer[s][d] = <<>> \/ ~chan[Target(s, d)].read
                         /\ CopyFails(s, d))

FairSessionSpec == SessionSpec /\ SessionFairness

-----------------------------------------------------------------------------
(* Properties *)

\* An app that has read everything and then a clean end of its connection.
ReadToEnd(s) == chan[Readable(s)].data = <<>> /\ chan[Readable(s)].end = "finished"

\* After one direction has ended the other is drained, "to avoid truncation": an app
\* reads what the other wrote in order and without a gap, and all of it before a
\* clean end, unless a bridge failed or its drain timed out; or unless select!
\* dropped a copy that had read what it could not yet write, the one thing that
\* leaves a gap in the middle.
LossesExplained ==
  \A s \in Sides :
    /\ s \notin cut => \A n \in DOMAIN got[s] : got[s][n] = n
    /\ s \notin cut \cup gaveUp /\ ReadToEnd(Other(s)) => Len(got[s]) = wrote[s]

\* A bridge that still copies both ways holds data for an app that is there and has
\* stopped reading.
Stalled(s) == bridge[s] = "both" /\ chan[Readable(s)].read /\ ~HasRoom(Readable(s))

\* A session ends on both sides once either app has ended what it writes, and so gives
\* back its permit and its stream, unless an app that stays never reads what waits for
\* it: a bridge sees no timeout before one direction has ended (transport.rs:43-60), so
\* such an app keeps the session for as long as it likes, even over a lost connection.
\* Otherwise it ends whatever the apps and the connection do, by the end or an error of
\* its copies or by DRAIN_TIMEOUT, which an app that stops reading does not hold up.
BothBridgesEnd ==
  \/ <>[](\E s \in Sides : Stalled(s))
  \/ (\E s \in Sides : chan[Written(s)].end # "open") ~> (\A s \in Sides : bridge[s] = "over")
=============================================================================
