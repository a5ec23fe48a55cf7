-------------------------- MODULE GracefulShutdown --------------------------
(***************************************************************************)
(* What a connection does about its end (include/http2/transport.h, Drain  *)
(* and OnShutdownComplete): after a GOAWAY it opens no stream of its own   *)
(* and takes none of the peer's above the last id it announced, waits for  *)
(* the streams it has, and reports completion exactly once, in the very    *)
(* step in which the last of them goes.  An error, or the application's    *)
(* SendGoAway or Shutdown, ends the connection without that report; a      *)
(* drain that has begun is not given up by a later GOAWAY.                 *)
(*                                                                         *)
(* transport.h:618 and README.md:413 promise more: that no new stream of   *)
(* the peer is taken at all while draining.  The code compares ids only,   *)
(* so an id up to the announced one that is not in use opens a stream.     *)
(***************************************************************************)
EXTENDS Naturals

CONSTANTS Ids, LocalIds

VARIABLES active,   \* the streams the connection works on
          phase,    \* "running", "draining", "complete" or "goaway"
          last      \* the last id announced, 0 before any GOAWAY

shutdownVars == <<active, phase, last>>

ShutdownInit == active = {} /\ phase = "running" /\ last = 0

\* After a GOAWAY only a stream of the peer, and only up to the announced id.
Open(id) ==
    /\ phase # "running" => id \notin LocalIds /\ id <= last
    /\ active' = active \cup {id}
    /\ UNCHANGED <<phase, last>>

Close(id) ==
    /\ active' = active \ {id}
    /\ phase' = IF phase = "draining" /\ active' = {} THEN "complete" ELSE phase
    /\ last' = last

BeginDrain(n) ==
    /\ phase = "running"
    /\ phase' = IF active = {} THEN "complete" ELSE "draining"
    /\ last' = n
    /\ active' = active

GiveUp(n) ==
    /\ phase = "running" /\ phase' = "goaway"
    /\ last' = n
    /\ active' = active

\* A further GOAWAY changes what is announced and nothing else.
Announce(n) ==
    /\ phase # "running"
    /\ last' = n
    /\ UNCHANGED <<active, phase>>

ShutdownNext ==
    \/ \E id \in Ids : Open(id) \/ Close(id)
    \/ \E n \in Ids \cup {0} : BeginDrain(n) \/ GiveUp(n) \/ Announce(n)

ShutdownSpec == ShutdownInit /\ [][ShutdownNext]_shutdownVars
=============================================================================
