--------------------------- MODULE RelayedSession ---------------------------
(***************************************************************************)
(* A client and its relays: the relay selector (SimpleRlysltr) and, at     *)
(* each relay, the lease of this client's session as RelayLease describes  *)
(* it.  SimpleFwd implements RelayLease, so a relay may do what its actions *)
(* allow; the other clients of a relay only show in refused reservations,  *)
(* which are answered like granted ones.  The data the client sends through *)
(* its relays is lost, late and duplicated like every other packet, so it  *)
(* may reach a relay after the socket was closed.                          *)
(***************************************************************************)
EXTENDS SimpleRlysltr

VARIABLES
  lease,     \* lease[r]: the session of this client in the table of relay r
  confirmed  \* history variable: the relays whose BW_REPLY the client has read
             \* and which it has not sent a BW_RELEASE since

session == <<lease, confirmed>>
svars == <<vars, session>>

SessionInit ==
  /\ Init
  /\ lease = [r \in Relays |-> "none"]
  /\ confirmed = {}

-----------------------------------------------------------------------------
(* The client, with the history of what it was granted and gave back *)

ClientReleases ==
  /\ ReleaseOne
  /\ confirmed' = confirmed \ {relaylist[cursor].relay}
  /\ UNCHANGED lease

ClientConfirms(m, rest) ==
  /\ ProcessBwReply(m, rest)
  /\ confirmed' = confirmed \cup {m.relay}
  /\ UNCHANGED lease

ClientOther ==
  /\ \/ Open
     \/ Close
     \/ Join
     \/ ReleaseEnds
     \/ CyclePing
     \/ \E new \in SeqOf(Relays, MaxAdvice) : new # <<>> /\ ProcessRlAdvice(new)
     \/ \E m \in net : \E rest \in {net, net \ {m}} :
          \/ \E busy \in BOOLEAN : ProcessFwReplyGood(m, rest, busy)
          \/ ProcessFwReplyLate(m, rest)
  /\ UNCHANGED session

\* Data goes to relays that were put on the list since the socket was opened.
ClientSendsData(r) ==
  /\ SendsData(r)
  /\ r \in confirmed
  /\ UNCHANGED session

-----------------------------------------------------------------------------
(* The relays *)

\* A reservation arrives: granted, or refused because the table is full of
\* other sessions.  The answer is the same.
RelayReserves(m, rest, room) ==
  /\ Answered(m, rest)
  /\ lease' = IF room \/ lease[m.relay] # "none"
              THEN [lease EXCEPT ![m.relay] = "live"] ELSE lease
  /\ UNCHANGED confirmed

RelayReleases(m, rest) ==
  /\ m.type = "BW_RELEASE"
  /\ net' = rest
  /\ UNCHANGED <<cands, relays, pinger, running, app, cursor>>
  /\ lease' = [lease EXCEPT ![m.relay] = "none"]
  /\ UNCHANGED confirmed

\* A data packet arrives: while the session is there the relay forwards it and
\* counts it as contact, otherwise it drops it.
RelayForwards(m, rest) ==
  /\ m.type = "DATA"
  /\ net' = rest
  /\ UNCHANGED <<cands, relays, pinger, running, app, cursor>>
  /\ lease' = IF lease[m.relay] # "none"
              THEN [lease EXCEPT ![m.relay] = "live"] ELSE lease
  /\ UNCHANGED confirmed

\* A session without contact passes the timeout.
RelayAges(r) ==
  /\ lease[r] = "live"
  /\ lease' = [lease EXCEPT ![r] = "stale"]
  /\ UNCHANGED <<vars, confirmed>>

\* The sweep takes stale sessions back; the variant sweeps in the handlers of
\* packets instead of in a thread of its own.
ExpiresOnContact(r) ==
  /\ lease[r] = "stale"
  /\ \E m \in net : m.relay = r
  /\ lease' = [lease EXCEPT ![r] = "none"]
  /\ UNCHANGED <<vars, confirmed>>

RelayExpires(r) ==
  /\ lease[r] = "stale"
  /\ lease' = [lease EXCEPT ![r] = "none"]
  /\ UNCHANGED <<vars, confirmed>>

SessionNext ==
  \/ ClientReleases
  \/ \E m \in net : \E rest \in {net, net \ {m}} : ClientConfirms(m, rest)
  \/ ClientOther
  \/ \E r \in Relays : ClientSendsData(r) \/ RelayAges(r) \/ RelayExpires(r)
  \/ \E m \in net : \E rest \in {net, net \ {m}} :
       \/ \E room \in BOOLEAN : RelayReserves(m, rest, room)
       \/ RelayReleases(m, rest)
       \/ RelayForwards(m, rest)
  \/ \E m \in net : Vanishes(m) /\ UNCHANGED session
  \/ Tick /\ UNCHANGED session

SessionSpec == SessionInit /\ [][SessionNext]_svars

\* Time passes, for packets on the network and for sessions without contact,
\* and the update_daemon of each relay runs.
SessionFair ==
  /\ SessionSpec
  /\ WF_svars(Tick /\ UNCHANGED session)
  /\ \A r \in Relays : WF_svars(RelayAges(r)) /\ WF_svars(RelayExpires(r))

-----------------------------------------------------------------------------
(* Properties *)

\* Whatever is lost, late or duplicated, once the client has closed its socket
\* every relay gets its resource back and keeps it: releases that got lost are
\* made up for by the timeout, and a reservation that overtakes or survives its
\* release, or data that comes late, keeps the session for a while only.
ResourcesComeBack ==
  (app = "closed") ~> [](\A r \in Relays : lease[r] = "none")

\* simplerlysltr.cpp:695 "release all preserved resources": no relay that has
\* confirmed a reservation to the client is left with it, and without a release
\* on the way, when the client has closed.
AllReleased == app = "closed" => \A r \in confirmed : lease[r] = "none"

=============================================================================
