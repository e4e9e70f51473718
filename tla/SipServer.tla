------------------------------ MODULE SipServer ------------------------------
(* The SIP server of src/src/sipServer: RequestsHandler, the sessions it      *)
(* keeps, and the phones that talk to it over UDP.                            *)
(*                                                                            *)
(* UdpServer's only thread reads one datagram at a time and runs its handler  *)
(* to the end, so a handler is one action.  A datagram that fails to parse is *)
(* dropped and is not modelled.  The phones are not part of the repository:   *)
(* they are modelled as ordinary SIP user agents, from what the handlers      *)
(* expect of them.  A phone keeps its address.  Datagrams of one phone arrive *)
(* in order unless the network disturbs them, which it does at most           *)
(* MaxDisturbed times, and at most MaxDuplicated datagrams arrive twice (a    *)
(* retransmission, for the server).                                           *)
EXTENDS Integers, SequencesExt

CONSTANTS Phones,        \* the numbers
          Calls,         \* the call identifiers
          Caller, Called,\* [Calls -> Phones]
          MaxRegisters,  \* bound on the REGISTER datagrams sent
          MaxDisturbed,  \* bound on lost and overtaken datagrams, on phones
                         \* that unregister, and on answers without a body
          MaxDuplicated  \* bound on duplicated datagrams

ASSUME PartiesAssumption ==
    /\ Caller \in [Calls -> Phones] /\ Called \in [Calls -> Phones]
    /\ \A k \in Calls : Caller[k] # Called[k]

ASSUME FaultsAssumption ==
    MaxRegisters \in Nat /\ MaxDisturbed \in Nat /\ MaxDuplicated \in Nat

VARIABLES clients,    \* _clients, by number
          sessions,   \* _sessions, by call: the state and whether _dest is set
          leftover,   \* the receive buffer may still hold an earlier body
          up, down,   \* datagrams on their way from, and to, each phone
          caller, called,  \* what the two phones of a call are doing
          registers, disturbed, duplicated

server == <<clients, sessions, leftover>>
phones == <<caller, called, registers>>
faults == <<disturbed, duplicated>>
sipVars == <<server, up, down, phones, faults>>

NoSession == [state |-> "none", dest |-> FALSE]

Message(type, method, k, from, to, sdp) ==
    [type |-> type, method |-> method, call |-> k,
     from |-> from, to |-> to, sdp |-> sdp]

\* A response repeats the From, To, Call-ID and CSeq of its request.
Reply(m, type, sdp) == [m EXCEPT !.type = type, !.sdp = sdp]

SipInit ==
    /\ clients = {}
    /\ sessions = [k \in Calls |-> NoSession]
    /\ leftover = FALSE
    /\ up = [p \in Phones |-> <<>>]
    /\ down = [p \in Phones |-> <<>>]
    /\ caller = [k \in Calls |-> "idle"]
    /\ called = [k \in Calls |-> "idle"]
    /\ registers = 0
    /\ disturbed = 0
    /\ duplicated = 0

-----------------------------------------------------------------------------
(* RequestsHandler.                                                           *)

SetCallState(k, state) ==
    [sessions EXCEPT ![k].state = IF @ = "none" THEN @ ELSE state]

EndCall(k) == [sessions EXCEPT ![k] = NoSession]

\* To the client with that number; without one, the message goes back to the
\* phone it came from with its first line changed to 404.
EndHandle(number, m, source) ==
    IF number \in clients
    THEN [down EXCEPT ![number] = Append(@, m)]
    ELSE [down EXCEPT ![source] = Append(@, [m EXCEPT !.type = "NotFound"])]

\* recvfrom writes no terminator: a datagram without a body can be read with
\* the end of a longer, earlier one behind it.
HasSdp(m) == IF leftover THEN {m.sdp, TRUE} ELSE {m.sdp}

Receive(p, types) ==
    /\ up[p] # <<>>
    /\ Head(up[p]).type \in types
    /\ up' = [up EXCEPT ![p] = Tail(@)]
    /\ leftover' = (leftover \/ Head(up[p]).sdp)
    /\ UNCHANGED <<phones, faults>>

\* UNREGISTER stands for a REGISTER with expires=0.
OnRegister(p) ==
    /\ Receive(p, {"REGISTER", "UNREGISTER"})
    /\ LET m == Head(up[p])
           known == IF m.type = "REGISTER" THEN clients \cup {m.from} ELSE clients
       IN  /\ down' = [down EXCEPT ![p] = Append(@,
                          Reply(m, IF m.from \in known THEN "OK" ELSE "NotFound",
                                FALSE))]
           /\ clients' = IF m.type = "REGISTER" THEN known ELSE known \ {m.from}
    /\ UNCHANGED sessions

OnInvite(p) ==
    /\ Receive(p, {"INVITE"})
    /\ LET m == Head(up[p])
       IN  \/ /\ m.from \notin clients
              /\ UNCHANGED <<sessions, down>>
           \/ /\ m.from \in clients
              /\ m.to \notin clients
              /\ down' = EndHandle(m.from, [m EXCEPT !.type = "NotFound"], p)
              /\ UNCHANGED sessions
           \/ /\ {m.from, m.to} \subseteq clients
              /\ FALSE \in HasSdp(m)
              /\ UNCHANGED <<sessions, down>>
           \/ /\ {m.from, m.to} \subseteq clients
              /\ TRUE \in HasSdp(m)
              /\ sessions' = IF sessions[m.call] # NoSession THEN sessions
                             ELSE [sessions EXCEPT ![m.call].state = "Invited"]
              /\ down' = EndHandle(m.to, m, p)
    /\ UNCHANGED clients

\* OnTrying, OnRinging, onReqTerminated: forwarded, nothing else.
OnForwarded(p) ==
    /\ Receive(p, {"Trying", "Ringing", "RequestTerminated"})
    /\ down' = EndHandle(Head(up[p]).from, Head(up[p]), p)
    /\ UNCHANGED <<clients, sessions>>

\* OnBusy and OnUnavailable.
OnRefused(p) ==
    /\ Receive(p, {"Busy", "Unavailable"})
    /\ LET m == Head(up[p])
       IN  /\ sessions' = SetCallState(m.call, m.type)
           /\ down' = EndHandle(m.from, m, p)
    /\ UNCHANGED clients

\* Slip: OnCancel answers the caller instead of the called party.
OnCancelToCaller(p) ==
    /\ Receive(p, {"CANCEL"})
    /\ LET m == Head(up[p])
       IN  /\ sessions' = SetCallState(m.call, "Cancel")
           /\ down' = EndHandle(m.from, m, p)
    /\ UNCHANGED clients

OnCancel(p) ==
    /\ Receive(p, {"CANCEL"})
    /\ LET m == Head(up[p])
       IN  /\ sessions' = SetCallState(m.call, "Cancel")
           /\ down' = EndHandle(m.to, m, p)
    /\ UNCHANGED clients

\* Slip: OnBye only forwards.
OnByeForwards(p) ==
    /\ Receive(p, {"BYE"})
    /\ down' = EndHandle(Head(up[p]).to, Head(up[p]), p)
    /\ UNCHANGED <<clients, sessions>>

OnBye(p) ==
    /\ Receive(p, {"BYE"})
    /\ LET m == Head(up[p])
       IN  /\ sessions' = SetCallState(m.call, "Bye")
           /\ down' = EndHandle(m.to, m, p)
    /\ UNCHANGED clients

\* Slip: OnOk enters Connected without setDest.
ConnectNoDest(m, p) ==
    /\ sessions' = [sessions EXCEPT ![m.call].state = "Connected"]
    /\ down' = EndHandle(m.from, m, p)

\* setDest, setState(Connected), and the answer goes to the caller.
Connect(m, p) ==
    /\ sessions' = [sessions EXCEPT ![m.call] = [state |-> "Connected", dest |-> TRUE]]
    /\ down' = EndHandle(m.from, m, p)

OnOk(p) ==
    /\ Receive(p, {"OK"})
    /\ LET m == Head(up[p])
           state == sessions[m.call].state
       IN  \/ /\ state = "none"
              /\ UNCHANGED <<sessions, down>>
           \/ /\ state = "Cancel"
              /\ down' = EndHandle(m.from, m, p)
              /\ UNCHANGED sessions
           \/ /\ state \notin {"none", "Cancel"} /\ m.method = "INVITE"
              /\ \/ /\ m.to \notin clients
                    /\ UNCHANGED <<sessions, down>>
                 \/ /\ m.to \in clients
                    /\ FALSE \in HasSdp(m)
                    /\ sessions' = EndCall(m.call)
                    /\ UNCHANGED down
                 \/ /\ m.to \in clients
                    /\ TRUE \in HasSdp(m)
                    /\ Connect(m, p)
           \/ /\ state = "Bye" /\ m.method # "INVITE"
              /\ down' = EndHandle(m.from, m, p)
              /\ sessions' = EndCall(m.call)
           \/ /\ state \notin {"none", "Cancel", "Bye"} /\ m.method # "INVITE"
              /\ UNCHANGED <<sessions, down>>
    /\ UNCHANGED clients

\* Slip: OnAck forgets that a refused call is over.
EndedByAckOnlyCancel == {"Cancel"}

\* The states in which the caller's ACK is the end of the call.
EndedByAck == {"Busy", "Unavailable", "Cancel"}

OnAck(p) ==
    /\ Receive(p, {"ACK"})
    /\ LET m == Head(up[p])
           state == sessions[m.call].state
       IN  /\ down' = IF state = "none" THEN down ELSE EndHandle(m.to, m, p)
           /\ sessions' = IF state \in EndedByAck THEN EndCall(m.call) ELSE sessions
    /\ UNCHANGED clients

Server(p) ==
    \/ OnRegister(p) \/ OnInvite(p) \/ OnForwarded(p) \/ OnRefused(p)
    \/ OnCancel(p) \/ OnBye(p) \/ OnOk(p) \/ OnAck(p)

-----------------------------------------------------------------------------
(* The phones: a caller and a called party for each call.                     *)

Sends(p, ms) ==
    /\ up' = [up EXCEPT ![p] = @ \o ms]
    /\ UNCHANGED <<server, faults>>

Request(k, type, p) ==
    Message(type, type, k, p, IF p = Caller[k] THEN Called[k] ELSE Caller[k], FALSE)

Registration(p, type) == Message(type, "REGISTER", "registration", p, p, FALSE)

SendRegister(p) ==
    /\ registers < MaxRegisters
    /\ registers' = registers + 1
    /\ Sends(p, <<Registration(p, "REGISTER")>>)
    /\ UNCHANGED <<down, caller, called>>

\* An INVITE may leave the offer to the other side.
SendInvite(k) ==
    /\ caller[k] = "idle"
    /\ caller' = [caller EXCEPT ![k] = "inviting"]
    /\ \E sdp \in BOOLEAN :
          Sends(Caller[k], <<[Request(k, "INVITE", Caller[k]) EXCEPT !.sdp = sdp]>>)
    /\ UNCHANGED <<down, called, registers>>

SendCancel(k) ==
    /\ caller[k] = "proceeding"
    /\ caller' = [caller EXCEPT ![k] = "cancelling"]
    /\ Sends(Caller[k], <<Request(k, "CANCEL", Caller[k])>>)
    /\ UNCHANGED <<down, called, registers>>

CallerHangsUp(k) ==
    /\ caller[k] = "up"
    /\ caller' = [caller EXCEPT ![k] = "leaving"]
    /\ Sends(Caller[k], <<Request(k, "BYE", Caller[k])>>)
    /\ UNCHANGED <<down, called, registers>>

CalledHangsUp(k) ==
    /\ called[k] = "up"
    /\ called' = [called EXCEPT ![k] = "leaving"]
    /\ Sends(Called[k], <<Request(k, "BYE", Called[k])>>)
    /\ UNCHANGED <<down, caller, registers>>

Invite(k) == Request(k, "INVITE", Caller[k])

Ring(k) ==
    /\ called[k] = "trying"
    /\ called' = [called EXCEPT ![k] = "ringing"]
    /\ Sends(Called[k], <<Reply(Invite(k), "Ringing", FALSE)>>)
    /\ UNCHANGED <<down, caller, registers>>

Accept(k) ==
    /\ called[k] \in {"trying", "ringing"}
    /\ called' = [called EXCEPT ![k] = "answered"]
    /\ Sends(Called[k], <<Reply(Invite(k), "OK", TRUE)>>)
    /\ UNCHANGED <<down, caller, registers>>

Refuse(k) ==
    /\ called[k] \in {"trying", "ringing"}
    /\ called' = [called EXCEPT ![k] = "refused"]
    /\ \E type \in {"Busy", "Unavailable"} :
          Sends(Called[k], <<Reply(Invite(k), type, FALSE)>>)
    /\ UNCHANGED <<down, caller, registers>>

FinalRefusals == {"Busy", "Unavailable", "RequestTerminated", "NotFound"}

\* What a caller does with a datagram: its next state and what it sends.
CallerReaction(s, m) ==
    LET ack == Request(m.call, "ACK", m.from)
        bye == Request(m.call, "BYE", m.from)
        trying == s \in {"inviting", "proceeding"}
        final == m.type \in FinalRefusals /\ m.method = "INVITE"
    IN  CASE m.type \in {"Trying", "Ringing"} /\ trying -> <<"proceeding", <<>>>>
          [] m.type = "OK" /\ m.method = "INVITE" /\ trying -> <<"up", <<ack>>>>
          [] m.type = "OK" /\ m.method = "INVITE" /\ s = "cancelling" ->
               <<"dropping", <<ack, bye>>>>
          [] m.type = "OK" /\ m.method = "INVITE" /\ s \in {"up", "leaving", "dropping", "over"} ->
               <<s, <<ack>>>>
          [] final /\ (trying \/ s = "cancelling") -> <<"over", <<ack>>>>
          [] m.type = "BYE" /\ s \in {"up", "leaving"} ->
               <<"over", <<Reply(m, "OK", FALSE)>>>>
          [] m.type \in {"OK", "NotFound"} /\ m.method = "BYE" /\ s \in {"leaving", "dropping"} ->
               <<"over", <<>>>>
          [] OTHER -> <<s, <<>>>>

CalledReaction(s, m) ==
    CASE m.type = "INVITE" /\ s = "idle" -> <<"trying", <<Reply(m, "Trying", FALSE)>>>>
      [] m.type = "CANCEL" /\ s \in {"trying", "ringing"} ->
           <<"refused", <<Reply(m, "OK", FALSE),
                          Reply(Invite(m.call), "RequestTerminated", FALSE)>>>>
      [] m.type = "CANCEL" /\ s \notin {"idle", "trying", "ringing"} ->
           <<s, <<Reply(m, "OK", FALSE)>>>>
      [] m.type = "ACK" /\ s = "answered" -> <<"up", <<>>>>
      [] m.type = "ACK" /\ s = "refused" -> <<"over", <<>>>>
      [] m.type = "BYE" /\ s \in {"answered", "up", "leaving"} ->
           <<"over", <<Reply(m, "OK", FALSE)>>>>
      [] m.type \in {"OK", "NotFound"} /\ m.method = "BYE" /\ s = "leaving" -> <<"over", <<>>>>
      [] OTHER -> <<s, <<>>>>

PhoneReceives(p) ==
    /\ down[p] # <<>>
    /\ down' = [down EXCEPT ![p] = Tail(@)]
    /\ LET m == Head(down[p])
           k == m.call
       IN  CASE m.method = "REGISTER" ->
                  Sends(p, <<>>) /\ UNCHANGED <<caller, called>>
             [] m.method # "REGISTER" /\ p = Caller[k] ->
                  /\ caller' = [caller EXCEPT ![k] = CallerReaction(@, m)[1]]
                  /\ Sends(p, CallerReaction(caller[k], m)[2])
                  /\ UNCHANGED called
             [] m.method # "REGISTER" /\ p # Caller[k] ->
                  /\ called' = [called EXCEPT ![k] = CalledReaction(@, m)[1]]
                  /\ Sends(p, CalledReaction(called[k], m)[2])
                  /\ UNCHANGED caller
    /\ UNCHANGED registers

-----------------------------------------------------------------------------
(* What goes wrong: the network, and phones that do not keep to the protocol. *)

Overtaken(s, i) == [s EXCEPT ![i] = s[i + 1], ![i + 1] = s[i]]

Disturbances(s) ==
    {RemoveAt(s, i) : i \in 1..Len(s)} \cup {Overtaken(s, i) : i \in 1..Len(s) - 1}

Disturbed ==
    /\ disturbed < MaxDisturbed
    /\ disturbed' = disturbed + 1
    /\ UNCHANGED <<server, duplicated>>

DisturbUp(p) ==
    /\ Disturbed
    /\ \E s \in Disturbances(up[p]) : up' = [up EXCEPT ![p] = s]
    /\ UNCHANGED <<down, phones>>

DisturbDown(p) ==
    /\ Disturbed
    /\ \E s \in Disturbances(down[p]) : down' = [down EXCEPT ![p] = s]
    /\ UNCHANGED <<up, phones>>

Unregister(p) ==
    /\ Disturbed
    /\ up' = [up EXCEPT ![p] = Append(@, Registration(p, "UNREGISTER"))]
    /\ UNCHANGED <<down, phones>>

AcceptWithoutBody(k) ==
    /\ Disturbed
    /\ called[k] \in {"trying", "ringing"}
    /\ called' = [called EXCEPT ![k] = "answered"]
    /\ up' = [up EXCEPT ![Called[k]] = Append(@, Reply(Invite(k), "OK", FALSE))]
    /\ UNCHANGED <<down, caller, registers>>

Duplicate(p) ==
    /\ duplicated < MaxDuplicated
    /\ duplicated' = duplicated + 1
    /\ \E i \in 1..Len(up[p]) : up' = [up EXCEPT ![p] = Append(@, @[i])]
    /\ UNCHANGED <<server, down, phones, disturbed>>

Phone(p) == SendRegister(p) \/ PhoneReceives(p)

UserActs(k) ==
    \/ SendInvite(k) \/ SendCancel(k) \/ CallerHangsUp(k)
    \/ Ring(k) \/ Accept(k) \/ Refuse(k) \/ CalledHangsUp(k)

Fault ==
    \/ \E p \in Phones : DisturbUp(p) \/ DisturbDown(p) \/ Unregister(p) \/ Duplicate(p)
    \/ \E k \in Calls : AcceptWithoutBody(k)

SipNext ==
    \/ \E p \in Phones : Server(p) \/ Phone(p)
    \/ \E k \in Calls : UserActs(k)
    \/ Fault

\* The server reads its socket and the phones theirs; no user has to act.
Fairness == \A p \in Phones : WF_sipVars(Server(p)) /\ WF_sipVars(PhoneReceives(p))

SipSpec == SipInit /\ [][SipNext]_sipVars /\ Fairness

-----------------------------------------------------------------------------
(* Properties.                                                                *)

States == {"none", "Invited", "Busy", "Unavailable", "Cancel", "Bye", "Connected"}

\* Types; and a Connected session has a destination, which setState
\* dereferences when it enters that state (Session.cpp:15).
SipTypeOK ==
    /\ clients \subseteq Phones
    /\ sessions \in [Calls -> [state : States, dest : BOOLEAN]]
    /\ leftover \in BOOLEAN
    /\ \A k \in Calls : sessions[k].state = "Connected" => sessions[k].dest
    /\ disturbed \in 0..MaxDisturbed /\ duplicated \in 0..MaxDuplicated

InFlight(k) ==
    \E p \in Phones : \E m \in ToSet(up[p]) \cup ToSet(down[p]) : m.call = k

\* When both parties are through with a call and none of its datagrams is on
\* its way, its session is gone from _sessions: refused, cancelled, hung up by
\* either or by both, and also when a CANCEL and the answer crossed.
SessionEndsWithCall ==
    \A k \in Calls :
        /\ disturbed = 0 /\ duplicated = 0
        /\ caller[k] \in {"over", "dropping"}
        /\ called[k] \in {"idle", "over"}
        /\ ~InFlight(k)
        => sessions[k] = NoSession

\* Neither party of a Connected session is through with the call: what ends a
\* call on either side has passed the server first.  Lost and overtaken
\* datagrams do not change that; a duplicated answer can.
ConnectedIsInUse ==
    \A k \in Calls :
        duplicated = 0 /\ sessions[k].state = "Connected" =>
            caller[k] # "over" /\ called[k] # "over"

\* Who cancels or hangs up gets to the end of it: the server finds the other
\* party, and sends its answer back although the answer changes the session.
\* A caller that must hang up because the answer overtook its CANCEL is left
\* out: its ACK has ended the session, and OnOk drops the answer to its BYE.
LeavingEnds ==
    \A k \in Calls :
        /\ caller[k] = "cancelling" ~>
              caller[k] \in {"over", "dropping"} \/ disturbed + duplicated > 0
        /\ caller[k] = "leaving" ~> caller[k] = "over" \/ disturbed + duplicated > 0
        /\ called[k] = "leaving" ~> called[k] = "over" \/ disturbed + duplicated > 0

=============================================================================
