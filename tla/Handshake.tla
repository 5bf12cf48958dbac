----------------------------- MODULE Handshake -----------------------------
(***************************************************************************)
(* How the miners talk: send offers a payload to one peer or to everyone,  *)
(* and transmits it to those who confirm that they want it; request asks   *)
(* everyone, and who holds the payload answers with a send.  Every message *)
(* is handled by a goroutine of its own, so the channels, which are        *)
(* unbuffered, only delay the sender until the receiver listens.           *)
(*                                                                         *)
(* A call of send or request is one of Calls; what it sends to a peer is   *)
(* known by the pair of them, which stands for the random response number. *)
(***************************************************************************)
EXTENDS Naturals, FiniteSets, SequencesExt

CONSTANTS
  Miners,
  First,      \* the miners subscribed at first, in that order
  Payloads,
  Maker,      \* who makes a payload, and broadcasts it
  Wanted      \* the payloads miners will ask for: pairs

ASSUME HandshakeAssumption ==
  /\ First \in Seq(Miners) /\ IsInjective(First)
  /\ Maker \in [Payloads -> Miners]
  /\ Wanted \subseteq Miners \X Payloads

Call(kind, by, data, to) == [kind |-> kind, by |-> by, data |-> data, to |-> to]

Broadcasts == {Call("broadcast", Maker[p], p, Maker[p]) : p \in Payloads}
Requests == {Call("request", w[1], w[2], w[1]) : w \in Wanted}
Answers == {Call("answer", m, w[2], w[1]) : m \in Miners, w \in Wanted}
Calls == Broadcasts \cup Requests \cup Answers
Offers == Calls \X Miners

Handlers == [kind : {"confirmation", "accept", "reply", "send", "request"}, offer : Offers]

VARIABLES
  network,         \* networkChannels and lookup
  listening,       \* miners whose receiveNetwork runs
  waiting,         \* miners about to subscribe: they want the write lock
  holds,           \* the payloads a miner's chain or pool has
  receivedData,
  receiveChannels, \* of all miners: the offers that wait for an answer
  pc,              \* where each call is
  rest,            \* the peers it still has to serve, the current one first
  handlers,        \* the goroutines that handle messages
  dead,            \* a goroutine has panicked, which ends the process
  prompt,          \* assumed of this behaviour: answers come in time
  audience,        \* history: the subscribers when a call was made
  timedOut         \* history: offers that timed out

peerVars == <<network, listening, waiting>>
dataVars == <<holds, receivedData>>
callVars == <<receiveChannels, pc, rest, audience, timedOut>>
vars == <<peerVars, dataVars, callVars, handlers, dead, prompt>>

-----------------------------------------------------------------------------
(* The lock of networkChannels: broadcasts and requests keep it for        *)
(* reading while they walk through the channels, and a miner that          *)
(* subscribes appends under the write lock.  Who waits to write keeps new  *)
(* readers out.                                                            *)

(* Variant: the lock is not given back.                                    *)
ReadingOnceStarted(c) == c \notin Answers /\ pc[c] \notin {"idle", "lock"}

Reading(c) == c \notin Answers /\ pc[c] \notin {"idle", "lock", "done"}

WantToSubscribe(m) ==
  /\ m \notin ToSet(network) \cup waiting
  /\ waiting' = waiting \cup {m}
  /\ UNCHANGED <<network, listening, dataVars, callVars, handlers>>

(* Variant: it wants the lock again.                                       *)
SubscribeAgain(m) ==
  /\ m \in waiting
  /\ \A c \in Calls : ~Reading(c)
  /\ network' = Append(network, m)
  /\ UNCHANGED <<listening, waiting, dataVars, callVars, handlers>>

Subscribe(m) ==
  /\ m \in waiting
  /\ \A c \in Calls : ~Reading(c)
  /\ network' = Append(network, m)
  /\ waiting' = waiting \ {m}
  /\ UNCHANGED <<listening, dataVars, callVars, handlers>>

Listen(m) ==
  /\ m \in ToSet(network) \ listening
  /\ listening' = listening \cup {m}
  /\ UNCHANGED <<network, waiting, dataVars, callVars, handlers>>

-----------------------------------------------------------------------------
(* The calls.                                                              *)

Start(c) ==
  /\ c \in Broadcasts \cup Requests /\ pc[c] = "idle"
  /\ c.by \in listening
  /\ c \in Broadcasts => c.data \in holds[c.by]
  /\ pc' = [pc EXCEPT ![c] = "lock"]
  /\ audience' = [audience EXCEPT ![c] = ToSet(network)]
  /\ UNCHANGED <<peerVars, dataVars, receiveChannels, rest, timedOut, handlers>>

(* Variant: the last channel is left out.                                  *)
GoOnAlmost(peers) == IF Len(peers) <= 1 THEN "done" ELSE "next"

GoOn(peers) == IF peers = <<>> THEN "done" ELSE "next"

Lock(c) ==
  /\ pc[c] = "lock" /\ waiting = {}
  /\ rest' = [rest EXCEPT ![c] = network]
  /\ pc' = [pc EXCEPT ![c] = GoOn(network)]
  /\ UNCHANGED <<peerVars, dataVars, receiveChannels, audience, timedOut, handlers>>

Handler(kind, offer) == [kind |-> kind, offer |-> offer]
CurrentOffer(c) == <<c, Head(rest[c])>>

NextPeer(c) ==
  /\ rest' = [rest EXCEPT ![c] = Tail(@)]
  /\ pc' = [pc EXCEPT ![c] = GoOn(Tail(rest[c]))]

(* A broadcast leaves out the channel of the sender, a request does not.   *)
OwnChannel(c) == c \in Broadcasts /\ Head(rest[c]) = c.by

Skip(c) ==
  /\ pc[c] = "next" /\ OwnChannel(c)
  /\ NextPeer(c)
  /\ UNCHANGED <<peerVars, dataVars, receiveChannels, audience, timedOut, handlers>>

(* request hands its message to the next peer.                             *)
Ask(c) ==
  /\ c \in Requests /\ pc[c] = "next"
  /\ Head(rest[c]) \in listening
  /\ handlers' = handlers \cup {Handler("request", CurrentOffer(c))}
  /\ NextPeer(c)
  /\ UNCHANGED <<peerVars, dataVars, receiveChannels, audience, timedOut>>

(* send, confirmSend: the response channel, the offer, and ten seconds to  *)
(* answer it.                                                              *)
Offer(c) ==
  /\ c \notin Requests /\ pc[c] = "next" /\ ~OwnChannel(c)
  /\ Head(rest[c]) \in listening
  /\ receiveChannels' = receiveChannels \cup {CurrentOffer(c)}
  /\ handlers' = handlers \cup {Handler("confirmation", CurrentOffer(c))}
  /\ pc' = [pc EXCEPT ![c] = "wait"]
  /\ UNCHANGED <<peerVars, dataVars, rest, audience, timedOut>>

(* The goroutine that has the acceptance passes it on, and the payload     *)
(* follows.  Nobody else knows the response number then, so the channel    *)
(* can be forgotten and closed in the same step.                           *)
Transmit(c) ==
  /\ pc[c] = "wait"
  /\ Handler("reply", CurrentOffer(c)) \in handlers
  /\ handlers' = (handlers \ {Handler("reply", CurrentOffer(c))})
                   \cup {Handler("send", CurrentOffer(c))}
  /\ receiveChannels' = receiveChannels \ {CurrentOffer(c)}
  /\ NextPeer(c)
  /\ UNCHANGED <<peerVars, dataVars, audience, timedOut>>

AnswerUnderWay(offer) == \E h \in handlers : h.offer = offer

(* Variant: no timer.                                                      *)
TimeoutNever(c) == FALSE /\ UNCHANGED vars

Timeout(c) ==
  /\ pc[c] = "wait" /\ ~(prompt /\ AnswerUnderWay(CurrentOffer(c)))
  /\ pc' = [pc EXCEPT ![c] = "timedOut"]
  /\ timedOut' = timedOut \cup {CurrentOffer(c)}
  /\ UNCHANGED <<peerVars, dataVars, receiveChannels, rest, audience, handlers>>

(* Variant: who times out leaves its channel behind.                       *)
Leave(c) ==
  /\ pc[c] = "timedOut"
  /\ dead' = (Handler("reply", CurrentOffer(c)) \in handlers)
  /\ NextPeer(c)
  /\ UNCHANGED <<peerVars, dataVars, receiveChannels, audience, timedOut, handlers>>

(* The channel is deleted and closed.  An acceptance may have found it     *)
(* before: its goroutine is about to send on it, and panics.               *)
Abandon(c) ==
  /\ pc[c] = "timedOut"
  /\ receiveChannels' = receiveChannels \ {CurrentOffer(c)}
  /\ dead' = (Handler("reply", CurrentOffer(c)) \in handlers)
  /\ NextPeer(c)
  /\ UNCHANGED <<peerVars, dataVars, audience, timedOut, handlers>>

-----------------------------------------------------------------------------
(* The handlers, started by receiveNetwork.                                *)

Becomes(h, kind) == handlers' = (handlers \ {h}) \cup {[h EXCEPT !.kind = kind]}
Ends(h) == handlers' = handlers \ {h}

(* A peer that has not received the payload accepts, others keep silent.   *)
Confirm(h) ==
  LET m == h.offer[2]  c == h.offer[1]
  IN /\ h.kind = "confirmation"
     /\ c.by \in listening
     /\ IF c.data \notin receivedData[m] THEN Becomes(h, "accept") ELSE Ends(h)
     /\ UNCHANGED <<peerVars, dataVars, callVars>>

(* The sender looks for the channel the acceptance is for.                 *)
LookUp(h) ==
  /\ h.kind = "accept"
  /\ IF h.offer \in receiveChannels THEN Becomes(h, "reply") ELSE Ends(h)
  /\ UNCHANGED <<peerVars, dataVars, callVars>>

(* receiveSend.                                                            *)
ReceiveSend(h) ==
  LET m == h.offer[2]  data == h.offer[1].data
  IN /\ h.kind = "send"
     /\ receivedData' = [receivedData EXCEPT ![m] = @ \cup {data}]
     /\ holds' = [holds EXCEPT ![m] = @ \cup {data}]
     /\ Ends(h)
     /\ UNCHANGED <<peerVars, callVars>>

(* Variant: only what was received is served.                              *)
ServesReceived(m, data) == data \in receivedData[m]

Serves(m, data) == data \in holds[m]

(* receiveRequest: who holds the payload sends it to the requester.        *)
ReceiveRequest(h) ==
  LET m == h.offer[2]  request == h.offer[1]
      answer == Call("answer", m, request.data, request.by)
  IN /\ h.kind = "request"
     /\ IF Serves(m, request.data)
        THEN /\ pc' = [pc EXCEPT ![answer] = "next"]
             /\ rest' = [rest EXCEPT ![answer] = <<request.by>>]
        ELSE UNCHANGED <<pc, rest>>
     /\ Ends(h)
     /\ UNCHANGED <<peerVars, dataVars, receiveChannels, audience, timedOut>>

-----------------------------------------------------------------------------
Init ==
  /\ network = First /\ listening = ToSet(First) /\ waiting = {}
  /\ holds = [m \in Miners |-> {p \in Payloads : Maker[p] = m}]
  /\ receivedData = [m \in Miners |-> {}]
  /\ receiveChannels = {} /\ handlers = {} /\ dead = FALSE
  /\ pc = [c \in Calls |-> "idle"] /\ rest = [c \in Calls |-> <<>>]
  /\ prompt \in BOOLEAN
  /\ audience = [c \in Calls |-> {}] /\ timedOut = {}

Alive(A) == ~dead /\ A /\ UNCHANGED <<dead, prompt>>

CallStep(c) ==
  \/ Alive(Lock(c) \/ Skip(c) \/ Ask(c) \/ Offer(c) \/ Transmit(c) \/ Timeout(c))
  \/ ~dead /\ Abandon(c) /\ UNCHANGED prompt

HandlerStep(h) ==
  Alive(Confirm(h) \/ LookUp(h) \/ ReceiveSend(h) \/ ReceiveRequest(h))

JoinStep(m) == Alive(Subscribe(m) \/ Listen(m))

Next ==
  \/ \E m \in Miners : Alive(WantToSubscribe(m)) \/ JoinStep(m)
  \/ \E c \in Calls : Alive(Start(c)) \/ CallStep(c)
  \/ \E h \in handlers : HandlerStep(h)

(* Goroutines run, and timers go off; nobody has to join or to call.  (As  *)
(* calls are finite, fairness to some handler is fairness to all.)         *)
Fairness ==
  /\ \A m \in Miners : WF_vars(JoinStep(m))
  /\ \A c \in Calls : WF_vars(CallStep(c))
  /\ WF_vars(\E h \in handlers : HandlerStep(h))

Spec == Init /\ [][Next]_vars /\ Fairness

-----------------------------------------------------------------------------
(* The variables range over what the fields of the code can hold.          *)
TypeOK ==
  /\ network \in Seq(Miners) /\ listening \subseteq ToSet(network)
  /\ waiting \subseteq Miners \ ToSet(network)
  /\ holds \in [Miners -> SUBSET Payloads] /\ receivedData \in [Miners -> SUBSET Payloads]
  /\ receiveChannels \subseteq Offers /\ handlers \subseteq Handlers
  /\ pc \in [Calls -> {"idle", "lock", "next", "wait", "timedOut", "done"}]
  /\ rest \in [Calls -> Seq(Miners)]
  /\ dead \in BOOLEAN /\ prompt \in BOOLEAN
  /\ audience \in [Calls -> SUBSET Miners] /\ timedOut \subseteq Offers

OnItsWay(p, m) == \E h \in handlers : h.kind = "send" /\ h.offer[1].data = p /\ h.offer[2] = m

(* A broadcast that has ended has reached everyone who was subscribed when *)
(* it was made, whoever joined, asked or offered the same meanwhile; only  *)
(* an answer that came too late makes it miss somebody.                    *)
NobodySkipped ==
  \A c \in Broadcasts : pc[c] = "done" =>
    \A m \in audience[c] \ {c.by} :
      \/ c.data \in receivedData[m] \/ OnItsWay(c.data, m)
      \/ ~prompt /\ <<c, m>> \in timedOut

(* The response channels that are registered are those of the offers under *)
(* way: no call leaves one behind, whichever way it ends.                  *)
ChannelsForgotten ==
  \A offer \in receiveChannels :
    LET c == offer[1]
    IN pc[c] \in {"wait", "timedOut"} /\ offer = CurrentOffer(c)

(* A call of send or request returns.                                      *)
CallsEnd == \A c \in Calls : (pc[c] # "idle") ~> (pc[c] = "done" \/ dead)

(* A miner that joins gets in, whatever is being sent.                     *)
JoinersGetIn == \A m \in Miners : (m \in waiting) ~> (m \in listening \/ dead)

(* If answers come in time, who asks for what a subscriber holds gets it.  *)
RequestsServed ==
  \A c \in Requests :
    (prompt /\ pc[c] = "lock" /\ \E m \in listening : c.data \in holds[m])
      ~> (c.data \in holds[c.by])
=============================================================================
