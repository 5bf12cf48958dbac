-------------------------- MODULE Handshake_proofs --------------------------
(***************************************************************************)
(* What the handshake guarantees for any number of miners and payloads,    *)
(* whoever joins, asks or times out.                                       *)
(***************************************************************************)
EXTENDS Handshake, TLAPS

Ans(m, c) == Call("answer", m, c.data, c.by)
Distinct(s) == \A i, j \in 1..Len(s) : s[i] = s[j] => i = j

(* Only requests are asked, everything else is offered.                    *)
HandlersOk == \A h \in handlers : h.kind = "request" <=> h.offer[1] \in Requests

(* A call has a current peer while it is at work, and its channel is       *)
(* registered while an answer is awaited.                                  *)
RestOk ==
  \A c \in Calls :
    /\ pc[c] \in {"next", "wait", "timedOut"} => rest[c] # <<>>
    /\ pc[c] \in {"wait", "timedOut"} => c \notin Requests /\ CurrentOffer(c) \in receiveChannels
    /\ pc[c] = "done" => rest[c] = <<>>
    /\ pc[c] = "lock" => c \notin Answers

(* A request asks each peer once, so no answer is started twice.           *)
AskedOnce ==
  /\ Distinct(network)
  /\ \A c \in Requests :
       /\ Distinct(rest[c])
       /\ \A m \in Miners :
            /\ \/ pc[c] \in {"idle", "lock"}
               \/ m \in ToSet(rest[c])
               \/ Handler("request", <<c, m>>) \in handlers
               => pc[Ans(m, c)] = "idle"
            /\ Handler("request", <<c, m>>) \in handlers
               => pc[c] \notin {"idle", "lock"} /\ m \notin ToSet(rest[c])

(* An offer that is silent has found the payload already there.            *)
SilenceMeansReceived ==
  \A c \in Calls :
    /\ pc[c] = "wait" =>
         AnswerUnderWay(CurrentOffer(c)) \/ c.data \in receivedData[Head(rest[c])]
    /\ pc[c] = "timedOut" =>
         c.data \in receivedData[Head(rest[c])] \/ (~prompt /\ CurrentOffer(c) \in timedOut)

Covered(c, m) ==
  \/ c.data \in receivedData[m] \/ OnItsWay(c.data, m)
  \/ ~prompt /\ <<c, m>> \in timedOut

(* Everyone a broadcast is for is still to come or has been served.        *)
EveryoneCovered ==
  \A c \in Broadcasts :
    /\ pc[c] = "lock" => audience[c] \subseteq ToSet(network)
    /\ pc[c] \in {"next", "wait", "timedOut", "done"} =>
         \A m \in audience[c] \ {c.by} : m \in ToSet(rest[c]) \/ Covered(c, m)

IInv == /\ TypeOK /\ HandlersOk /\ RestOk /\ ChannelsForgotten /\ AskedOnce
        /\ SilenceMeansReceived /\ EveryoneCovered

-----------------------------------------------------------------------------
(* Sequences.                                                              *)

(* What is left of a sequence after its head.                              *)
LEMMA TailFacts ==
  ASSUME NEW S, NEW s \in Seq(S), s # <<>>
  PROVE  /\ Head(s) \in S /\ Tail(s) \in Seq(S) /\ Head(s) \in ToSet(s)
         /\ \A x \in ToSet(s) : x = Head(s) \/ x \in ToSet(Tail(s))
         /\ ToSet(Tail(s)) \subseteq ToSet(s)
<1>1. Len(s) \in Nat \ {0} /\ DOMAIN s = 1..Len(s)
  OBVIOUS
<1>2. Tail(s) \in Seq(S) /\ Len(Tail(s)) = Len(s) - 1
  BY <1>1
<1>3. \A i \in 1..(Len(s) - 1) : Tail(s)[i] = s[i + 1]
  BY <1>1
<1>4. ASSUME NEW x \in ToSet(s) PROVE x = Head(s) \/ x \in ToSet(Tail(s))
  <2>1. PICK i \in 1..Len(s) : x = s[i]
    BY <1>1, <1>4 DEF ToSet
  <2>2. CASE i = 1
    BY <2>1, <2>2
  <2>3. CASE i # 1
    <3>1. i - 1 \in 1..(Len(s) - 1) /\ Tail(s)[i - 1] = s[i]
      BY <1>1, <1>3, <2>3
    <3>2. i - 1 \in DOMAIN Tail(s) /\ x = Tail(s)[i - 1]
      BY <1>1, <1>2, <2>1, <3>1
    <3> QED
      BY <3>2, Zenon DEF ToSet
  <2> QED
    BY <2>2, <2>3
<1>5. Head(s) \in S /\ Head(s) \in ToSet(s)
  BY <1>1 DEF ToSet
<1>6. ASSUME NEW x \in ToSet(Tail(s)) PROVE x \in ToSet(s)
  <2>1. PICK i \in 1..(Len(s) - 1) : x = Tail(s)[i]
    BY <1>2, <1>6 DEF ToSet
  <2> QED
    BY <1>1, <1>3, <2>1 DEF ToSet
<1> QED
  BY <1>2, <1>4, <1>5, <1>6

(* The tail of a sequence without repetition, which the head is not in.    *)
LEMMA DistinctTail ==
  ASSUME NEW S, NEW s \in Seq(S), s # <<>>, Distinct(s)
  PROVE  Distinct(Tail(s)) /\ Head(s) \notin ToSet(Tail(s))
<1>1. Len(s) \in Nat \ {0} /\ Tail(s) \in Seq(S) /\ Len(Tail(s)) = Len(s) - 1
  OBVIOUS
<1>2. \A i \in 1..(Len(s) - 1) : Tail(s)[i] = s[i + 1] /\ i + 1 \in 1..Len(s)
  BY <1>1
<1>3. Distinct(Tail(s))
  BY <1>1, <1>2 DEF Distinct
<1>4. Head(s) = s[1] /\ 1 \in 1..Len(s)
  BY <1>1
<1>5. ASSUME Head(s) \in ToSet(Tail(s)) PROVE FALSE
  <2>1. PICK i \in 1..(Len(s) - 1) : Head(s) = Tail(s)[i]
    BY <1>1, <1>5 DEF ToSet
  <2>2. s[1] = s[i + 1] /\ i + 1 \in 1..Len(s)
    BY <1>2, <1>4, <2>1
  <2>3. 1 = i + 1
    BY <1>4, <2>2 DEF Distinct
  <2> QED
    BY <2>1, <2>3, <1>1
<1> QED
  BY <1>3, <1>5

(* One more element at the end.                                            *)
LEMMA AppendFacts ==
  ASSUME NEW S, NEW s \in Seq(S), NEW x \in S
  PROVE  /\ Append(s, x) \in Seq(S)
         /\ ToSet(Append(s, x)) = ToSet(s) \cup {x}
         /\ Distinct(s) /\ x \notin ToSet(s) => Distinct(Append(s, x))
<1>1. /\ Append(s, x) \in Seq(S) /\ Len(Append(s, x)) = Len(s) + 1 /\ Len(s) \in Nat
      /\ DOMAIN s = 1..Len(s) /\ DOMAIN Append(s, x) = 1..(Len(s) + 1)
  OBVIOUS
<1>2. /\ \A i \in 1..Len(s) : Append(s, x)[i] = s[i] /\ i \in 1..(Len(s) + 1)
      /\ Append(s, x)[Len(s) + 1] = x
  BY <1>1
<1>3. \A i \in 1..(Len(s) + 1) : i \in 1..Len(s) \/ i = Len(s) + 1
  BY <1>1
<1>4. ToSet(Append(s, x)) \subseteq ToSet(s) \cup {x}
  BY <1>1, <1>2, <1>3 DEF ToSet
<1>5. ToSet(s) \subseteq ToSet(Append(s, x))
  BY <1>1, <1>2 DEF ToSet
<1>6. Len(s) + 1 \in 1..(Len(s) + 1)
  BY <1>1
<1>7. x \in ToSet(Append(s, x))
  BY <1>1, <1>2, <1>6 DEF ToSet
<1>8. ASSUME Distinct(s), x \notin ToSet(s) PROVE Distinct(Append(s, x))
  <2>1. \A i \in 1..Len(s) : s[i] # x
    BY <1>1, <1>8 DEF ToSet
  <2>2. \A i, j \in 1..(Len(s) + 1) : Append(s, x)[i] = Append(s, x)[j] => i = j
    BY <1>2, <1>3, <1>8, <2>1 DEF Distinct
  <2> QED
    BY <1>1, <2>2 DEF Distinct
<1> QED
  BY <1>1, <1>4, <1>5, <1>7, <1>8

(* The three kinds of calls are different, and an answer tells which       *)
(* request it is for.                                                      *)
LEMMA Kinds ==
  /\ Broadcasts \cap Requests = {} /\ Broadcasts \cap Answers = {} /\ Requests \cap Answers = {}
  /\ \A c \in Calls : c.by \in Miners /\ c.data \in Payloads
  /\ \A c \in Requests, m \in Miners : Ans(m, c) \in Answers
  /\ \A c, d \in Requests, m, n \in Miners : Ans(m, c) = Ans(n, d) => m = n /\ c = d
<1> USE HandshakeAssumption DEF Broadcasts, Requests, Answers, Call, Calls, Ans
<1>1. \A c \in Broadcasts : c.kind = "broadcast" /\ c.by \in Miners /\ c.data \in Payloads
  OBVIOUS
<1>2. \A c \in Requests : /\ c.kind = "request" /\ c.by \in Miners /\ c.data \in Payloads
                          /\ <<c.by, c.data>> \in Wanted /\ c = Call("request", c.by, c.data, c.by)
  OBVIOUS
<1>3. \A c \in Answers : c.kind = "answer" /\ c.by \in Miners /\ c.data \in Payloads
  OBVIOUS
<1>4. ASSUME NEW c \in Requests, NEW m \in Miners PROVE Ans(m, c) \in Answers
  <2>1. PICK w \in Wanted : c = Call("request", w[1], w[2], w[1])
    OBVIOUS
  <2>2. Ans(m, c) = Call("answer", m, w[2], w[1])
    BY <2>1
  <2> QED
    BY <2>2
<1>5. ASSUME NEW c \in Requests, NEW d \in Requests, NEW m \in Miners, NEW n \in Miners,
             Ans(m, c) = Ans(n, d)
      PROVE  m = n /\ c = d
  <2>1. m = n /\ c.data = d.data /\ c.by = d.by
    BY <1>5
  <2> QED
    BY <1>2, <2>1
<1> QED
  BY <1>1, <1>2, <1>3, <1>4, <1>5

-----------------------------------------------------------------------------
(* The invariant holds at first.                                           *)
LEMMA InitIInv == Init => IInv
<1> SUFFICES ASSUME Init PROVE IInv
  OBVIOUS
<1> USE DEF Init
<1>1. ToSet(First) \subseteq Miners
  BY HandshakeAssumption DEF ToSet
<1>2. TypeOK
  <2>1. \A c \in Calls : <<>> \in Seq(Miners)
    OBVIOUS
  <2>2. rest \in [Calls -> Seq(Miners)]
    BY <2>1
  <2>3. holds \in [Miners -> SUBSET Payloads] /\ receivedData \in [Miners -> SUBSET Payloads]
    OBVIOUS
  <2> QED
    BY <1>1, <2>2, <2>3, HandshakeAssumption DEF TypeOK
<1>3. HandlersOk /\ RestOk /\ ChannelsForgotten /\ SilenceMeansReceived
  BY DEF HandlersOk, RestOk, ChannelsForgotten, SilenceMeansReceived
<1>4. AskedOnce
  <2>1. Distinct(network)
    BY HandshakeAssumption DEF Distinct, IsInjective
  <2>2. \A c \in Requests : c \in Calls /\ Distinct(rest[c]) /\ \A m \in Miners : Ans(m, c) \in Calls
    BY Kinds DEF Calls, Distinct
  <2> QED
    BY <2>1, <2>2 DEF AskedOnce
<1>5. EveryoneCovered
  BY DEF EveryoneCovered, Calls
<1> QED
  BY <1>2, <1>3, <1>4, <1>5 DEF IInv

(* A call that goes on to its next peer.                                   *)
LEMMA NextPeerFacts ==
  ASSUME TypeOK, NEW c \in Calls, rest[c] # <<>>, NextPeer(c)
  PROVE  /\ rest' \in [Calls -> Seq(Miners)]
         /\ pc' \in [Calls -> {"idle", "lock", "next", "wait", "timedOut", "done"}]
         /\ rest'[c] = Tail(rest[c]) /\ pc'[c] \in {"next", "done"}
         /\ pc'[c] = "next" <=> rest'[c] # <<>>
         /\ \A d \in Calls \ {c} : pc'[d] = pc[d] /\ rest'[d] = rest[d]
<1>1. rest[c] \in Seq(Miners)
  BY DEF TypeOK
<1>2. Tail(rest[c]) \in Seq(Miners)
  BY <1>1, TailFacts
<1>3. GoOn(Tail(rest[c])) \in {"next", "done"}
  BY DEF GoOn
<1>4. GoOn(Tail(rest[c])) = "next" <=> Tail(rest[c]) # <<>>
  BY DEF GoOn
<1> QED
  BY <1>2, <1>3, <1>4 DEF NextPeer, TypeOK

(* The current peer of a call is a miner, and its offer is one of Offers.  *)
LEMMA CurrentFacts ==
  ASSUME TypeOK, NEW c \in Calls, rest[c] # <<>>
  PROVE  /\ Head(rest[c]) \in Miners /\ CurrentOffer(c) \in Offers
         /\ CurrentOffer(c)[1] = c /\ CurrentOffer(c)[2] = Head(rest[c])
<1>1. rest[c] \in Seq(Miners)
  BY DEF TypeOK
<1>2. Head(rest[c]) \in Miners
  BY <1>1, TailFacts
<1> QED
  BY <1>2 DEF CurrentOffer, Offers

(* A miner that waits for the lock, gets it, or begins to listen.          *)
LEMMA JoinKeepsIInv ==
  ASSUME IInv, NEW m \in Miners, WantToSubscribe(m) \/ Subscribe(m) \/ Listen(m),
         UNCHANGED <<dead, prompt>>
  PROVE  IInv'
<1> USE DEF peerVars, dataVars, callVars
<1>1. /\ UNCHANGED <<dataVars, callVars, handlers, dead, prompt>>
      /\ network \in Seq(Miners) /\ network' \in Seq(Miners)
      /\ Distinct(network') /\ ToSet(network) \subseteq ToSet(network')
      /\ listening' \subseteq ToSet(network') /\ waiting' \subseteq Miners \ ToSet(network')
  <2>1. CASE WantToSubscribe(m)
    BY <2>1 DEF WantToSubscribe, IInv, TypeOK, AskedOnce
  <2>2. CASE Listen(m)
    BY <2>2 DEF Listen, IInv, TypeOK, AskedOnce
  <2>3. CASE Subscribe(m)
    <3>1. network \in Seq(Miners) /\ m \notin ToSet(network) /\ Distinct(network)
      BY <2>3 DEF Subscribe, IInv, TypeOK, AskedOnce
    <3>2. /\ Append(network, m) \in Seq(Miners) /\ Distinct(Append(network, m))
          /\ ToSet(Append(network, m)) = ToSet(network) \cup {m}
      BY <3>1, AppendFacts
    <3> QED
      BY <2>3, <3>1, <3>2 DEF Subscribe, IInv, TypeOK
  <2> QED
    BY <2>1, <2>2, <2>3
<1>2. TypeOK'
  BY <1>1 DEF IInv, TypeOK
<1>3. HandlersOk' /\ RestOk' /\ ChannelsForgotten' /\ SilenceMeansReceived'
  <2>1. HandlersOk'
    BY <1>1 DEF IInv, HandlersOk
  <2>2. RestOk'
    BY <1>1 DEF IInv, RestOk, CurrentOffer
  <2>3. ChannelsForgotten'
    BY <1>1 DEF IInv, ChannelsForgotten, CurrentOffer
  <2>4. UNCHANGED <<pc, rest, handlers, receivedData, timedOut, prompt>>
    BY <1>1
  <2>5. SilenceMeansReceived'
    BY <2>4 DEF IInv, SilenceMeansReceived, CurrentOffer, AnswerUnderWay
  <2> QED
    BY <2>1, <2>2, <2>3, <2>5
<1>4. AskedOnce'
  BY <1>1 DEF IInv, AskedOnce
<1>5. EveryoneCovered'
  BY <1>1 DEF IInv, EveryoneCovered, Covered, OnItsWay
<1> QED
  BY <1>2, <1>3, <1>4, <1>5 DEF IInv

(* A call is made.                                                         *)
LEMMA StartKeepsIInv ==
  ASSUME IInv, NEW c \in Calls, Start(c), UNCHANGED <<dead, prompt>>
  PROVE  IInv'
<1> USE DEF peerVars, dataVars
<1>1. /\ pc[c] = "idle" /\ pc' = [pc EXCEPT ![c] = "lock"] /\ c \in Broadcasts \cup Requests
      /\ audience' = [audience EXCEPT ![c] = ToSet(network)]
      /\ UNCHANGED <<network, listening, waiting, holds, receivedData, receiveChannels,
                     rest, timedOut, handlers, dead, prompt>>
  BY DEF Start
<1>2. ToSet(network) \subseteq Miners
  BY DEF IInv, TypeOK, ToSet
<1>3. pc' \in [Calls -> {"idle", "lock", "next", "wait", "timedOut", "done"}]
  BY <1>1 DEF IInv, TypeOK
<1>4. TypeOK'
  BY <1>1, <1>2, <1>3 DEF IInv, TypeOK
<1>5. HandlersOk'
  BY <1>1 DEF IInv, HandlersOk
<1>6. pc'[c] = "lock" /\ \A d \in Calls \ {c} : pc'[d] = pc[d]
  BY <1>1 DEF IInv, TypeOK
<1>7. c \notin Answers
  BY <1>1, Kinds
<1>8. RestOk' /\ ChannelsForgotten'
  <2>1. RestOk'
    BY <1>1, <1>6, <1>7 DEF IInv, RestOk, CurrentOffer
  <2>2. \A offer \in receiveChannels : offer[1] \in Calls
    BY DEF IInv, TypeOK, Offers
  <2>3. ChannelsForgotten'
    BY <1>1, <1>6, <2>2 DEF IInv, ChannelsForgotten, CurrentOffer
  <2> QED
    BY <2>1, <2>3
<1>9. AskedOnce'
  <2>1. \A d \in Requests : d \in Calls /\ \A m \in Miners : Ans(m, d) \in Calls \ {c}
    BY <1>7, Kinds DEF Calls
  <2>2. \A d \in Requests : pc[d] \in {"idle", "lock"} <=> pc'[d] \in {"idle", "lock"}
    BY <1>1, <1>6, <2>1
  <2> QED
    BY <1>1, <1>6, <2>1, <2>2 DEF IInv, AskedOnce
<1>10. SilenceMeansReceived'
  BY <1>1, <1>6 DEF IInv, SilenceMeansReceived, CurrentOffer, AnswerUnderWay
<1>11. EveryoneCovered'
  <2>1. audience'[c] = ToSet(network) /\ \A d \in Calls \ {c} : audience'[d] = audience[d]
    BY <1>1 DEF IInv, TypeOK
  <2>2. \A d \in Broadcasts : d \in Calls
    BY DEF Calls
  <2> QED
    BY <1>1, <1>6, <2>1, <2>2 DEF IInv, EveryoneCovered, Covered, OnItsWay
<1> QED
  BY <1>4, <1>5, <1>8, <1>9, <1>10, <1>11 DEF IInv

-----------------------------------------------------------------------------
(* What the steps of sends and of handlers have in common.                 *)

(* Steps that neither ask nor start an answer.                             *)
LEMMA AskedOnceStays ==
  ASSUME IInv, network' = network,
         \A d \in Calls : \/ pc'[d] = pc[d] /\ rest'[d] = rest[d]
                          \/ d \notin Requests /\ pc[d] # "idle",
         \A d \in Requests, m \in Miners :
           Handler("request", <<d, m>>) \in handlers' => Handler("request", <<d, m>>) \in handlers
  PROVE  AskedOnce'
<1>1. Distinct(network')
  BY DEF IInv, AskedOnce
<1>2. ASSUME NEW d \in Requests
      PROVE  pc'[d] = pc[d] /\ rest'[d] = rest[d] /\ \A m \in Miners : Ans(m, d) \in Calls
  BY Kinds DEF Calls
<1>3. ASSUME NEW d \in Requests, NEW m \in Miners, pc[Ans(m, d)] = "idle"
      PROVE  pc'[Ans(m, d)] = "idle"
  BY <1>2, <1>3
<1> QED
  BY <1>1, <1>2, <1>3 DEF IInv, AskedOnce

(* Nobody who was served, or is about to be, is lost again.                *)
LEMMA CoveredStays ==
  ASSUME NEW c, NEW m, Covered(c, m),
         receivedData[m] \subseteq receivedData'[m],
         \A h \in handlers : h.kind = "send" => h \in handlers'
                                 \/ h.offer[1].data \in receivedData'[h.offer[2]],
         timedOut \subseteq timedOut', prompt' = prompt
  PROVE  Covered(c, m)'
<1>1. CASE OnItsWay(c.data, m)
  BY <1>1 DEF Covered, OnItsWay
<1> QED
  BY <1>1 DEF Covered

(* The invariant as it concerns everybody but the call that steps.         *)
Elsewhere(c) ==
  /\ UNCHANGED <<network, listening, waiting, holds, receivedData, audience, prompt>>
  /\ \A d \in Calls \ {c} : pc'[d] = pc[d] /\ rest'[d] = rest[d]

(* A call that goes on after an offer, or without making one.              *)
LEMMA GoingOnKeepsIInv ==
  ASSUME IInv, NEW c \in Calls, c \notin Requests, pc[c] \in {"next", "wait", "timedOut"},
         NEW peer, peer = Head(rest[c]), NextPeer(c), Elsewhere(c),
         receiveChannels' = receiveChannels \ {CurrentOffer(c)},
         timedOut' = timedOut, dead' \in BOOLEAN,
         handlers' \subseteq handlers \cup {Handler("send", CurrentOffer(c))},
         \A h \in handlers : h.kind = "send" \/ h.offer # CurrentOffer(c) => h \in handlers',
         c \in Broadcasts => peer = c.by \/ Covered(c, peer)'
  PROVE  IInv'
<1>1. rest[c] # <<>>
  BY DEF IInv, RestOk
<1>2. /\ rest' \in [Calls -> Seq(Miners)]
      /\ pc' \in [Calls -> {"idle", "lock", "next", "wait", "timedOut", "done"}]
      /\ rest'[c] = Tail(rest[c]) /\ pc'[c] \in {"next", "done"}
      /\ pc'[c] = "next" <=> rest'[c] # <<>>
  BY <1>1, NextPeerFacts DEF IInv
<1>3. /\ Head(rest[c]) \in Miners /\ CurrentOffer(c) \in Offers
      /\ CurrentOffer(c)[1] = c /\ CurrentOffer(c)[2] = Head(rest[c])
  BY <1>1, CurrentFacts DEF IInv
<1>4. Handler("send", CurrentOffer(c)) \in Handlers
  BY <1>3 DEF Handler, Handlers
<1>5. TypeOK'
  BY <1>2, <1>4 DEF IInv, TypeOK, Elsewhere
<1>6. HandlersOk'
  <2>1. ASSUME NEW h \in handlers', h \notin handlers
        PROVE  h.kind = "send" /\ h.offer[1] = c
    BY <1>3, <2>1 DEF Handler
  <2> QED
    BY <2>1 DEF IInv, HandlersOk
<1>7. \A d \in Calls \ {c} : CurrentOffer(d)' = CurrentOffer(d) /\ CurrentOffer(d) # CurrentOffer(c)
  BY <1>3 DEF Elsewhere, CurrentOffer
<1>8. RestOk'
  <2>1. ASSUME NEW d \in Calls \ {c}, pc'[d] \in {"wait", "timedOut"}
        PROVE  d \notin Requests /\ CurrentOffer(d)' \in receiveChannels'
    BY <1>7, <2>1 DEF IInv, RestOk, Elsewhere
  <2> QED
    BY <1>2, <2>1 DEF IInv, RestOk, Elsewhere
<1>9. ChannelsForgotten'
  <2> SUFFICES ASSUME NEW offer \in receiveChannels'
               PROVE  pc'[offer[1]] \in {"wait", "timedOut"} /\ offer = CurrentOffer(offer[1])'
    BY DEF ChannelsForgotten
  <2>1. pc[offer[1]] \in {"wait", "timedOut"} /\ offer = CurrentOffer(offer[1])
    BY DEF IInv, ChannelsForgotten
  <2>2. offer[1] \in Calls \ {c}
    BY <2>1 DEF IInv, TypeOK, Offers
  <2> QED
    BY <1>7, <2>1, <2>2 DEF Elsewhere
<1>10. AskedOnce'
  <2>1. \A d \in Requests, m \in Miners :
           Handler("request", <<d, m>>) \in handlers' => Handler("request", <<d, m>>) \in handlers
    BY DEF Handler
  <2> QED
    BY <2>1, AskedOnceStays DEF Elsewhere
<1>11. SilenceMeansReceived'
  <2>1. ASSUME NEW d \in Calls \ {c}, AnswerUnderWay(CurrentOffer(d))
        PROVE  AnswerUnderWay(CurrentOffer(d))'
    <3>1. PICK h \in handlers : h.offer = CurrentOffer(d)
      BY <2>1 DEF AnswerUnderWay
    <3>2. h \in handlers'
      BY <1>7, <3>1
    <3> QED
      BY <1>7, <3>1, <3>2 DEF AnswerUnderWay
  <2>2. ASSUME NEW d \in Calls \ {c}
        PROVE  pc'[d] = pc[d] /\ rest'[d] = rest[d] /\ CurrentOffer(d)' = CurrentOffer(d)
    BY <1>7 DEF Elsewhere
  <2>3. receivedData' = receivedData /\ prompt' = prompt
    BY DEF Elsewhere
  <2> QED
    BY <1>2, <2>1, <2>2, <2>3 DEF IInv, SilenceMeansReceived
<1>12. EveryoneCovered'
  <2>1. \A d \in Broadcasts : \A m : Covered(d, m) => Covered(d, m)'
    BY CoveredStays DEF Elsewhere
  <2>2. \A d \in Broadcasts \ {c} : d \in Calls \ {c} /\ pc'[d] = pc[d] /\ rest'[d] = rest[d]
    BY DEF Calls, Elsewhere
  <2>3. ASSUME c \in Broadcasts, NEW m \in audience[c] \ {c.by}
        PROVE  m \in ToSet(rest'[c]) \/ Covered(c, m)'
    <3>1. m \in ToSet(rest[c]) \/ Covered(c, m)
      BY <2>3 DEF IInv, EveryoneCovered
    <3>2. m \in ToSet(rest[c]) => m = Head(rest[c]) \/ m \in ToSet(Tail(rest[c]))
      BY <1>1, TailFacts DEF IInv, TypeOK
    <3>3. CASE m = peer
      BY <2>3, <3>3
    <3>4. CASE m # peer
      BY <1>2, <2>1, <2>3, <3>1, <3>2, <3>4
    <3> QED
      BY <3>3, <3>4
  <2> QED
    BY <1>2, <2>1, <2>2, <2>3 DEF IInv, EveryoneCovered, Elsewhere
<1> QED
  BY <1>5, <1>6, <1>8, <1>9, <1>10, <1>11, <1>12 DEF IInv

(* The own channel is skipped.                                             *)
LEMMA SkipKeepsIInv ==
  ASSUME IInv, NEW c \in Calls, Skip(c), UNCHANGED <<dead, prompt>>
  PROVE  IInv'
<1> USE DEF peerVars, dataVars
<1>1. c \in Broadcasts /\ c \notin Requests /\ pc[c] = "next" /\ Head(rest[c]) = c.by
  BY Kinds DEF Skip, OwnChannel
<1>2. rest[c] # <<>>
  BY <1>1 DEF IInv, RestOk
<1>3. CurrentOffer(c)[1] = c
  BY <1>2, CurrentFacts DEF IInv
<1>4. CurrentOffer(c) \notin receiveChannels
  BY <1>1, <1>3 DEF IInv, ChannelsForgotten
<1>5. Elsewhere(c)
  BY <1>2, NextPeerFacts DEF Skip, Elsewhere, IInv
<1>6. dead' \in BOOLEAN
  BY DEF IInv, TypeOK
<1> QED
  BY <1>1, <1>4, <1>5, <1>6, GoingOnKeepsIInv DEF Skip

(* An accepted offer is honoured.                                          *)
LEMMA TransmitKeepsIInv ==
  ASSUME IInv, NEW c \in Calls, Transmit(c), UNCHANGED <<dead, prompt>>
  PROVE  IInv'
<1> USE DEF peerVars, dataVars
<1>1. c \notin Requests /\ pc[c] = "wait" /\ rest[c] # <<>>
  BY DEF Transmit, IInv, RestOk
<1>2. PICK peer : peer = Head(rest[c])
  OBVIOUS
<1>3. CurrentOffer(c)[1] = c /\ CurrentOffer(c)[2] = peer
  BY <1>1, <1>2, CurrentFacts DEF IInv
<1>4. Elsewhere(c)
  BY <1>1, NextPeerFacts DEF Transmit, Elsewhere, IInv
<1>5. PICK h : h = Handler("send", CurrentOffer(c))
  OBVIOUS
<1>6. h \in handlers' /\ h.kind = "send" /\ h.offer[1] = c /\ h.offer[2] = peer
  BY <1>3, <1>5 DEF Transmit, Handler
<1>7. Covered(c, peer)'
  BY <1>6 DEF Covered, OnItsWay
<1>8. \A g \in handlers : g.kind = "send" \/ g.offer # CurrentOffer(c) => g \in handlers'
  BY DEF Transmit, Handler
<1>9. dead' \in BOOLEAN
  BY DEF IInv, TypeOK
<1>10. /\ handlers' \subseteq handlers \cup {Handler("send", CurrentOffer(c))}
       /\ receiveChannels' = receiveChannels \ {CurrentOffer(c)}
       /\ timedOut' = timedOut /\ NextPeer(c)
  BY DEF Transmit
<1> QED
  BY <1>1, <1>2, <1>4, <1>7, <1>8, <1>9, <1>10, GoingOnKeepsIInv

(* An offer is given up.                                                   *)
LEMMA AbandonKeepsIInv ==
  ASSUME IInv, NEW c \in Calls, Abandon(c), prompt' = prompt
  PROVE  IInv'
<1> USE DEF peerVars, dataVars
<1>1. c \notin Requests /\ pc[c] = "timedOut" /\ rest[c] # <<>>
  BY DEF Abandon, IInv, RestOk
<1>2. PICK peer : peer = Head(rest[c])
  OBVIOUS
<1>3. Elsewhere(c)
  BY <1>1, NextPeerFacts DEF Abandon, Elsewhere, IInv
<1>4. c.data \in receivedData[peer] \/ (~prompt /\ <<c, peer>> \in timedOut)
  BY <1>1, <1>2 DEF IInv, SilenceMeansReceived, CurrentOffer
<1>5. Covered(c, peer)'
  BY <1>4 DEF Covered, Abandon
<1>6. /\ handlers' = handlers /\ receiveChannels' = receiveChannels \ {CurrentOffer(c)}
      /\ timedOut' = timedOut /\ NextPeer(c) /\ dead' \in BOOLEAN
  BY DEF Abandon
<1> QED
  BY <1>1, <1>2, <1>3, <1>5, <1>6, GoingOnKeepsIInv

(* The channels are taken down under the lock.                             *)
LEMMA LockKeepsIInv ==
  ASSUME IInv, NEW c \in Calls, Lock(c), UNCHANGED <<dead, prompt>>
  PROVE  IInv'
<1> USE DEF peerVars, dataVars
<1>1. /\ pc[c] = "lock" /\ c \notin Answers
      /\ UNCHANGED <<network, listening, waiting, holds, receivedData, receiveChannels,
                     audience, timedOut, handlers, dead, prompt>>
  BY DEF Lock, IInv, RestOk
<1>2. GoOn(network) \in {"next", "done"} /\ (GoOn(network) = "next" <=> network # <<>>)
  BY DEF GoOn
<1>3. /\ pc'[c] \in {"next", "done"} /\ rest'[c] = network
      /\ pc'[c] = "next" <=> rest'[c] # <<>>
      /\ \A d \in Calls \ {c} : pc'[d] = pc[d] /\ rest'[d] = rest[d]
  BY <1>2 DEF Lock, IInv, TypeOK
<1>4. TypeOK'
  <2>1. rest' \in [Calls -> Seq(Miners)]
    BY DEF Lock, IInv, TypeOK
  <2>2. pc' \in [Calls -> {"idle", "lock", "next", "wait", "timedOut", "done"}]
    BY <1>2 DEF Lock, IInv, TypeOK
  <2> QED
    BY <1>1, <2>1, <2>2 DEF IInv, TypeOK
<1>5. HandlersOk'
  BY <1>1 DEF IInv, HandlersOk
<1>6. RestOk'
  BY <1>1, <1>3 DEF IInv, RestOk, CurrentOffer
<1>7. ChannelsForgotten'
  <2>1. \A offer \in receiveChannels : offer[1] \in Calls \ {c}
    BY <1>1 DEF IInv, TypeOK, Offers, ChannelsForgotten
  <2> QED
    BY <1>1, <1>3, <2>1 DEF IInv, ChannelsForgotten, CurrentOffer
<1>8. AskedOnce'
  <2>1. \A d \in Requests : d \in Calls /\ \A m \in Miners : Ans(m, d) \in Calls \ {c}
    BY <1>1, Kinds DEF Calls
  <2>2. Distinct(network')
    BY <1>1 DEF IInv, AskedOnce
  <2>3. ASSUME NEW d \in Requests \ {c}
        PROVE  /\ Distinct(rest'[d])
               /\ \A m \in Miners :
                    /\ \/ pc'[d] \in {"idle", "lock"} \/ m \in ToSet(rest'[d])
                       \/ Handler("request", <<d, m>>) \in handlers'
                       => pc'[Ans(m, d)] = "idle"
                    /\ Handler("request", <<d, m>>) \in handlers'
                       => pc'[d] \notin {"idle", "lock"} /\ m \notin ToSet(rest'[d])
    BY <1>1, <1>3, <2>1 DEF IInv, AskedOnce
  <2>4. ASSUME c \in Requests
        PROVE  /\ Distinct(rest'[c])
               /\ \A m \in Miners : /\ pc'[Ans(m, c)] = "idle"
                                    /\ Handler("request", <<c, m>>) \notin handlers'
    BY <1>1, <1>3, <2>1, <2>4 DEF IInv, AskedOnce
  <2> QED
    BY <2>2, <2>3, <2>4 DEF AskedOnce
<1>9. SilenceMeansReceived'
  <2>1. \A d \in Calls \ {c} : CurrentOffer(d)' = CurrentOffer(d)
    BY <1>3 DEF CurrentOffer
  <2>2. UNCHANGED <<handlers, receivedData, timedOut, prompt>>
    BY <1>1
  <2> QED
    BY <1>3, <2>1, <2>2 DEF IInv, SilenceMeansReceived, AnswerUnderWay
<1>10. EveryoneCovered'
  <2>1. \A d \in Broadcasts : d \in Calls
    BY DEF Calls
  <2> QED
    BY <1>1, <1>3, <2>1 DEF IInv, EveryoneCovered, Covered, OnItsWay
<1> QED
  BY <1>4, <1>5, <1>6, <1>7, <1>8, <1>9, <1>10 DEF IInv

(* A request is handed to its next peer.                                   *)
LEMMA AskKeepsIInv ==
  ASSUME IInv, NEW c \in Calls, Ask(c), UNCHANGED <<dead, prompt>>
  PROVE  IInv'
<1> USE DEF peerVars, dataVars
<1>1. c \in Requests /\ pc[c] = "next" /\ rest[c] # <<>>
  BY DEF Ask, IInv, RestOk
<1>2. PICK peer : peer = Head(rest[c])
  OBVIOUS
<1>3. peer \in Miners /\ CurrentOffer(c) = <<c, peer>> /\ <<c, peer>> \in Offers
  BY <1>1, <1>2, CurrentFacts DEF IInv, CurrentOffer
<1>4. /\ rest' \in [Calls -> Seq(Miners)]
      /\ pc' \in [Calls -> {"idle", "lock", "next", "wait", "timedOut", "done"}]
      /\ rest'[c] = Tail(rest[c]) /\ pc'[c] \in {"next", "done"}
      /\ pc'[c] = "next" <=> rest'[c] # <<>>
      /\ \A d \in Calls \ {c} : pc'[d] = pc[d] /\ rest'[d] = rest[d]
  BY <1>1, NextPeerFacts DEF Ask, IInv
<1>5. /\ handlers' = handlers \cup {Handler("request", <<c, peer>>)}
      /\ UNCHANGED <<network, listening, waiting, holds, receivedData, receiveChannels,
                     audience, timedOut, dead, prompt>>
  BY <1>3 DEF Ask
<1>6. \A d \in Calls \ {c} : CurrentOffer(d)' = CurrentOffer(d)
  BY <1>4 DEF CurrentOffer
<1>7. TypeOK'
  <2>1. Handler("request", <<c, peer>>) \in Handlers
    BY <1>3 DEF Handler, Handlers
  <2> QED
    BY <1>4, <1>5, <2>1 DEF IInv, TypeOK
<1>8. HandlersOk'
  BY <1>1, <1>5 DEF IInv, HandlersOk, Handler
<1>9. RestOk'
  BY <1>1, <1>4, <1>5, <1>6 DEF IInv, RestOk
<1>10. ChannelsForgotten'
  <2>1. \A offer \in receiveChannels : offer[1] \in Calls \ {c}
    BY <1>1 DEF IInv, TypeOK, Offers, ChannelsForgotten
  <2> QED
    BY <1>4, <1>5, <1>6, <2>1 DEF IInv, ChannelsForgotten
<1>11. AskedOnce'
  <2>1. \A d \in Requests : d \in Calls /\ \A m \in Miners : Ans(m, d) \in Calls \ {c}
    BY <1>1, Kinds DEF Calls
  <2>2. Distinct(rest[c]) /\ rest[c] \in Seq(Miners)
    BY <1>1 DEF IInv, AskedOnce, TypeOK
  <2>3. /\ Distinct(rest'[c]) /\ peer \notin ToSet(rest'[c]) /\ peer \in ToSet(rest[c])
        /\ ToSet(rest'[c]) \subseteq ToSet(rest[c])
    BY <1>1, <1>2, <1>4, <2>2, DistinctTail, TailFacts
  <2>4. ASSUME NEW d \in Requests, NEW m \in Miners,
               Handler("request", <<d, m>>) \in handlers'
        PROVE  Handler("request", <<d, m>>) \in handlers \/ (d = c /\ m = peer)
    BY <1>5, <2>4 DEF Handler
  <2>5. \A d \in Requests \ {c} : pc'[d] = pc[d] /\ rest'[d] = rest[d]
    BY <1>4, <2>1
  <2>6. \A d \in Requests, m \in Miners : pc'[Ans(m, d)] = pc[Ans(m, d)]
    BY <1>4, <2>1
  <2>7. Distinct(network')
    BY <1>5 DEF IInv, AskedOnce
  <2>8. ASSUME NEW d \in Requests \ {c}
        PROVE  /\ Distinct(rest'[d])
               /\ \A m \in Miners :
                    /\ \/ pc'[d] \in {"idle", "lock"} \/ m \in ToSet(rest'[d])
                       \/ Handler("request", <<d, m>>) \in handlers'
                       => pc'[Ans(m, d)] = "idle"
                    /\ Handler("request", <<d, m>>) \in handlers'
                       => pc'[d] \notin {"idle", "lock"} /\ m \notin ToSet(rest'[d])
    BY <2>4, <2>5, <2>6 DEF IInv, AskedOnce
  <2>9. ASSUME NEW m \in Miners
        PROVE  /\ m \in ToSet(rest'[c]) \/ Handler("request", <<c, m>>) \in handlers'
                  => pc'[Ans(m, c)] = "idle"
               /\ Handler("request", <<c, m>>) \in handlers' => m \notin ToSet(rest'[c])
    BY <1>1, <2>3, <2>4, <2>6 DEF IInv, AskedOnce
  <2> QED
    BY <1>4, <2>3, <2>7, <2>8, <2>9 DEF AskedOnce
<1>12. SilenceMeansReceived'
  <2>1. \A d \in Calls : AnswerUnderWay(CurrentOffer(d)) /\ d # c => AnswerUnderWay(CurrentOffer(d))'
    BY <1>5, <1>6 DEF AnswerUnderWay
  <2> QED
    BY <1>4, <1>5, <1>6, <2>1 DEF IInv, SilenceMeansReceived
<1>13. EveryoneCovered'
  <2>1. \A d \in Broadcasts : d \in Calls \ {c} /\ \A m : Covered(d, m) => Covered(d, m)'
    BY <1>1, <1>5, Kinds, CoveredStays DEF Calls
  <2> QED
    BY <1>4, <1>5, <2>1 DEF IInv, EveryoneCovered
<1> QED
  BY <1>7, <1>8, <1>9, <1>10, <1>11, <1>12, <1>13 DEF IInv

(* A peer is offered the payload.                                          *)
LEMMA OfferKeepsIInv ==
  ASSUME IInv, NEW c \in Calls, Offer(c), UNCHANGED <<dead, prompt>>
  PROVE  IInv'
<1> USE DEF peerVars, dataVars
<1>1. c \notin Requests /\ pc[c] = "next" /\ rest[c] # <<>>
  BY DEF Offer, IInv, RestOk
<1>2. PICK offer : offer = CurrentOffer(c)
  OBVIOUS
<1>3. offer \in Offers /\ offer[1] = c /\ offer[2] = Head(rest[c])
  BY <1>1, <1>2, CurrentFacts DEF IInv
<1>4. /\ receiveChannels' = receiveChannels \cup {offer}
      /\ handlers' = handlers \cup {Handler("confirmation", offer)}
      /\ pc' = [pc EXCEPT ![c] = "wait"]
      /\ UNCHANGED <<network, listening, waiting, holds, receivedData, rest,
                     audience, timedOut, dead, prompt>>
  BY <1>2 DEF Offer
<1>5. pc'[c] = "wait" /\ \A d \in Calls \ {c} : pc'[d] = pc[d]
  BY <1>4 DEF IInv, TypeOK
<1>6. \A d : CurrentOffer(d)' = CurrentOffer(d)
  BY <1>4 DEF CurrentOffer
<1>7. TypeOK'
  <2>1. Handler("confirmation", offer) \in Handlers
    BY <1>3 DEF Handler, Handlers
  <2>2. pc' \in [Calls -> {"idle", "lock", "next", "wait", "timedOut", "done"}]
    BY <1>4 DEF IInv, TypeOK
  <2> QED
    BY <1>3, <1>4, <2>1, <2>2 DEF IInv, TypeOK
<1>8. HandlersOk'
  BY <1>1, <1>3, <1>4 DEF IInv, HandlersOk, Handler
<1>9. RestOk'
  BY <1>1, <1>2, <1>4, <1>5, <1>6 DEF IInv, RestOk
<1>10. ChannelsForgotten'
  <2>1. \A o \in receiveChannels : o[1] \in Calls
    BY DEF IInv, TypeOK, Offers
  <2> QED
    BY <1>2, <1>3, <1>4, <1>5, <1>6, <2>1 DEF IInv, ChannelsForgotten
<1>11. AskedOnce'
  <2>1. \A d \in Requests, m \in Miners :
           Handler("request", <<d, m>>) \in handlers' => Handler("request", <<d, m>>) \in handlers
    BY <1>4 DEF Handler
  <2>2. \A d \in Calls : \/ pc'[d] = pc[d] /\ rest'[d] = rest[d]
                         \/ d \notin Requests /\ pc[d] # "idle"
    BY <1>1, <1>4, <1>5
  <2> QED
    BY <1>4, <2>1, <2>2, AskedOnceStays
<1>12. SilenceMeansReceived'
  <2>1. \A d \in Calls : AnswerUnderWay(CurrentOffer(d)) => AnswerUnderWay(CurrentOffer(d))'
    BY <1>4, <1>6 DEF AnswerUnderWay
  <2>2. AnswerUnderWay(CurrentOffer(c))'
    <3>1. PICK h : h = Handler("confirmation", offer)
      OBVIOUS
    <3>2. h \in handlers' /\ h.offer = CurrentOffer(c)'
      BY <1>2, <1>4, <1>6, <3>1 DEF Handler
    <3> QED
      BY <3>2 DEF AnswerUnderWay
  <2> QED
    BY <1>4, <1>5, <1>6, <2>1, <2>2 DEF IInv, SilenceMeansReceived
<1>13. EveryoneCovered'
  <2>1. \A d \in Broadcasts : d \in Calls /\ \A m : Covered(d, m) => Covered(d, m)'
    BY <1>4, CoveredStays DEF Calls
  <2> QED
    BY <1>1, <1>4, <1>5, <2>1 DEF IInv, EveryoneCovered
<1> QED
  BY <1>7, <1>8, <1>9, <1>10, <1>11, <1>12, <1>13 DEF IInv

(* The timer goes off.                                                     *)
LEMMA TimeoutKeepsIInv ==
  ASSUME IInv, NEW c \in Calls, Timeout(c), UNCHANGED <<dead, prompt>>
  PROVE  IInv'
<1> USE DEF peerVars, dataVars
<1>1. c \notin Requests /\ pc[c] = "wait" /\ rest[c] # <<>>
  BY DEF Timeout, IInv, RestOk
<1>2. PICK offer : offer = CurrentOffer(c)
  OBVIOUS
<1>3. offer \in Offers /\ offer[1] = c /\ offer[2] = Head(rest[c])
  BY <1>1, <1>2, CurrentFacts DEF IInv
<1>4. /\ pc' = [pc EXCEPT ![c] = "timedOut"] /\ timedOut' = timedOut \cup {offer}
      /\ UNCHANGED <<network, listening, waiting, holds, receivedData, receiveChannels,
                     rest, audience, handlers, dead, prompt>>
  BY <1>2 DEF Timeout
<1>5. pc'[c] = "timedOut" /\ \A d \in Calls \ {c} : pc'[d] = pc[d]
  BY <1>4 DEF IInv, TypeOK
<1>6. \A d : CurrentOffer(d)' = CurrentOffer(d)
  BY <1>4 DEF CurrentOffer
<1>7. TypeOK'
  <2>1. pc' \in [Calls -> {"idle", "lock", "next", "wait", "timedOut", "done"}]
    BY <1>4 DEF IInv, TypeOK
  <2> QED
    BY <1>3, <1>4, <2>1 DEF IInv, TypeOK
<1>8. HandlersOk'
  BY <1>4 DEF IInv, HandlersOk
<1>9. RestOk'
  BY <1>1, <1>4, <1>5, <1>6 DEF IInv, RestOk
<1>10. ChannelsForgotten'
  <2>1. \A o \in receiveChannels : o[1] \in Calls
    BY DEF IInv, TypeOK, Offers
  <2> QED
    BY <1>4, <1>5, <1>6, <2>1 DEF IInv, ChannelsForgotten
<1>11. AskedOnce'
  <2>1. \A d \in Calls : \/ pc'[d] = pc[d] /\ rest'[d] = rest[d]
                         \/ d \notin Requests /\ pc[d] # "idle"
    BY <1>1, <1>4, <1>5
  <2> QED
    BY <1>4, <2>1, AskedOnceStays
<1>12. SilenceMeansReceived'
  <2>1. c.data \in receivedData[Head(rest[c])] \/ ~prompt
    BY <1>1 DEF Timeout, IInv, SilenceMeansReceived
  <2>2. \A d : AnswerUnderWay(CurrentOffer(d)) => AnswerUnderWay(CurrentOffer(d))'
    BY <1>4, <1>6 DEF AnswerUnderWay
  <2> QED
    BY <1>2, <1>4, <1>5, <1>6, <2>1, <2>2 DEF IInv, SilenceMeansReceived
<1>13. EveryoneCovered'
  <2>1. \A d \in Broadcasts : d \in Calls /\ \A m : Covered(d, m) => Covered(d, m)'
    BY <1>4, CoveredStays DEF Calls
  <2> QED
    BY <1>1, <1>4, <1>5, <2>1 DEF IInv, EveryoneCovered
<1> QED
  BY <1>7, <1>8, <1>9, <1>10, <1>11, <1>12, <1>13 DEF IInv

(* A handler of an offer that moves on, or ends: who ends has no answer to *)
(* give, because the payload is there or nobody waits.                     *)
LEMMA AnsweringKeepsIInv ==
  ASSUME IInv, NEW h \in handlers, h.kind # "request",
         UNCHANGED <<network, listening, waiting, callVars, dead, prompt>>,
         NEW kind \in {"accept", "reply"}, NEW g, g = [h EXCEPT !.kind = kind],
         handlers' = (handlers \ {h}) \cup {g} \/ handlers' = handlers \ {h},
         holds' \in [Miners -> SUBSET Payloads], receivedData' \in [Miners -> SUBSET Payloads],
         \A m \in Miners : receivedData[m] \subseteq receivedData'[m],
         h.kind = "send" => h.offer[1].data \in receivedData'[h.offer[2]],
         \/ g \in handlers'
         \/ h.offer[1].data \in receivedData'[h.offer[2]]
         \/ h.offer \notin receiveChannels
  PROVE  IInv'
<1>1. UNCHANGED <<receiveChannels, pc, rest, audience, timedOut>>
  BY DEF callVars
<1>2. h \in Handlers /\ h.offer \in Offers /\ g.offer = h.offer /\ g.kind = kind /\ g \in Handlers
  BY DEF IInv, TypeOK, Handlers
<1>3. h.offer[1] \notin Requests
  BY DEF IInv, HandlersOk
<1>4. \A d : CurrentOffer(d)' = CurrentOffer(d)
  BY <1>1 DEF CurrentOffer
<1>5. TypeOK'
  BY <1>1, <1>2 DEF IInv, TypeOK
<1>6. HandlersOk'
  BY <1>2, <1>3 DEF IInv, HandlersOk
<1>7. RestOk' /\ ChannelsForgotten'
  BY <1>1, <1>4 DEF IInv, RestOk, ChannelsForgotten
<1>8. AskedOnce'
  <2>1. \A d \in Requests, m \in Miners :
          Handler("request", <<d, m>>) \in handlers' => Handler("request", <<d, m>>) \in handlers
    BY <1>2 DEF Handler
  <2> QED
    BY <1>1, <2>1, AskedOnceStays
<1>9. SilenceMeansReceived'
  <2> SUFFICES ASSUME NEW d \in Calls, pc[d] \in {"wait", "timedOut"}
               PROVE  /\ pc[d] = "wait" => AnswerUnderWay(CurrentOffer(d))'
                                           \/ d.data \in receivedData'[Head(rest[d])]
                      /\ pc[d] = "timedOut" => d.data \in receivedData'[Head(rest[d])]
                                               \/ (~prompt /\ CurrentOffer(d) \in timedOut)
    BY <1>1, <1>4 DEF SilenceMeansReceived
  <2>1. /\ Head(rest[d]) \in Miners /\ CurrentOffer(d) \in receiveChannels
        /\ CurrentOffer(d)[1] = d /\ CurrentOffer(d)[2] = Head(rest[d])
    BY CurrentFacts DEF IInv, RestOk
  <2>2. receivedData[Head(rest[d])] \subseteq receivedData'[Head(rest[d])]
    BY <2>1
  <2>3. CASE pc[d] = "timedOut"
    BY <2>2, <2>3 DEF IInv, SilenceMeansReceived
  <2>4. CASE pc[d] = "wait" /\ h.offer = CurrentOffer(d)
    <3>1. CASE g \in handlers'
      BY <1>2, <1>4, <2>4, <3>1 DEF AnswerUnderWay
    <3> QED
      BY <2>1, <2>4, <3>1
  <2>5. CASE pc[d] = "wait" /\ h.offer # CurrentOffer(d)
    <3>1. AnswerUnderWay(CurrentOffer(d)) => AnswerUnderWay(CurrentOffer(d))'
      BY <1>4, <2>5 DEF AnswerUnderWay
    <3> QED
      BY <2>2, <2>5, <3>1 DEF IInv, SilenceMeansReceived
  <2> QED
    BY <2>3, <2>4, <2>5
<1>10. EveryoneCovered'
  <2>1. \A k \in handlers : k.kind = "send" =>
           k \in handlers' \/ k.offer[1].data \in receivedData'[k.offer[2]]
    OBVIOUS
  <2>2. ASSUME NEW d \in Broadcasts, NEW m \in Miners, Covered(d, m) PROVE Covered(d, m)'
    BY <1>1, <2>1, <2>2, CoveredStays
  <2>3. \A d \in Broadcasts : audience[d] \subseteq Miners
    BY DEF IInv, TypeOK, Calls
  <2> QED
    BY <1>1, <2>2, <2>3 DEF IInv, EveryoneCovered
<1> QED
  BY <1>5, <1>6, <1>7, <1>8, <1>9, <1>10 DEF IInv

(* A peer accepts an offer, or has the payload.                            *)
LEMMA ConfirmKeepsIInv ==
  ASSUME IInv, NEW h \in handlers, Confirm(h), UNCHANGED <<dead, prompt>>
  PROVE  IInv'
<1> USE DEF peerVars, dataVars
<1>1. PICK g : g = [h EXCEPT !.kind = "accept"]
  OBVIOUS
<1>2. /\ h.kind = "confirmation"
      /\ UNCHANGED <<network, listening, waiting, callVars, holds, receivedData>>
      /\ \/ handlers' = (handlers \ {h}) \cup {g}
         \/ handlers' = handlers \ {h} /\ h.offer[1].data \in receivedData[h.offer[2]]
  BY <1>1 DEF Confirm, Becomes, Ends
<1>3. holds' \in [Miners -> SUBSET Payloads] /\ receivedData' \in [Miners -> SUBSET Payloads]
  BY <1>2 DEF IInv, TypeOK
<1> QED
  BY <1>1, <1>2, <1>3, AnsweringKeepsIInv

(* The sender finds the channel of an acceptance, or nobody waits for it.  *)
LEMMA LookUpKeepsIInv ==
  ASSUME IInv, NEW h \in handlers, LookUp(h), UNCHANGED <<dead, prompt>>
  PROVE  IInv'
<1> USE DEF peerVars, dataVars
<1>1. PICK g : g = [h EXCEPT !.kind = "reply"]
  OBVIOUS
<1>2. /\ h.kind = "accept"
      /\ UNCHANGED <<network, listening, waiting, callVars, holds, receivedData>>
      /\ \/ handlers' = (handlers \ {h}) \cup {g}
         \/ handlers' = handlers \ {h} /\ h.offer \notin receiveChannels
  BY <1>1 DEF LookUp, Becomes, Ends
<1>3. holds' \in [Miners -> SUBSET Payloads] /\ receivedData' \in [Miners -> SUBSET Payloads]
  BY <1>2 DEF IInv, TypeOK
<1> QED
  BY <1>1, <1>2, <1>3, AnsweringKeepsIInv

(* The payload arrives.                                                    *)
LEMMA ReceiveSendKeepsIInv ==
  ASSUME IInv, NEW h \in handlers, ReceiveSend(h), UNCHANGED <<dead, prompt>>
  PROVE  IInv'
<1> USE DEF peerVars
<1>1. PICK g : g = [h EXCEPT !.kind = "reply"]
  OBVIOUS
<1>2. h.offer[2] \in Miners /\ h.offer[1] \in Calls /\ h.offer[1].data \in Payloads
  BY Kinds DEF IInv, TypeOK, Handlers, Offers
<1>3. /\ h.kind = "send" /\ UNCHANGED <<network, listening, waiting, callVars>>
      /\ handlers' = handlers \ {h}
  BY DEF ReceiveSend, Ends
<1>4. /\ holds' \in [Miners -> SUBSET Payloads] /\ receivedData' \in [Miners -> SUBSET Payloads]
      /\ \A m \in Miners : receivedData[m] \subseteq receivedData'[m]
      /\ h.offer[1].data \in receivedData'[h.offer[2]]
  BY <1>2 DEF ReceiveSend, IInv, TypeOK
<1> QED
  BY <1>1, <1>3, <1>4, AnsweringKeepsIInv

(* A request is answered, or cannot be served.                             *)
LEMMA ReceiveRequestKeepsIInv ==
  ASSUME IInv, NEW h \in handlers, ReceiveRequest(h), UNCHANGED <<dead, prompt>>
  PROVE  IInv'
<1> USE DEF peerVars, dataVars
<1>1. PICK m, c : m = h.offer[2] /\ c = h.offer[1]
  OBVIOUS
<1>2. h \in Handlers /\ m \in Miners /\ c \in Calls /\ h.offer = <<c, m>>
  BY <1>1 DEF IInv, TypeOK, Handlers, Offers
<1>3. h.kind = "request" /\ c \in Requests /\ h = Handler("request", <<c, m>>)
  BY <1>1, <1>2 DEF ReceiveRequest, IInv, HandlersOk, Handler, Handlers
<1>4. PICK answer : answer = Ans(m, c)
  OBVIOUS
<1>5. answer \in Answers /\ answer \in Calls /\ c.by \in Miners
      /\ answer \notin Requests /\ answer \notin Broadcasts
  BY <1>2, <1>3, <1>4, Kinds DEF Calls
<1>6. pc[answer] = "idle" /\ pc[c] \notin {"idle", "lock"} /\ m \notin ToSet(rest[c])
  BY <1>2, <1>3, <1>4 DEF IInv, AskedOnce
<1>7. /\ handlers' = handlers \ {h}
      /\ UNCHANGED <<network, listening, waiting, holds, receivedData, receiveChannels,
                     audience, timedOut, dead, prompt>>
      /\ \/ UNCHANGED <<pc, rest>>
         \/ pc' = [pc EXCEPT ![answer] = "next"] /\ rest' = [rest EXCEPT ![answer] = <<c.by>>]
  BY <1>1, <1>4 DEF ReceiveRequest, Ends, Ans
<1>8. /\ \A d \in Calls \ {answer} : pc'[d] = pc[d] /\ rest'[d] = rest[d]
      /\ \/ pc'[answer] = pc[answer] /\ rest'[answer] = rest[answer]
         \/ pc'[answer] = "next" /\ rest'[answer] # <<>>
  <2>1. <<c.by>> # <<>>
    OBVIOUS
  <2>2. CASE UNCHANGED <<pc, rest>>
    BY <2>2
  <2>3. CASE pc' = [pc EXCEPT ![answer] = "next"] /\ rest' = [rest EXCEPT ![answer] = <<c.by>>]
    <3>1. pc'[answer] = "next" /\ rest'[answer] = <<c.by>>
      BY <1>5, <2>3 DEF IInv, TypeOK
    <3>2. \A d \in Calls \ {answer} : pc'[d] = pc[d] /\ rest'[d] = rest[d]
      BY <2>3 DEF IInv, TypeOK
    <3> QED
      BY <2>1, <3>1, <3>2
  <2> QED
    BY <1>7, <2>2, <2>3
<1>9. \A d \in Calls \ {answer} : CurrentOffer(d)' = CurrentOffer(d)
  BY <1>8 DEF CurrentOffer
<1>10. TypeOK'
  <2>1. <<c.by>> \in Seq(Miners)
    BY <1>5
  <2>2. rest' \in [Calls -> Seq(Miners)]
    BY <1>7, <2>1 DEF IInv, TypeOK
  <2>3. pc' \in [Calls -> {"idle", "lock", "next", "wait", "timedOut", "done"}]
    BY <1>7 DEF IInv, TypeOK
  <2> QED
    BY <1>7, <2>2, <2>3 DEF IInv, TypeOK
<1>11. HandlersOk'
  BY <1>7 DEF IInv, HandlersOk
<1>12. RestOk'
  BY <1>5, <1>6, <1>7, <1>8, <1>9 DEF IInv, RestOk
<1>13. ChannelsForgotten'
  <2>1. \A offer \in receiveChannels : offer[1] \in Calls \ {answer}
    BY <1>6 DEF IInv, TypeOK, Offers, ChannelsForgotten
  <2> QED
    BY <1>7, <1>8, <1>9, <2>1 DEF IInv, ChannelsForgotten
<1>14. AskedOnce'
  <2>1. \A d \in Requests : pc'[d] = pc[d] /\ rest'[d] = rest[d]
    BY <1>5, <1>8 DEF Calls
  <2>2. ASSUME NEW d \in Requests, NEW n \in Miners, ~(d = c /\ n = m)
        PROVE  pc'[Ans(n, d)] = pc[Ans(n, d)]
    <3>1. Ans(n, d) # answer /\ Ans(n, d) \in Calls
      BY <1>2, <1>3, <1>4, <2>2, Kinds DEF Calls
    <3> QED
      BY <1>8, <3>1
  <2>3. h \notin handlers'
    BY <1>7
  <2>4. Distinct(network')
    BY <1>7 DEF IInv, AskedOnce
  <2>5. ASSUME NEW d \in Requests, NEW n \in Miners
        PROVE  /\ \/ pc'[d] \in {"idle", "lock"} \/ n \in ToSet(rest'[d])
                  \/ Handler("request", <<d, n>>) \in handlers'
                  => pc'[Ans(n, d)] = "idle"
               /\ Handler("request", <<d, n>>) \in handlers'
                  => pc'[d] \notin {"idle", "lock"} /\ n \notin ToSet(rest'[d])
    <3>1. CASE d = c /\ n = m
      BY <1>3, <1>6, <2>1, <2>3, <3>1
    <3>2. CASE ~(d = c /\ n = m)
      BY <1>7, <2>1, <2>2, <3>2 DEF IInv, AskedOnce
    <3> QED
      BY <3>1, <3>2
  <2> QED
    BY <2>1, <2>4, <2>5 DEF IInv, AskedOnce
<1>15. SilenceMeansReceived'
  <2>1. ASSUME NEW d \in Calls \ {answer}, pc[d] = "wait", AnswerUnderWay(CurrentOffer(d))
        PROVE  AnswerUnderWay(CurrentOffer(d))'
    <3>1. PICK k \in handlers : k.offer = CurrentOffer(d)
      BY <2>1 DEF AnswerUnderWay
    <3>2. CurrentOffer(d)[1] = d /\ d \notin Requests
      BY <2>1, CurrentFacts DEF IInv, RestOk
    <3>3. k \in handlers'
      BY <1>1, <1>3, <1>7, <3>1, <3>2
    <3> QED
      BY <1>9, <3>1, <3>3 DEF AnswerUnderWay
  <2> QED
    BY <1>6, <1>7, <1>8, <1>9, <2>1 DEF IInv, SilenceMeansReceived
<1>16. EveryoneCovered'
  <2>1. \A d \in Broadcasts : d \in Calls \ {answer} /\ \A n : Covered(d, n) => Covered(d, n)'
    BY <1>3, <1>5, <1>7, CoveredStays DEF Calls
  <2> QED
    BY <1>7, <1>8, <2>1 DEF IInv, EveryoneCovered
<1> QED
  BY <1>10, <1>11, <1>12, <1>13, <1>14, <1>15, <1>16 DEF IInv

-----------------------------------------------------------------------------
(* Every step keeps the invariant.                                         *)
LEMMA NextKeepsIInv == IInv /\ [Next]_vars => IInv'
<1> SUFFICES ASSUME IInv, [Next]_vars PROVE IInv'
  OBVIOUS
<1>1. CASE UNCHANGED vars
  <2>1. UNCHANGED <<network, listening, waiting, holds, receivedData, receiveChannels, pc, rest,
                    audience, timedOut, handlers, dead, prompt>>
    BY <1>1 DEF vars, peerVars, dataVars, callVars
  <2>2. \A d : CurrentOffer(d)' = CurrentOffer(d)
    BY <2>1 DEF CurrentOffer
  <2>3. TypeOK' /\ HandlersOk' /\ RestOk' /\ ChannelsForgotten'
    BY <2>1, <2>2 DEF IInv, TypeOK, HandlersOk, RestOk, ChannelsForgotten
  <2>4. AskedOnce' /\ SilenceMeansReceived'
    BY <2>1, <2>2 DEF IInv, AskedOnce, SilenceMeansReceived, AnswerUnderWay
  <2>5. EveryoneCovered'
    BY <2>1 DEF IInv, EveryoneCovered, Covered, OnItsWay
  <2> QED
    BY <2>3, <2>4, <2>5 DEF IInv
<1>2. ASSUME NEW m \in Miners, Alive(WantToSubscribe(m)) \/ JoinStep(m) PROVE IInv'
  BY <1>2, JoinKeepsIInv DEF JoinStep, Alive
<1>3. ASSUME NEW c \in Calls, Alive(Start(c)) PROVE IInv'
  BY <1>3, StartKeepsIInv DEF Alive
<1>4. ASSUME NEW c \in Calls, CallStep(c) PROVE IInv'
  BY <1>4, LockKeepsIInv, SkipKeepsIInv, AskKeepsIInv, OfferKeepsIInv, TransmitKeepsIInv,
     TimeoutKeepsIInv, AbandonKeepsIInv DEF CallStep, Alive
<1>5. ASSUME NEW h \in handlers, HandlerStep(h) PROVE IInv'
  BY <1>5, ConfirmKeepsIInv, LookUpKeepsIInv, ReceiveSendKeepsIInv, ReceiveRequestKeepsIInv
     DEF HandlerStep, Alive
<1> QED
  BY <1>1, <1>2, <1>3, <1>4, <1>5 DEF Next

(* The inductive invariant of the handshake.                               *)
THEOREM SpecIInv == Spec => []IInv
<1> QED
  BY InitIInv, NextKeepsIInv, PTL DEF Spec

(* The variables stay in their ranges.                                     *)
THEOREM TypeCorrect == Spec => []TypeOK
<1>1. IInv => TypeOK
  BY DEF IInv
<1> QED
  BY <1>1, SpecIInv, PTL

(* No call leaves its response channel behind.                             *)
THEOREM NoChannelLeaks == Spec => []ChannelsForgotten
<1>1. IInv => ChannelsForgotten
  BY DEF IInv
<1> QED
  BY <1>1, SpecIInv, PTL

(* A broadcast reaches everyone who was subscribed when it was made, for   *)
(* any number of miners, unless an answer came too late.                   *)
THEOREM BroadcastsReachAll == Spec => []NobodySkipped
<1>1. IInv => NobodySkipped
  <2> SUFFICES ASSUME IInv, NEW c \in Broadcasts, pc[c] = "done",
                      NEW m \in audience[c] \ {c.by}
               PROVE  Covered(c, m)
    BY DEF NobodySkipped, Covered
  <2>1. rest[c] = <<>>
    BY DEF IInv, RestOk, Calls
  <2>2. m \notin ToSet(rest[c])
    BY <2>1 DEF ToSet
  <2> QED
    BY <2>2 DEF IInv, EveryoneCovered
<1> QED
  BY <1>1, SpecIInv, PTL
=============================================================================
