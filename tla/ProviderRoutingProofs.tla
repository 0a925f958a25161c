----------------------- MODULE ProviderRoutingProofs -----------------------
(***************************************************************************)
(* For any finite set of requests and any providers, thresholds and        *)
(* streams: a client hears one provider only, how often the cooldown of a  *)
(* disabled provider can be pushed out, and how long it keeps the provider *)
(* out of the order.                                                       *)
(*                                                                         *)
(* The bound on the renewals counts, besides those that happened, the      *)
(* requests that still have the provider ahead of them: each can renew the *)
(* cooldown once more, and the one that disabled the provider cannot.  The *)
(* bound on the time adds up what is left of the cooldown and what those   *)
(* requests may still add to it.                                           *)
(***************************************************************************)
EXTENDS ProviderRouting, TLAPS, FiniteSetTheorems, SequenceTheorems,
        WellFoundedInduction

RequestTypes ==
  /\ pc \in [Requests -> {"idle", "ready", "calling"}]
  /\ turn \in [Requests -> Nat]
  /\ received \in [Requests -> Nat]
  /\ buffer \in [Requests -> Seq(Nat)]
  /\ out \in [Requests -> Seq(Nat)]
  /\ committed \in [Requests -> BOOLEAN]
  /\ kind \in [Requests -> Kinds \union {"none"}]

AllFrom(s, t) == \A i \in DOMAIN s : s[i] = t

(* What is held back and what was sent are parts of the same turn: nothing *)
(* is sent before the commit, nothing is held back after it.               *)
StreamInv(q) ==
  /\ committed[q] =>
       /\ pc[q] = "calling"
       /\ kind[q] = "stream"
       /\ buffer[q] = <<>>
       /\ AllFrom(out[q], turn[q])
  /\ pc[q] # "idle" /\ ~committed[q] =>
       /\ out[q] = <<>>
       /\ AllFrom(buffer[q], turn[q])
  /\ pc[q] # "calling" => buffer[q] = <<>>
  /\ pc[q] = "idle" => AllFrom(out[q], out[q][1])
  /\ pc[q] = "ready" => received[q] = 0
  /\ pc[q] # "ready" => Len(out[q]) + Len(buffer[q]) = received[q]

VoiceInv == RequestTypes /\ \A q \in Requests : StreamInv(q)

(* Requests that are to try p, or are trying it.                           *)
Holds(q, p) ==
  /\ pc[q] # "idle"
  /\ \E i \in DOMAIN providers[q] : turn[q] <= i /\ providers[q][i] = p

Holders(p) == {q \in Requests : Holds(q, p)}

RenewalInv(p) ==
  /\ renewals[p] \in Nat
  /\ renewals[p] + Cardinality(Holders(p)) <= Cardinality(Requests)
  /\ IsDisabled(health[p]) \/ renewals[p] > 0 =>
       renewals[p] + Cardinality(Holders(p)) <= Cardinality(Requests) - 1

(* An order names a provider once, and a call is one of its turns.         *)
OrderInv(q) ==
  /\ DOMAIN providers[q] = 1 .. Len(providers[q])
  /\ Len(providers[q]) \in Nat
  /\ \A i \in DOMAIN providers[q] : providers[q][i] \in Providers
  /\ \A i, j \in DOMAIN providers[q] : providers[q][i] = providers[q][j] => i = j
  /\ turn[q] > 0
  /\ pc[q] = "calling" => turn[q] \in DOMAIN providers[q]

RecordTypes ==
  /\ DOMAIN health = Providers
  /\ \A p \in Providers : "cooling" \in DOMAIN health[p]
  /\ DOMAIN renewals = Providers
  /\ DOMAIN providers = Requests

TurnInv ==
  /\ VoiceInv
  /\ RecordTypes
  /\ \A q \in Requests : OrderInv(q)
  /\ \A p \in Providers : RenewalInv(p)
-----------------------------------------------------------------------------
(* Sequences of chunks of one turn.                                        *)

LEMMA OneMoreChunk ==
  ASSUME NEW s \in Seq(Nat), NEW t \in Nat, AllFrom(s, t)
  PROVE  /\ Append(s, t) \in Seq(Nat)
         /\ AllFrom(Append(s, t), t)
         /\ Len(Append(s, t)) = Len(s) + 1
  BY DEF AllFrom

LEMMA JoinedChunks ==
  ASSUME NEW s \in Seq(Nat), NEW r \in Seq(Nat), NEW t \in Nat,
         AllFrom(s, t), AllFrom(r, t)
  PROVE  /\ s \o r \in Seq(Nat)
         /\ AllFrom(s \o r, t)
         /\ Len(s \o r) = Len(s) + Len(r)
  BY DEF AllFrom

(* What is all from one turn is all from the turn of its first chunk.      *)
LEMMA FirstSpeaks ==
  ASSUME NEW s \in Seq(Nat), NEW t \in Nat, AllFrom(s, t)
  PROVE  AllFrom(s, s[1])
  <1>1. CASE s = <<>>
    BY <1>1 DEF AllFrom
  <1>2. CASE s # <<>>
    <2>1. 1 \in DOMAIN s
      BY <1>2
    <2> QED BY <2>1 DEF AllFrom
  <1> QED BY <1>1, <1>2

LEMMA NoChunks ==
  /\ <<>> \in Seq(Nat)
  /\ Len(<<>>) = 0
  /\ \A t : AllFrom(<<>>, t)
  BY DEF AllFrom

LEMMA OneMore ==
  ASSUME NEW a \in Nat, NEW b \in Nat, NEW c \in Nat, a + b = c
  PROVE  a + (b + 1) = c + 1
  OBVIOUS

LEMMA SilentStart ==
  ASSUME Init
  PROVE  VoiceInv
  BY NoChunks DEF Init, VoiceInv, RequestTypes, StreamInv

(* Requests other than the one that moves keep what was known of them.     *)
LEMMA VoiceTurn ==
  ASSUME VoiceInv, NEW q \in Requests, NextTurn(q), ~committed[q], pc[q] = "calling"
  PROVE  VoiceInv'
  <1>1. RequestTypes'
    BY NoChunks DEF VoiceInv, RequestTypes, NextTurn
  <1>2. ASSUME NEW r \in Requests
        PROVE  StreamInv(r)'
    BY <1>2, NoChunks DEF VoiceInv, RequestTypes, StreamInv, NextTurn
  <1> QED BY <1>1, <1>2 DEF VoiceInv

LEMMA VoiceFails ==
  ASSUME VoiceInv, NEW q \in Requests, Fails(q)
  PROVE  VoiceInv'
  <1>1. RequestTypes'
    BY NoChunks DEF VoiceInv, RequestTypes, Fails, Leave
  <1>2. ASSUME NEW r \in Requests
        PROVE  StreamInv(r)'
    BY <1>2, NoChunks DEF VoiceInv, RequestTypes, StreamInv, Fails, Leave
  <1> QED BY <1>1, <1>2 DEF VoiceInv

LEMMA VoiceAnswered ==
  ASSUME VoiceInv, NEW q \in Requests, Answered(q)
  PROVE  VoiceInv'
  <1> DEFINE told == out[q] \o buffer[q]
  <1>1. /\ told \in Seq(Nat)
        /\ Len(told) = received[q]
        /\ AllFrom(told, turn[q])
    <2>1. /\ out[q] \in Seq(Nat) /\ buffer[q] \in Seq(Nat) /\ turn[q] \in Nat
          /\ AllFrom(out[q], turn[q]) /\ AllFrom(buffer[q], turn[q])
          /\ Len(out[q]) + Len(buffer[q]) = received[q]
      BY NoChunks DEF VoiceInv, RequestTypes, StreamInv, Answered
    <2> QED BY <2>1, JoinedChunks
  <1>2. AllFrom(told, told[1])
    BY <1>1, FirstSpeaks DEF VoiceInv, RequestTypes
  <1> HIDE DEF told
  <1>3. out' = [out EXCEPT ![q] = told]
    BY DEF Answered, told
  <1>4. RequestTypes'
    BY <1>1, <1>3, NoChunks DEF VoiceInv, RequestTypes, Answered, Leave
  <1>5. ASSUME NEW r \in Requests
        PROVE  StreamInv(r)'
    <2>1. CASE r = q
      <3>1. /\ pc'[q] = "idle" /\ ~committed'[q] /\ buffer'[q] = <<>>
            /\ out'[q] = told /\ received'[q] = received[q]
        BY <1>3 DEF VoiceInv, RequestTypes, Answered, Leave
      <3>2. Len(told) + 0 = received[q]
        BY <1>1
      <3> QED BY <1>2, <2>1, <3>1, <3>2, NoChunks DEF StreamInv
    <2>2. CASE r # q
      <3>1. /\ pc'[r] = pc[r] /\ committed'[r] = committed[r] /\ buffer'[r] = buffer[r]
            /\ out'[r] = out[r] /\ received'[r] = received[r] /\ turn'[r] = turn[r]
            /\ kind'[r] = kind[r]
        BY <1>3, <1>5, <2>2 DEF VoiceInv, RequestTypes, Answered, Leave
      <3> QED BY <1>5, <3>1 DEF VoiceInv, StreamInv
    <2> QED BY <2>1, <2>2
  <1> QED BY <1>4, <1>5 DEF VoiceInv

LEMMA VoiceChunk ==
  ASSUME VoiceInv, NEW q \in Requests, Chunk(q)
  PROVE  VoiceInv'
  <1> DEFINE held == Append(buffer[q], turn[q])
  <1>1. /\ out[q] \in Seq(Nat) /\ buffer[q] \in Seq(Nat) /\ turn[q] \in Nat
        /\ AllFrom(out[q], turn[q]) /\ AllFrom(buffer[q], turn[q])
        /\ Len(out[q]) \in Nat /\ Len(buffer[q]) \in Nat /\ received[q] \in Nat
        /\ Len(out[q]) + Len(buffer[q]) = received[q]
        /\ ~committed[q] => out[q] = <<>>
    BY NoChunks DEF VoiceInv, RequestTypes, StreamInv, Chunk
  <1>2. held \in Seq(Nat) /\ AllFrom(held, turn[q]) /\ Len(held) = Len(buffer[q]) + 1
    BY <1>1, OneMoreChunk
  <1> HIDE DEF held
  <1>3. /\ out[q] \o held \in Seq(Nat)
        /\ AllFrom(out[q] \o held, turn[q])
        /\ Len(out[q] \o held) = received[q] + 1
    <2>1. /\ out[q] \o held \in Seq(Nat)
          /\ AllFrom(out[q] \o held, turn[q])
          /\ Len(out[q] \o held) = Len(out[q]) + Len(held)
      BY <1>1, <1>2, JoinedChunks
    <2>2. Len(out[q]) + (Len(buffer[q]) + 1) = received[q] + 1
      BY <1>1, OneMore
    <2> QED BY <1>2, <2>1, <2>2
  <1>4. received' = [received EXCEPT ![q] = @ + 1] /\ UNCHANGED <<pc, kind, turn>>
    BY DEF Chunk
  <1>7. ASSUME NEW r \in Requests,
               /\ out'[r] = out[r] /\ buffer'[r] = buffer[r] /\ committed'[r] = committed[r]
               /\ received'[r] = received[r]
        PROVE  StreamInv(r)'
    BY <1>4, <1>7 DEF VoiceInv, StreamInv
  <1>5. CASE /\ out' = [out EXCEPT ![q] = @ \o held]
             /\ buffer' = [buffer EXCEPT ![q] = <<>>]
             /\ committed' = [committed EXCEPT ![q] = TRUE]
    <2> DEFINE told == out[q] \o held
    <2>1. /\ told \in Seq(Nat)
          /\ AllFrom(told, turn[q])
          /\ Len(told) = received[q] + 1
          /\ out' = [out EXCEPT ![q] = told]
          /\ buffer' = [buffer EXCEPT ![q] = <<>>]
          /\ committed' = [committed EXCEPT ![q] = TRUE]
      BY <1>3, <1>5
    <2> HIDE DEF told
    <2>2. RequestTypes'
      BY <1>4, <2>1, NoChunks DEF VoiceInv, RequestTypes
    <2>3. ASSUME NEW r \in Requests
          PROVE  StreamInv(r)'
      <3>1. CASE r = q
        <4>1. /\ pc'[q] = "calling" /\ kind'[q] = "stream" /\ committed'[q]
              /\ buffer'[q] = <<>> /\ out'[q] = told
              /\ received'[q] = received[q] + 1 /\ turn'[q] = turn[q]
          BY <1>4, <1>5, <2>1 DEF VoiceInv, RequestTypes, Chunk
        <4>2. Len(told) + 0 = received[q] + 1
          BY <1>1, <2>1
        <4> QED BY <2>1, <3>1, <4>1, <4>2, NoChunks DEF StreamInv
      <3>2. CASE r # q
        BY <1>4, <1>5, <1>7, <2>1, <2>3, <3>2 DEF VoiceInv, RequestTypes
      <3> QED BY <3>1, <3>2
    <2> QED BY <2>2, <2>3 DEF VoiceInv
  <1>6. CASE /\ ~committed[q]
             /\ buffer' = [buffer EXCEPT ![q] = held]
             /\ UNCHANGED <<out, committed>>
    <2>1. RequestTypes'
      BY <1>2, <1>4, <1>6 DEF VoiceInv, RequestTypes
    <2>2. ASSUME NEW r \in Requests
          PROVE  StreamInv(r)'
      <3>1. CASE r = q
        <4>1. /\ pc'[q] = "calling" /\ ~committed'[q]
              /\ buffer'[q] = held /\ out'[q] = <<>>
              /\ received'[q] = received[q] + 1 /\ turn'[q] = turn[q]
          BY <1>1, <1>4, <1>6 DEF VoiceInv, RequestTypes, Chunk
        <4>2. 0 + Len(held) = received[q] + 1
          <5>1. Len(out[q]) = 0 /\ 0 \in Nat
            BY <1>1, <1>6, NoChunks
          <5>2. 0 + (Len(buffer[q]) + 1) = received[q] + 1
            BY <1>1, <5>1, OneMore
          <5> QED BY <1>2, <5>2
        <4> QED BY <1>2, <3>1, <4>1, <4>2, NoChunks DEF StreamInv
      <3>2. CASE r # q
        BY <1>4, <1>6, <1>7, <2>2, <3>2 DEF VoiceInv, RequestTypes
      <3> QED BY <3>1, <3>2
    <2> QED BY <2>1, <2>2 DEF VoiceInv
  <1> QED BY <1>5, <1>6 DEF Chunk, held

LEMMA VoiceStep ==
  ASSUME VoiceInv, [Next]_vars
  PROVE  VoiceInv'
  <1>1. ASSUME NEW q \in Requests, Arrive(q)
        PROVE  VoiceInv'
    <2>1. RequestTypes'
      BY <1>1, NoChunks DEF VoiceInv, RequestTypes, Arrive
    <2>2. ASSUME NEW r \in Requests
          PROVE  StreamInv(r)'
      BY <1>1, <2>2, NoChunks DEF VoiceInv, RequestTypes, StreamInv, Arrive
    <2> QED BY <2>1, <2>2 DEF VoiceInv
  <1>2. ASSUME NEW q \in Requests, Call(q)
        PROVE  VoiceInv'
    <2>1. RequestTypes'
      BY <1>2 DEF VoiceInv, RequestTypes, Call
    <2>2. ASSUME NEW r \in Requests
          PROVE  StreamInv(r)'
      BY <1>2, <2>2, NoChunks DEF VoiceInv, RequestTypes, StreamInv, Call
    <2> QED BY <2>1, <2>2 DEF VoiceInv
  <1>3. ASSUME NEW q \in Requests, Exhausted(q) \/ Broken(q) \/ Abandoned(q)
        PROVE  VoiceInv'
    BY <1>3, VoiceFails DEF Exhausted, Broken, Abandoned
  <1>4. ASSUME NEW q \in Requests, UnreadableQuery(q) \/ UnreadableChat(q) \/ Retry(q)
        PROVE  VoiceInv'
    <2>1. ~committed[q] /\ pc[q] = "calling" /\ NextTurn(q)
      BY <1>4 DEF VoiceInv, StreamInv, UnreadableQuery, UnreadableChat, Retry
    <2> QED BY <2>1, VoiceTurn
  <1>5. CASE UNCHANGED requestVars
    BY <1>5 DEF requestVars, VoiceInv, RequestTypes, StreamInv
  <1>6. CASE Tick \/ UNCHANGED vars
    BY <1>5, <1>6 DEF Tick, vars, requestVars
  <1> QED BY <1>1, <1>2, <1>3, <1>4, <1>6, VoiceAnswered, VoiceChunk DEF Next

(* A client is sent chunks of one turn only, and all of it once its stream *)
(* has ended well (route_query_stream's buffer and commit).                *)
THEOREM Voices == Spec => []OneVoice
  <1>1. VoiceInv => OneVoice
    <2> SUFFICES ASSUME VoiceInv, NEW q \in Requests
                 PROVE  /\ \A i \in DOMAIN out[q] :
                             out[q][i] = IF pc[q] = "idle" THEN out[q][1] ELSE turn[q]
                        /\ pc[q] = "idle" => Len(out[q]) = received[q]
      BY DEF OneVoice
    <2>1. CASE pc[q] = "idle"
      <3>1. /\ AllFrom(out[q], out[q][1]) /\ buffer[q] = <<>>
            /\ Len(out[q]) + Len(buffer[q]) = received[q]
        BY <2>1 DEF VoiceInv, StreamInv
      <3>2. Len(out[q]) \in Nat
        BY DEF VoiceInv, RequestTypes
      <3>3. Len(out[q]) = received[q]
        BY <3>1, <3>2, NoChunks
      <3> QED BY <2>1, <3>1, <3>3 DEF AllFrom
    <2>2. CASE pc[q] # "idle"
      <3>1. AllFrom(out[q], turn[q])
        <4>1. CASE committed[q]
          BY <4>1 DEF VoiceInv, StreamInv
        <4>2. CASE ~committed[q]
          BY <2>2, <4>2, NoChunks DEF VoiceInv, StreamInv
        <4> QED BY <4>1, <4>2
      <3> QED BY <2>2, <3>1 DEF AllFrom
    <2> QED BY <2>1, <2>2
  <1> QED BY SilentStart, VoiceStep, <1>1, PTL DEF Spec
-----------------------------------------------------------------------------
(* The steps of a request as its client hears them.                        *)

Asked == [q \in Requests |-> pc[q] # "idle"]

LEMMA StreamGoesOn ==
  ASSUME NEW s \in Seq(Nat), NEW r \in Seq(Nat)
  PROVE  Client!Continued(s, s \o r)
  BY DEF Client!Continued

LEMMA StreamIsOne ==
  ASSUME NEW s, NEW t, AllFrom(s, t), s \in Seq(Nat)
  PROVE  Client!OneSpeaker(s)
  <1>1. CASE s = <<>>
    BY <1>1 DEF Client!OneSpeaker
  <1>2. CASE s # <<>>
    <2>1. 1 \in DOMAIN s
      BY <1>2
    <2> QED BY <2>1 DEF AllFrom, Client!OneSpeaker
  <1> QED BY <1>1, <1>2

LEMMA StreamAsked ==
  ASSUME VoiceInv, NEW q \in Requests, Arrive(q)
  PROVE  Client!Ask(q)
  <1>1. ~Asked[q] /\ Asked' = [Asked EXCEPT ![q] = TRUE]
    BY DEF Asked, Arrive, VoiceInv, RequestTypes
  <1> QED BY <1>1 DEF Asked, Arrive, Client!Ask

LEMMA StreamFails ==
  ASSUME VoiceInv, NEW q \in Requests, Fails(q), pc[q] # "idle"
  PROVE  Client!Break(q)
  <1>1. Asked[q] /\ Asked' = [Asked EXCEPT ![q] = FALSE]
    BY DEF Asked, Fails, Leave, VoiceInv, RequestTypes
  <1> QED BY <1>1 DEF Asked, Fails, Client!Break

LEMMA StreamFailsOver ==
  ASSUME VoiceInv, NEW q \in Requests, NextTurn(q), ~committed[q], pc[q] = "calling"
  PROVE  Client!Failover(q)
  <1>1. Asked[q] /\ Asked' = Asked
    BY DEF Asked, NextTurn, VoiceInv, RequestTypes
  <1>2. out[q] = <<>>
    BY DEF VoiceInv, StreamInv
  <1> QED BY <1>1, <1>2 DEF Asked, NextTurn, Client!Failover

(* Held back and sent chunks are of the request's present turn, and all of *)
(* them that there are.                                                    *)
LEMMA TurnSpeaks ==
  ASSUME VoiceInv, NEW q \in Requests, pc[q] = "calling"
  PROVE  /\ out[q] \in Seq(Nat) /\ buffer[q] \in Seq(Nat) /\ turn[q] \in Nat
         /\ received[q] \in Nat /\ Len(out[q]) \in Nat /\ Len(buffer[q]) \in Nat
         /\ AllFrom(out[q], turn[q]) /\ AllFrom(buffer[q], turn[q])
         /\ Len(out[q]) + Len(buffer[q]) = received[q]
  BY NoChunks DEF VoiceInv, RequestTypes, StreamInv

LEMMA StreamEnds ==
  ASSUME VoiceInv, NEW q \in Requests, Answered(q)
  PROVE  Client!End(q)
  <1> DEFINE told == out[q] \o buffer[q]
  <1>1. pc[q] = "calling"
    BY DEF Answered
  <1>2. /\ told \in Seq(Nat) /\ AllFrom(told, turn[q]) /\ Len(told) = received[q]
        /\ Client!Continued(out[q], told)
    BY <1>1, TurnSpeaks, JoinedChunks, StreamGoesOn
  <1>3. out' = [out EXCEPT ![q] = told] /\ received' = received
    BY DEF Answered
  <1> HIDE DEF told
  <1>4. out'[q] = told
    BY <1>3 DEF VoiceInv, RequestTypes
  <1>5. Client!Hears(q)
    BY <1>2, <1>3, <1>4, StreamIsOne DEF Client!Hears
  <1>6. Asked[q] /\ Asked' = [Asked EXCEPT ![q] = FALSE]
    BY DEF Asked, Answered, Leave, VoiceInv, RequestTypes
  <1> QED BY <1>2, <1>3, <1>4, <1>5, <1>6 DEF Asked, Client!End

LEMMA StreamDelivers ==
  ASSUME VoiceInv, VoiceInv', NEW q \in Requests, Chunk(q)
  PROVE  Client!Deliver(q)
  <1> DEFINE held == Append(buffer[q], turn[q])
  <1>1. /\ pc[q] = "calling" /\ UNCHANGED <<pc, turn>>
        /\ received' = [received EXCEPT ![q] = @ + 1]
        /\ \/ out' = [out EXCEPT ![q] = @ \o held]
           \/ UNCHANGED out
    BY DEF Chunk
  <1>2. Asked[q] /\ UNCHANGED Asked
    BY <1>1 DEF Asked
  <1>3. /\ out'[q] \in Seq(Nat) /\ AllFrom(out'[q], turn[q])
        /\ Len(out'[q]) <= received'[q]
    <2>1. pc'[q] = "calling" /\ turn'[q] = turn[q]
      BY <1>1
    <2>2. /\ committed'[q] => AllFrom(out'[q], turn'[q])
          /\ ~committed'[q] => out'[q] = <<>>
          /\ Len(out'[q]) + Len(buffer'[q]) = received'[q]
          /\ out'[q] \in Seq(Nat) /\ buffer'[q] \in Seq(Nat)
      BY <2>1 DEF VoiceInv, RequestTypes, StreamInv
    <2>3. Len(out'[q]) \in Nat /\ Len(buffer'[q]) \in Nat
      BY <2>2
    <2>4. Len(out'[q]) <= received'[q]
      <3>1. \A a, b \in Nat : a <= a + b
        OBVIOUS
      <3>2. Len(out'[q]) <= Len(out'[q]) + Len(buffer'[q])
        BY <2>3, <3>1
      <3> QED BY <2>2, <3>2
    <2> QED BY <2>1, <2>2, <2>4, NoChunks
  <1>4. /\ out' = [out EXCEPT ![q] = out'[q]]
        /\ Client!Continued(out[q], out'[q])
    <2>1. /\ out \in [Requests -> Seq(Nat)] /\ out[q] \in Seq(Nat)
          /\ held \in Seq(Nat)
      BY <1>1, TurnSpeaks, OneMoreChunk DEF VoiceInv, RequestTypes
    <2> HIDE DEF held
    <2>2. CASE out' = [out EXCEPT ![q] = @ \o held]
      <3>1. out'[q] = out[q] \o held
        BY <2>1, <2>2
      <3> QED BY <2>1, <2>2, <3>1, StreamGoesOn
    <2>3. CASE UNCHANGED out
      BY <2>1, <2>3 DEF Client!Continued
    <2> QED BY <1>1, <2>2, <2>3 DEF held
  <1>5. Client!Hears(q)
    BY <1>3, <1>4, StreamIsOne DEF Client!Hears
  <1> QED BY <1>1, <1>2, <1>3, <1>5 DEF Asked, Client!Deliver

(* The router implements ClientStream for any requests, providers,         *)
(* thresholds and streams: each of its steps is one that a service with a  *)
(* single speaker may take, or none that the client of a request notices.  *)
THEOREM RouterIsOneSpeaker == Spec => FollowsStream
  <1>1. Init => Client!Init
    BY DEF Init, Client!Init
  <1>2. VoiceInv /\ VoiceInv' /\ [Next]_vars => [Client!Next]_(Client!vars)
    <2> SUFFICES ASSUME VoiceInv, VoiceInv', [Next]_vars
                 PROVE  Client!Next \/ UNCHANGED Client!vars
      OBVIOUS
    <2>1. ASSUME NEW q \in Requests, Arrive(q)
          PROVE  Client!Next
      BY <2>1, StreamAsked DEF Client!Next
    <2>2. ASSUME NEW q \in Requests, Exhausted(q) \/ Broken(q) \/ Abandoned(q)
          PROVE  Client!Next
      BY <2>2, StreamFails DEF Exhausted, Broken, Abandoned, Client!Next
    <2>3. ASSUME NEW q \in Requests, UnreadableQuery(q) \/ UnreadableChat(q) \/ Retry(q)
          PROVE  Client!Next
      <3>1. ~committed[q] /\ pc[q] = "calling" /\ NextTurn(q)
        BY <2>3 DEF VoiceInv, StreamInv, UnreadableQuery, UnreadableChat, Retry
      <3> QED BY <3>1, StreamFailsOver DEF Client!Next
    <2>4. ASSUME NEW q \in Requests, Answered(q) \/ Chunk(q)
          PROVE  Client!Next
      BY <2>4, StreamEnds, StreamDelivers DEF Client!Next
    <2>5. ASSUME NEW q \in Requests, Call(q)
          PROVE  UNCHANGED Client!vars
      <3>1. Asked' = Asked
        BY <2>5 DEF Asked, Call, VoiceInv, RequestTypes
      <3> QED BY <2>5, <3>1 DEF Asked, Call, Client!vars
    <2>6. CASE Tick \/ UNCHANGED vars
      BY <2>6 DEF Tick, vars, requestVars, Client!vars
    <2> QED BY <2>1, <2>2, <2>3, <2>4, <2>5, <2>6 DEF Next
  <1> QED BY SilentStart, VoiceStep, <1>1, <1>2, PTL DEF Spec, FollowsStream, Client!Spec
-----------------------------------------------------------------------------
(* Who has a provider ahead.                                               *)

LEMMA HoldersFinite ==
  ASSUME NEW S \in SUBSET Requests
  PROVE  /\ IsFiniteSet(S)
         /\ Cardinality(S) \in Nat
         /\ Cardinality(Requests) \in Nat
         /\ Cardinality(S) <= Cardinality(Requests)
         /\ \A T \in SUBSET S : Cardinality(T) \in Nat /\ Cardinality(T) <= Cardinality(S)
         /\ \A q \in S : \A T \in SUBSET (S \ {q}) : Cardinality(T) <= Cardinality(S) - 1
  <1>1. IsFiniteSet(Requests)
    BY RoutingAssumption
  <1>2. /\ IsFiniteSet(S) /\ Cardinality(S) \in Nat /\ Cardinality(Requests) \in Nat
        /\ Cardinality(S) <= Cardinality(Requests)
    BY <1>1, FS_Subset, FS_CardinalityType
  <1>3. ASSUME NEW T \in SUBSET S
        PROVE  Cardinality(T) \in Nat /\ Cardinality(T) <= Cardinality(S)
    BY <1>2, FS_Subset, FS_CardinalityType
  <1>4. ASSUME NEW q \in S, NEW T \in SUBSET (S \ {q})
        PROVE  Cardinality(T) <= Cardinality(S) - 1
    <2>1. IsFiniteSet(S \ {q}) /\ Cardinality(S \ {q}) = Cardinality(S) - 1
      BY <1>2, FS_RemoveElement
    <2> QED BY <2>1, FS_Subset
  <1> QED BY <1>2, <1>3, <1>4

(* No new holder, no renewal and no new cooldown.                          *)
LEMMA NoNewHolder ==
  ASSUME NEW p, RenewalInv(p),
         Holders(p)' \subseteq Holders(p),
         renewals'[p] = renewals[p],
         IsDisabled(health'[p]) => IsDisabled(health[p])
  PROVE  RenewalInv(p)'
  <1> DEFINE S == Holders(p)
             T == Holders(p)'
  <1>1. S \in SUBSET Requests /\ T \in SUBSET S
    BY DEF Holders
  <1> HIDE DEF S, T
  <1>2. /\ Cardinality(S) \in Nat /\ Cardinality(T) \in Nat /\ Cardinality(Requests) \in Nat
        /\ Cardinality(T) <= Cardinality(S)
    BY <1>1, HoldersFinite
  <1>3. /\ renewals[p] \in Nat
        /\ renewals[p] + Cardinality(S) <= Cardinality(Requests)
        /\ IsDisabled(health[p]) \/ renewals[p] > 0 =>
             renewals[p] + Cardinality(S) <= Cardinality(Requests) - 1
    BY DEF RenewalInv, S
  <1>4. /\ renewals'[p] \in Nat
        /\ renewals'[p] + Cardinality(T) <= Cardinality(Requests)
        /\ IsDisabled(health'[p]) \/ renewals'[p] > 0 =>
             renewals'[p] + Cardinality(T) <= Cardinality(Requests) - 1
    BY <1>2, <1>3
  <1> QED BY <1>4 DEF RenewalInv, T

(* A holder fails on p and has it behind it.                               *)
LEMMA HolderFails ==
  ASSUME NEW p, RenewalInv(p), NEW q \in Requests,
         q \in Holders(p),
         Holders(p)' \subseteq Holders(p) \ {q},
         renewals'[p] = IF IsDisabled(health[p])
                          THEN AtMost(renewals[p] + 1, Cardinality(Requests))
                          ELSE renewals[p]
  PROVE  RenewalInv(p)'
  <1> DEFINE S == Holders(p)
             T == Holders(p)'
  <1>1. S \in SUBSET Requests /\ q \in S /\ T \in SUBSET (S \ {q}) /\ T \in SUBSET S
    BY DEF Holders
  <1> HIDE DEF S, T
  <1>2. /\ Cardinality(S) \in Nat /\ Cardinality(T) \in Nat /\ Cardinality(Requests) \in Nat
        /\ Cardinality(T) <= Cardinality(S) - 1
    BY <1>1, HoldersFinite
  <1>3. /\ renewals[p] \in Nat
        /\ renewals[p] + Cardinality(S) <= Cardinality(Requests)
        /\ IsDisabled(health[p]) =>
             renewals[p] + Cardinality(S) <= Cardinality(Requests) - 1
    BY DEF RenewalInv, S
  <1>4. /\ renewals'[p] \in Nat
        /\ renewals'[p] + Cardinality(T) <= Cardinality(Requests) - 1
    <2>1. CASE IsDisabled(health[p])
      BY <1>2, <1>3, <2>1 DEF AtMost
    <2>2. CASE ~IsDisabled(health[p])
      BY <1>2, <1>3, <2>2
    <2> QED BY <2>1, <2>2
  <1>5. renewals'[p] + Cardinality(T) <= Cardinality(Requests)
    BY <1>2, <1>4
  <1> QED BY <1>4, <1>5 DEF RenewalInv, T

(* A provider that is offered has not been renewed since.                  *)
LEMMA FreshlyOffered ==
  ASSUME NEW p, renewals'[p] = 0, ~IsDisabled(health'[p])
  PROVE  RenewalInv(p)'
  <1> DEFINE T == Holders(p)'
  <1>1. T \in SUBSET Requests
    BY DEF Holders
  <1> HIDE DEF T
  <1>2. /\ Cardinality(T) \in Nat /\ Cardinality(Requests) \in Nat
        /\ Cardinality(T) <= Cardinality(Requests)
    BY <1>1, HoldersFinite
  <1>3. /\ 0 \in Nat
        /\ 0 + Cardinality(T) <= Cardinality(Requests)
        /\ ~(0 > 0)
    BY <1>2
  <1> QED BY <1>3 DEF RenewalInv, T

(* How the health records change.                                          *)

LEMMA SuccessRecords ==
  ASSUME RecordTypes, NEW x, Succeeded(x)
  PROVE  /\ DOMAIN health' = Providers
         /\ \A p \in Providers :
              /\ "cooling" \in DOMAIN health'[p]
              /\ health'[p].cooling = health[p].cooling
  BY DEF RecordTypes, Succeeded, AfterSuccess

(* How the orders change.                                                  *)

LEMMA TriedIsHeld ==
  ASSUME TurnInv, NEW q \in Requests, pc[q] = "calling"
  PROVE  Trying(q) \in Providers /\ q \in Holders(Trying(q))
  <1>1. turn[q] \in DOMAIN providers[q] /\ turn[q] \in Nat
    BY DEF TurnInv, OrderInv, VoiceInv, RequestTypes
  <1> QED BY <1>1 DEF TurnInv, OrderInv, Trying, Holders, Holds

LEMMA LeavingHolds ==
  ASSUME TurnInv, NEW q \in Requests, Leave(q)
  PROVE  /\ DOMAIN providers' = Requests
         /\ \A r \in Requests : OrderInv(r)'
         /\ \A p : Holders(p)' \subseteq Holders(p) \ {q}
  <1>1. /\ DOMAIN providers' = Requests
        /\ pc'[q] = "idle" /\ providers'[q] = <<>> /\ turn'[q] = 1
        /\ \A r \in Requests \ {q} :
             pc'[r] = pc[r] /\ providers'[r] = providers[r] /\ turn'[r] = turn[r]
    BY DEF TurnInv, RecordTypes, VoiceInv, RequestTypes, Leave
  <1>2. OrderInv(q)'
    BY <1>1 DEF OrderInv
  <1>3. ASSUME NEW r \in Requests \ {q}
        PROVE  OrderInv(r)'
    BY <1>1, <1>3 DEF TurnInv, OrderInv
  <1>4. ASSUME NEW p
        PROVE  Holders(p)' \subseteq Holders(p) \ {q}
    BY <1>1 DEF Holders, Holds
  <1> QED BY <1>1, <1>2, <1>3, <1>4

LEMMA TurningHolds ==
  ASSUME TurnInv, NEW q \in Requests, NextTurn(q), pc[q] = "calling"
  PROVE  /\ DOMAIN providers' = Requests
         /\ \A r \in Requests : OrderInv(r)'
         /\ \A p : Holders(p)' \subseteq Holders(p)
         /\ \A p : p = Trying(q) => Holders(p)' \subseteq Holders(p) \ {q}
  <1>1. /\ DOMAIN providers' = Requests
        /\ pc'[q] = "ready" /\ turn'[q] = turn[q] + 1 /\ turn[q] \in Nat
        /\ \A r \in Requests : providers'[r] = providers[r]
        /\ \A r \in Requests \ {q} : pc'[r] = pc[r] /\ turn'[r] = turn[r]
    BY DEF TurnInv, RecordTypes, VoiceInv, RequestTypes, NextTurn
  <1>2. OrderInv(q)'
    BY <1>1 DEF TurnInv, OrderInv
  <1>3. ASSUME NEW r \in Requests \ {q}
        PROVE  OrderInv(r)'
    BY <1>1, <1>3 DEF TurnInv, OrderInv
  <1>4. ASSUME NEW p, NEW r \in Requests, Holds(r, p)'
        PROVE  Holds(r, p)
    <2>1. CASE r # q
      BY <1>1, <1>4, <2>1 DEF Holds
    <2>2. CASE r = q
      <3>1. PICK i \in DOMAIN providers[q] : turn[q] + 1 <= i /\ providers[q][i] = p
        BY <1>1, <1>4, <2>2 DEF Holds
      <3>2. i \in Nat /\ turn[q] <= i
        BY <1>1, <3>1 DEF TurnInv, OrderInv
      <3> QED BY <2>2, <3>1, <3>2 DEF Holds
    <2> QED BY <2>1, <2>2
  <1>5. ASSUME NEW p, p = Trying(q)
        PROVE  ~Holds(q, p)'
    <2> SUFFICES ASSUME NEW i \in DOMAIN providers[q],
                        turn[q] + 1 <= i, providers[q][i] = p
                 PROVE  FALSE
      BY <1>1 DEF Holds
    <2>1. turn[q] \in DOMAIN providers[q] /\ providers[q][turn[q]] = p
      BY <1>5 DEF TurnInv, OrderInv, Trying
    <2>2. i = turn[q]
      BY <2>1 DEF TurnInv, OrderInv
    <2> QED BY <1>1, <2>2
  <1>6. ASSUME NEW p
        PROVE  Holders(p)' \subseteq Holders(p)
    BY <1>4 DEF Holders
  <1>7. ASSUME NEW p, p = Trying(q)
        PROVE  Holders(p)' \subseteq Holders(p) \ {q}
    BY <1>4, <1>5, <1>7 DEF Holders
  <1> QED BY <1>1, <1>2, <1>3, <1>6, <1>7

LEMMA ArrivingHolds ==
  ASSUME TurnInv, NEW q \in Requests, Arrive(q)
  PROVE  /\ DOMAIN providers' = Requests
         /\ \A r \in Requests : OrderInv(r)'
         /\ \A p : p \notin Offered => Holders(p)' \subseteq Holders(p)
  <1>1. PICK order \in SetToSeqs(Offered) : providers' = [providers EXCEPT ![q] = order]
    BY DEF Arrive, ProviderOrders
  <1> DEFINE n == Cardinality(Offered)
  <1>2. n \in Nat
    BY RoutingAssumption, FS_Subset, FS_CardinalityType DEF Offered
  <1>3. /\ order \in [1 .. n -> Offered]
        /\ \A i, j \in 1 .. n : i # j => order[i] # order[j]
    BY DEF SetToSeqs
  <1> HIDE DEF n
  <1>4. DOMAIN order = 1 .. Len(order) /\ Len(order) \in Nat /\ Len(order) = n
    <2>1. order \in Seq(Offered)
      BY <1>2, <1>3, SeqDef
    <2>2. Len(order) \in Nat /\ DOMAIN order = 1 .. Len(order)
      BY <2>1
    <2>3. Len(order) = n
      BY <1>2, <1>3, <2>2
    <2> QED BY <2>2, <2>3
  <1>5. /\ DOMAIN providers' = Requests
        /\ pc'[q] = "ready" /\ pc[q] = "idle" /\ providers'[q] = order
        /\ \A r \in Requests \ {q} : pc'[r] = pc[r] /\ providers'[r] = providers[r]
        /\ turn' = turn
    BY <1>1 DEF TurnInv, RecordTypes, VoiceInv, RequestTypes, Arrive
  <1>6. OrderInv(q)'
    <2>1. \A i \in DOMAIN order : order[i] \in Providers
      BY <1>3 DEF Offered
    <2>2. \A i, j \in DOMAIN order : order[i] = order[j] => i = j
      BY <1>3
    <2>3. turn[q] > 0
      BY DEF TurnInv, OrderInv
    <2> QED BY <1>4, <1>5, <2>1, <2>2, <2>3 DEF OrderInv
  <1>7. ASSUME NEW r \in Requests \ {q}
        PROVE  OrderInv(r)'
    BY <1>5, <1>7 DEF TurnInv, OrderInv
  <1>8. ASSUME NEW p, p \notin Offered
        PROVE  Holders(p)' \subseteq Holders(p)
    <2>1. ~Holds(q, p)'
      BY <1>3, <1>5, <1>8 DEF Holds
    <2>2. ASSUME NEW r \in Requests \ {q}, Holds(r, p)'
          PROVE  Holds(r, p)
      BY <1>5, <2>2 DEF Holds
    <2> QED BY <2>1, <2>2 DEF Holders
  <1> QED BY <1>5, <1>6, <1>7, <1>8

LEMMA TurnStart ==
  ASSUME Init
  PROVE  TurnInv
  <1>1. VoiceInv
    BY SilentStart
  <1>2. RecordTypes
    BY DEF Init, RecordTypes, Neutral
  <1>3. ASSUME NEW q \in Requests
        PROVE  OrderInv(q)
    BY <1>3 DEF Init, OrderInv
  <1>4. ASSUME NEW p \in Providers
        PROVE  RenewalInv(p)
    <2>1. Holders(p) = {}
      BY DEF Init, Holders, Holds
    <2>2. Cardinality(Holders(p)) = 0 /\ Cardinality(Requests) \in Nat
      BY <2>1, FS_EmptySet, RoutingAssumption, FS_CardinalityType
    <2>3. renewals[p] = 0 /\ ~IsDisabled(health[p])
      BY <1>4 DEF Init, IsDisabled, Neutral
    <2>4. 0 \in Nat /\ 0 + 0 <= Cardinality(Requests) /\ ~(0 > 0)
      BY <2>2
    <2> QED BY <2>2, <2>3, <2>4 DEF RenewalInv
  <1> QED BY <1>1, <1>2, <1>3, <1>4 DEF TurnInv

(* A failure of what q tries, in a step that takes it out of its turn.     *)
LEMMA FailingStep ==
  ASSUME TurnInv, NEW q \in Requests, pc[q] = "calling",
         Fails(q) \/ NextTurn(q),
         NEW h, NEW auth,
         health' = [h EXCEPT ![Trying(q)] = AfterFailure(@, auth)],
         DOMAIN h = Providers,
         \A p \in Providers : "cooling" \in DOMAIN h[p] /\ h[p].cooling = health[p].cooling,
         Renewed(Trying(q)),
         VoiceInv'
  PROVE  TurnInv'
  <1>1. PICK x \in Providers : x = Trying(q) /\ q \in Holders(x)
    BY TriedIsHeld
  <1>2. /\ DOMAIN providers' = Requests
        /\ \A r \in Requests : OrderInv(r)'
        /\ \A p : Holders(p)' \subseteq Holders(p)
        /\ \A p : p = x => Holders(p)' \subseteq Holders(p) \ {q}
    <2>1. CASE Fails(q)
      BY <1>1, <2>1, LeavingHolds DEF Fails
    <2>2. CASE NextTurn(q)
      BY <1>1, <2>2, TurningHolds
    <2> QED BY <2>1, <2>2
  <1>3. /\ DOMAIN health' = Providers
        /\ DOMAIN renewals' = Providers
        /\ \A p \in Providers : "cooling" \in DOMAIN health'[p]
        /\ \A p \in Providers \ {x} :
             health'[p].cooling = health[p].cooling /\ renewals'[p] = renewals[p]
        /\ renewals'[x] = IF IsDisabled(health[x])
                            THEN AtMost(renewals[x] + 1, Cardinality(Requests))
                            ELSE renewals[x]
    <2>1. health' = [h EXCEPT ![x] = AfterFailure(@, auth)]
      BY <1>1
    <2>2. "cooling" \in DOMAIN AfterFailure(h[x], auth)
      BY DEF AfterFailure
    <2>3. /\ DOMAIN health' = Providers
          /\ \A p \in Providers : "cooling" \in DOMAIN health'[p]
          /\ \A p \in Providers \ {x} : health'[p].cooling = health[p].cooling
      BY <2>1, <2>2
    <2>4. renewals' = IF IsDisabled(health[x])
                        THEN [renewals EXCEPT ![x] = AtMost(@ + 1, Cardinality(Requests))]
                        ELSE renewals
      BY <1>1 DEF Renewed
    <2>5. DOMAIN renewals = Providers
      BY DEF TurnInv, RecordTypes
    <2> QED BY <2>3, <2>4, <2>5
  <1>4. ASSUME NEW p \in Providers
        PROVE  RenewalInv(p)'
    <2>1. CASE p = x
      BY <1>1, <1>2, <1>3, <2>1, HolderFails DEF TurnInv
    <2>2. CASE p # x
      <3>1. IsDisabled(health'[p]) => IsDisabled(health[p])
        BY <1>3, <2>2 DEF IsDisabled
      <3> QED BY <1>2, <1>3, <2>2, <3>1, NoNewHolder DEF TurnInv
    <2> QED BY <2>1, <2>2
  <1> QED BY <1>2, <1>3, <1>4 DEF TurnInv, RecordTypes

(* A step after which no provider has more requests ahead of it, and none  *)
(* a new cooldown.                                                         *)
LEMMA HarmlessStep ==
  ASSUME TurnInv, VoiceInv',
         DOMAIN providers' = Requests,
         \A r \in Requests : OrderInv(r)',
         \A p : Holders(p)' \subseteq Holders(p),
         DOMAIN health' = Providers,
         \A p \in Providers :
           /\ "cooling" \in DOMAIN health'[p]
           /\ IsDisabled(health'[p]) => IsDisabled(health[p]),
         UNCHANGED renewals
  PROVE  TurnInv'
  <1>1. ASSUME NEW p \in Providers
        PROVE  RenewalInv(p)'
    BY <1>1, NoNewHolder DEF TurnInv
  <1>2. RecordTypes'
    BY DEF TurnInv, RecordTypes
  <1> QED BY <1>1, <1>2 DEF TurnInv

LEMMA TurnStep ==
  ASSUME TurnInv, [Next]_vars
  PROVE  TurnInv'
  <1>1. VoiceInv'
    BY VoiceStep DEF TurnInv
  <1>2. /\ RecordTypes
        /\ DOMAIN health = Providers
        /\ DOMAIN providers = Requests
        /\ \A p \in Providers : "cooling" \in DOMAIN health[p]
        /\ \A r \in Requests : OrderInv(r)
    BY DEF TurnInv, RecordTypes
  <1>3. ASSUME NEW q \in Requests, Arrive(q)
        PROVE  TurnInv'
    <2>1. /\ DOMAIN providers' = Requests
          /\ \A r \in Requests : OrderInv(r)'
          /\ \A p : p \notin Offered => Holders(p)' \subseteq Holders(p)
      BY <1>3, ArrivingHolds
    <2>2. /\ health' = health
          /\ renewals' = [p \in Providers |-> IF p \in Offered THEN 0 ELSE renewals[p]]
      BY <1>3 DEF Arrive
    <2>3. ASSUME NEW p \in Providers
          PROVE  RenewalInv(p)'
      <3>1. CASE p \in Offered
        <4>1. renewals'[p] = 0 /\ ~IsDisabled(health'[p])
          BY <2>2, <3>1 DEF Offered, IsOffered
        <4> QED BY <4>1, FreshlyOffered
      <3>2. CASE p \notin Offered
        BY <2>1, <2>2, <3>2, NoNewHolder DEF TurnInv
      <3> QED BY <3>1, <3>2
    <2> QED BY <1>1, <1>2, <2>1, <2>2, <2>3 DEF TurnInv, RecordTypes
  <1>4. ASSUME NEW q \in Requests, Call(q)
        PROVE  TurnInv'
    <2>1. /\ UNCHANGED <<health, providers, turn, renewals>>
          /\ pc'[q] = "calling" /\ pc[q] = "ready"
          /\ turn[q] <= Len(providers[q])
          /\ \A r \in Requests \ {q} : pc'[r] = pc[r]
      BY <1>4 DEF Call, TurnInv, VoiceInv, RequestTypes
    <2>2. OrderInv(q)'
      <3>1. turn[q] \in Nat
        BY DEF TurnInv, VoiceInv, RequestTypes
      <3>2. turn[q] \in 1 .. Len(providers[q])
        BY <1>2, <2>1, <3>1 DEF OrderInv
      <3> QED BY <1>2, <2>1, <3>2 DEF OrderInv
    <2>3. ASSUME NEW r \in Requests \ {q}
          PROVE  OrderInv(r)'
      BY <1>2, <2>1, <2>3 DEF OrderInv
    <2>4. ASSUME NEW p
          PROVE  Holders(p)' \subseteq Holders(p)
      BY <2>1 DEF Holders, Holds
    <2> QED BY <1>1, <1>2, <2>1, <2>2, <2>3, <2>4, HarmlessStep
  <1>5. ASSUME NEW q \in Requests, Exhausted(q) \/ Abandoned(q)
        PROVE  TurnInv'
    <2>1. Leave(q) /\ UNCHANGED <<health, renewals>>
      BY <1>5 DEF Exhausted, Abandoned, Fails
    <2> QED BY <1>1, <1>2, <2>1, LeavingHolds, HarmlessStep
  <1>6. ASSUME NEW q \in Requests, Answered(q)
        PROVE  TurnInv'
    <2>1. PICK x : Succeeded(x)
      BY <1>6 DEF Answered
    <2>2. Leave(q) /\ UNCHANGED renewals
      BY <1>6 DEF Answered
    <2>3. /\ DOMAIN health' = Providers
          /\ \A p \in Providers :
               /\ "cooling" \in DOMAIN health'[p]
               /\ IsDisabled(health'[p]) => IsDisabled(health[p])
      BY <1>2, <2>1, SuccessRecords DEF IsDisabled
    <2> QED BY <1>1, <2>2, <2>3, LeavingHolds, HarmlessStep
  <1>7. ASSUME NEW q \in Requests, UnreadableQuery(q)
        PROVE  TurnInv'
    <2>1. pc[q] = "calling" /\ Succeeded(served[q]) /\ NextTurn(q) /\ UNCHANGED renewals
      BY <1>7 DEF UnreadableQuery
    <2>2. /\ DOMAIN health' = Providers
          /\ \A p \in Providers :
               /\ "cooling" \in DOMAIN health'[p]
               /\ IsDisabled(health'[p]) => IsDisabled(health[p])
      BY <1>2, <2>1, SuccessRecords DEF IsDisabled
    <2> QED BY <1>1, <2>1, <2>2, TurningHolds, HarmlessStep
  <1>8. ASSUME NEW q \in Requests, UnreadableChat(q)
        PROVE  TurnInv'
    <2> DEFINE h == [health EXCEPT ![served[q]] = AfterSuccess(@)]
    <2>1. /\ pc[q] = "calling" /\ NextTurn(q) /\ Renewed(Trying(q))
          /\ health' = [h EXCEPT ![Trying(q)] = AfterFailure(@, FALSE)]
      BY <1>8 DEF UnreadableChat
    <2>2. /\ DOMAIN h = Providers
          /\ \A p \in Providers :
               "cooling" \in DOMAIN h[p] /\ h[p].cooling = health[p].cooling
      BY <1>2 DEF AfterSuccess
    <2> HIDE DEF h
    <2> QED BY <1>1, <2>1, <2>2, FailingStep
  <1>9. ASSUME NEW q \in Requests, Retry(q) \/ Broken(q)
        PROVE  TurnInv'
    <2>1. PICK auth \in BOOLEAN : Failed(Trying(q), auth)
      BY <1>9 DEF Retry, Broken
    <2>2. /\ Renewed(Trying(q))
          /\ health' = [health EXCEPT ![Trying(q)] = AfterFailure(@, auth)]
      BY <2>1 DEF Failed
    <2>3. pc[q] = "calling" /\ (Fails(q) \/ NextTurn(q))
      BY <1>9 DEF Retry, Broken
    <2> QED BY <1>1, <1>2, <2>2, <2>3, FailingStep
  <1>10. CASE UNCHANGED <<health, pc, providers, turn, renewals>>
    <2>1. /\ \A p : Holders(p)' \subseteq Holders(p)
          /\ \A r \in Requests : OrderInv(r)'
      BY <1>2, <1>10 DEF Holders, Holds, OrderInv
    <2> QED BY <1>1, <1>2, <1>10, <2>1, HarmlessStep
  <1>11. CASE Tick
    <2>1. /\ \A p : Holders(p)' \subseteq Holders(p)
          /\ \A r \in Requests : OrderInv(r)'
      BY <1>2, <1>11 DEF Tick, requestVars, Holders, Holds, OrderInv
    <2>2. /\ UNCHANGED <<providers, renewals>>
          /\ health' = [p \in Providers |-> Later(health[p])]
      BY <1>11 DEF Tick, requestVars
    <2>3. ASSUME NEW p \in Providers
          PROVE  /\ "cooling" \in DOMAIN health'[p]
                 /\ IsDisabled(health'[p]) => IsDisabled(health[p])
      BY <1>2, <2>2, <2>3 DEF Later
    <2> QED BY <1>1, <1>2, <2>1, <2>2, <2>3, HarmlessStep
  <1> QED
    <2>1. ASSUME NEW q \in Requests, Chunk(q)
          PROVE  TurnInv'
      BY <1>10, <2>1 DEF Chunk
    <2>2. CASE UNCHANGED vars
      BY <1>10, <2>2 DEF vars
    <2> QED BY <1>3, <1>4, <1>5, <1>6, <1>7, <1>8, <1>9, <1>11, <2>1, <2>2 DEF Next

(* Failures on a disabled provider, since it was last offered, are fewer   *)
(* than the requests: no request renews its cooldown twice, and the one    *)
(* that disabled it does not (record_failure, the retry loops).            *)
THEOREM RenewalsAreBounded == Spec => []RenewalsBounded
  <1>1. TurnInv => RenewalsBounded
    <2> SUFFICES ASSUME TurnInv, NEW p \in Providers
                 PROVE  renewals[p] <= Cardinality(Requests) - 1
      BY DEF RenewalsBounded
    <2>1. Cardinality(Requests) \in Nat /\ Cardinality(Requests) # 0
      BY RoutingAssumption, FS_CardinalityType, FS_EmptySet
    <2>2. /\ renewals[p] \in Nat
          /\ renewals[p] > 0 =>
               renewals[p] + Cardinality(Holders(p)) <= Cardinality(Requests) - 1
      BY DEF TurnInv, RenewalInv
    <2>3. Cardinality(Holders(p)) \in Nat
      BY HoldersFinite DEF Holders
    <2> QED BY <2>1, <2>2, <2>3
  <1> QED BY TurnStart, TurnStep, <1>1, PTL DEF Spec
-----------------------------------------------------------------------------
(* Powers of two, and what they make of the cooldowns.  What a power is    *)
(* can be counted: the subsets of an interval.                             *)

LEMMA SubsetsCounted ==
  ASSUME NEW n \in Nat
  PROVE  /\ IsFiniteSet(1 .. n) /\ Cardinality(1 .. n) = n
         /\ IsFiniteSet(SUBSET (1 .. n)) /\ Cardinality(SUBSET (1 .. n)) = 2^n
         /\ 2^n \in Nat
  <1>1. IsFiniteSet(1 .. n) /\ Cardinality(1 .. n) = n
    BY FS_Interval
  <1>2. IsFiniteSet(SUBSET (1 .. n)) /\ Cardinality(SUBSET (1 .. n)) = 2^n
    BY <1>1, FS_SUBSET
  <1> QED BY <1>1, <1>2, FS_CardinalityType

LEMMA PowersOfTwo ==
  ASSUME NEW n \in Nat
  PROVE  2^n \in Nat /\ 2^(n + 1) \in Nat /\ 2^n <= 2^(n + 1) /\ n <= 2^n
  <1>1. /\ 2^n \in Nat /\ 2^(n + 1) \in Nat
        /\ IsFiniteSet(SUBSET (1 .. n)) /\ Cardinality(SUBSET (1 .. n)) = 2^n
        /\ IsFiniteSet(SUBSET (1 .. (n + 1)))
        /\ Cardinality(SUBSET (1 .. (n + 1))) = 2^(n + 1)
        /\ Cardinality(1 .. n) = n
    <2>1. n + 1 \in Nat
      OBVIOUS
    <2> QED BY <2>1, SubsetsCounted
  <1>2. 2^n <= 2^(n + 1)
    <2>1. SUBSET (1 .. n) \in SUBSET (SUBSET (1 .. (n + 1)))
      OBVIOUS
    <2> QED BY <1>1, <2>1, FS_Subset
  <1>3. n <= 2^n
    <2> DEFINE single == [k \in 1 .. n |-> {k}]
    <2>1. single \in Injection(1 .. n, SUBSET (1 .. n))
      BY DEF Injection, IsInjective
    <2> HIDE DEF single
    <2>2. Cardinality(1 .. n) <= Cardinality(SUBSET (1 .. n))
      BY <1>1, <2>1, FS_Injection
    <2> QED BY <1>1, <2>2
  <1> QED BY <1>1, <1>2, <1>3

LEMMA LargerProduct ==
  ASSUME NEW a \in Nat, a >= 1, NEW b \in Nat, NEW c \in Nat, b <= c
  PROVE  a * c >= b
  OBVIOUS

LEMMA ProductGrows ==
  ASSUME NEW a \in Nat, NEW b \in Nat, NEW c \in Nat, b <= c
  PROVE  a * b \in Nat /\ a * c \in Nat /\ a * b <= a * c
  OBVIOUS

(* A later demotion is never cooled down for less.                         *)
LEMMA CooldownGrows ==
  ASSUME NEW d \in Nat
  PROVE  Cooldown(d) \in 0 .. MaxCooldown /\ Cooldown(d) <= Cooldown(d + 1)
  <1> DEFINE x == BaseCooldown * 2^d
             y == BaseCooldown * 2^(d + 1)
  <1>1. BaseCooldown \in Nat /\ MaxCooldown \in Nat
    BY ThresholdAssumption
  <1>2. x \in Nat /\ y \in Nat /\ x <= y
    <2>1. 2^d \in Nat /\ 2^(d + 1) \in Nat /\ 2^d <= 2^(d + 1)
      BY PowersOfTwo
    <2> QED BY <1>1, <2>1, ProductGrows
  <1>3. Cooldown(d) = AtMost(x, MaxCooldown) /\ Cooldown(d + 1) = AtMost(y, MaxCooldown)
    BY DEF Cooldown
  <1> HIDE DEF x, y
  <1> QED BY <1>1, <1>2, <1>3 DEF AtMost

LEMMA LeastExists ==
  ASSUME NEW S \in SUBSET Nat, S # {}
  PROVE  \E n \in S : \A m \in S : n <= m
  <1> DEFINE Less == {x \in Nat \X Nat : x[1] < x[2]}
  <1>1. OpToRel(<, Nat) = Less
    BY DEF OpToRel
  <1>2. IsWellFoundedOn(Less, Nat)
    BY <1>1, NatLessThanWellFounded
  <1>3. PICK n \in S : \A m \in S : <<m, n>> \notin Less
    <2> HIDE DEF Less
    <2> QED BY <1>2, WFMin
  <1>4. ASSUME NEW m \in S
        PROVE  n <= m
    <2>1. m \in Nat /\ n \in Nat /\ ~(m < n)
      BY <1>3
    <2> QED BY <2>1
  <1> QED BY <1>4

(* There is a number of demotions at which the maximum is reached.         *)
LEMMA CapReached == DemotionCap \in Nat
  <1> DEFINE S == {n \in 0 .. MaxCooldown : BaseCooldown * 2^n >= MaxCooldown}
  <1>1. MaxCooldown \in Nat /\ BaseCooldown \in Nat /\ BaseCooldown >= 1
    BY ThresholdAssumption
  <1>2. MaxCooldown \in S
    <2>1. 2^MaxCooldown \in Nat /\ MaxCooldown <= 2^MaxCooldown
      BY <1>1, PowersOfTwo
    <2>2. BaseCooldown * 2^MaxCooldown >= MaxCooldown
      BY <1>1, <2>1, LargerProduct
    <2> QED BY <1>1, <2>2
  <1>3. PICK n \in S : \A m \in S : n <= m
    <2>1. S \in SUBSET Nat /\ S # {}
      <3>1. 0 .. MaxCooldown \in SUBSET Nat /\ S \in SUBSET (0 .. MaxCooldown)
        BY <1>1
      <3> HIDE DEF S
      <3> QED BY <1>2, <3>1
    <2> HIDE DEF S
    <2> QED BY <2>1, LeastExists
  <1>4. \A m \in 0 .. n - 1 : BaseCooldown * 2^m < MaxCooldown
    <2> SUFFICES ASSUME NEW m \in 0 .. n - 1
                 PROVE  BaseCooldown * 2^m < MaxCooldown
      OBVIOUS
    <2>1. n \in Nat /\ n <= MaxCooldown
      BY <1>1
    <2>2. m \in Nat /\ m < n /\ m \in 0 .. MaxCooldown
      BY <1>1, <2>1
    <2>3. m \notin S
      BY <1>3, <2>1, <2>2
    <2>4. BaseCooldown * 2^m \in Nat
      <3>1. 2^m \in Nat
        BY <2>2, PowersOfTwo
      <3> QED BY <1>1, <3>1, ProductGrows
    <2> QED BY <1>1, <2>2, <2>3, <2>4
  <1>5. \E k \in 0 .. MaxCooldown :
          /\ BaseCooldown * 2^k >= MaxCooldown
          /\ \A m \in 0 .. k - 1 : BaseCooldown * 2^m < MaxCooldown
    BY <1>3, <1>4
  <1>6. DemotionCap \in 0 .. MaxCooldown
    BY <1>5 DEF DemotionCap
  <1> QED BY <1>1, <1>6
-----------------------------------------------------------------------------
(* The health records: a cooldown is at most the one the next demotion     *)
(* would set, so that setting it anew never brings its end forward.        *)

HealthInv(h) == h \in Health /\ h.cooling <= Cooldown(h.demotions)

LEMMA HealthTyped ==
  ASSUME NEW h \in Health
  PROVE  /\ h.failures \in Nat /\ h.authFailures \in Nat /\ h.broken \in BOOLEAN
         /\ h.cooling \in Nat /\ h.demotions \in Nat
         /\ h.cooling <= MaxCooldown /\ h.demotions <= DemotionCap
  BY CapReached, ThresholdAssumption DEF Health

LEMMA AfterFailureHealth ==
  ASSUME NEW h, HealthInv(h), NEW auth \in BOOLEAN
  PROVE  HealthInv(AfterFailure(h, auth)) /\ AfterFailure(h, auth).cooling >= h.cooling
  <1> DEFINE failed  == AtMost(h.failures + 1, FailureThreshold)
             refused == IF auth THEN AtMost(h.authFailures + 1, AuthThreshold) ELSE 0
             demoted == failed >= FailureThreshold
             cooled  == IF demoted THEN Cooldown(h.demotions) ELSE h.cooling
             further == IF demoted THEN AtMost(h.demotions + 1, DemotionCap) ELSE h.demotions
             broken  == h.broken \/ refused >= AuthThreshold
  <1>1. h \in Health /\ h.cooling <= Cooldown(h.demotions)
    BY DEF HealthInv
  <1>2. /\ h.failures \in Nat /\ h.authFailures \in Nat /\ h.broken \in BOOLEAN
        /\ h.cooling \in Nat /\ h.demotions \in Nat
        /\ h.cooling <= MaxCooldown /\ h.demotions <= DemotionCap
    BY <1>1, HealthTyped
  <1>3. failed \in 0 .. FailureThreshold /\ refused \in 0 .. AuthThreshold
    BY <1>2, ThresholdAssumption DEF AtMost
  <1>4. /\ Cooldown(h.demotions) \in 0 .. MaxCooldown
        /\ Cooldown(h.demotions) <= Cooldown(h.demotions + 1)
        /\ Cooldown(h.demotions + 1) \in 0 .. MaxCooldown
    BY <1>2, CooldownGrows
  <1>5. /\ further \in 0 .. DemotionCap
        /\ demoted => further = h.demotions \/ further = h.demotions + 1
    BY <1>2, CapReached DEF AtMost
  <1>6. cooled \in 0 .. MaxCooldown /\ cooled >= h.cooling /\ cooled <= Cooldown(further)
    <2>1. MaxCooldown \in Nat
      BY ThresholdAssumption
    <2>2. CASE demoted
      <3>1. cooled = Cooldown(h.demotions)
        BY <2>2
      <3>2. CASE further = h.demotions
        BY <1>1, <1>2, <1>4, <2>1, <3>1, <3>2
      <3>3. CASE further = h.demotions + 1
        BY <1>1, <1>2, <1>4, <2>1, <3>1, <3>3
      <3> QED BY <1>5, <2>2, <3>2, <3>3
    <2>3. CASE ~demoted
      <3>1. cooled = h.cooling /\ further = h.demotions
        BY <2>3
      <3> QED BY <1>1, <1>2, <2>1, <3>1
    <2> QED BY <2>2, <2>3
  <1>7. broken \in BOOLEAN
    BY <1>2
  <1>8. AfterFailure(h, auth) = [failures |-> failed, authFailures |-> refused,
                                 broken |-> broken, cooling |-> cooled,
                                 demotions |-> further]
    BY DEF AfterFailure
  <1> HIDE DEF failed, refused, cooled, further, broken
  <1>9. AfterFailure(h, auth) \in Health
    BY <1>3, <1>5, <1>6, <1>7, <1>8 DEF Health
  <1>10. /\ AfterFailure(h, auth).cooling = cooled
         /\ AfterFailure(h, auth).demotions = further
    BY <1>8
  <1> QED BY <1>6, <1>9, <1>10 DEF HealthInv

LEMMA AfterSuccessHealth ==
  ASSUME NEW h, HealthInv(h)
  PROVE  HealthInv(AfterSuccess(h)) /\ AfterSuccess(h).cooling = h.cooling
  <1>1. h \in Health /\ h.cooling <= Cooldown(h.demotions)
    BY DEF HealthInv
  <1>2. /\ AfterSuccess(h) \in Health
        /\ AfterSuccess(h).cooling = h.cooling
        /\ AfterSuccess(h).demotions = h.demotions
    <2>1. 0 \in 0 .. FailureThreshold /\ 0 \in 0 .. AuthThreshold
      BY ThresholdAssumption
    <2> QED BY <1>1, <2>1 DEF Health, AfterSuccess
  <1> QED BY <1>1, <1>2 DEF HealthInv

LEMMA LaterHealth ==
  ASSUME NEW h, HealthInv(h)
  PROVE  HealthInv(Later(h)) /\ Later(h).cooling + 1 >= h.cooling
  <1>1. h \in Health /\ h.cooling <= Cooldown(h.demotions)
    BY DEF HealthInv
  <1>2. /\ h.cooling \in Nat /\ h.cooling <= MaxCooldown /\ h.demotions \in Nat
        /\ MaxCooldown \in Nat
    BY <1>1, HealthTyped, ThresholdAssumption
  <1>3. Cooldown(h.demotions) \in Nat
    BY <1>2, CooldownGrows
  <1>4. CASE IsDisabled(h)
    <2>1. Later(h) = [h EXCEPT !.cooling = h.cooling - 1]
      BY <1>4 DEF Later
    <2>2. h.cooling - 1 \in 0 .. MaxCooldown
      BY <1>2, <1>4 DEF IsDisabled
    <2>3. /\ Later(h) \in Health
          /\ Later(h).cooling = h.cooling - 1 /\ Later(h).demotions = h.demotions
      BY <1>1, <2>1, <2>2 DEF Health
    <2> QED BY <1>1, <1>2, <1>3, <2>3 DEF HealthInv
  <1>5. CASE ~IsDisabled(h)
    <2>1. Later(h) = h
      BY <1>5 DEF Later
    <2> QED BY <1>2, <2>1
  <1> QED BY <1>4, <1>5

LEMMA NeutralHealth == HealthInv(Neutral)
  <1>1. Cooldown(0) \in 0 .. MaxCooldown
    BY CooldownGrows
  <1>2. Neutral \in Health
    BY CapReached, ThresholdAssumption DEF Neutral, Health
  <1>3. Neutral.cooling = 0 /\ Neutral.demotions = 0
    BY DEF Neutral
  <1> QED BY <1>1, <1>2, <1>3, ThresholdAssumption DEF HealthInv

HealthyRecords ==
  /\ DOMAIN health = Providers
  /\ health = [p \in Providers |-> health[p]]
  /\ \A p \in Providers : HealthInv(health[p])

NotForward == \A p \in Providers : health'[p].cooling + 1 >= health[p].cooling

LEMMA SuccessKeepsHealth ==
  ASSUME HealthyRecords, NEW x, Succeeded(x)
  PROVE  HealthyRecords' /\ NotForward
  <1>1. ASSUME NEW p \in Providers
        PROVE  HealthInv(health'[p]) /\ health'[p].cooling = health[p].cooling
    <2>1. health'[p] = health[p] \/ health'[p] = AfterSuccess(health[p])
      BY DEF HealthyRecords, Succeeded
    <2> QED BY <2>1, AfterSuccessHealth DEF HealthyRecords
  <1>2. ASSUME NEW p \in Providers
        PROVE  health[p].cooling \in Nat
    BY HealthTyped DEF HealthyRecords, HealthInv
  <1>3. /\ DOMAIN health' = Providers
        /\ health' = [p \in Providers |-> health'[p]]
    BY DEF HealthyRecords, Succeeded
  <1>4. NotForward
    BY <1>1, <1>2 DEF NotForward
  <1> QED BY <1>1, <1>3, <1>4 DEF HealthyRecords

LEMMA FailureKeepsHealth ==
  ASSUME HealthyRecords, NEW h, DOMAIN h = Providers,
         \A p \in Providers : HealthInv(h[p]) /\ h[p].cooling = health[p].cooling,
         NEW x, NEW auth \in BOOLEAN,
         health' = [h EXCEPT ![x] = AfterFailure(@, auth)]
  PROVE  HealthyRecords' /\ NotForward
  <1>1. ASSUME NEW p \in Providers
        PROVE  HealthInv(health'[p]) /\ health'[p].cooling + 1 >= health[p].cooling
    <2>1. health'[p] = h[p] \/ health'[p] = AfterFailure(h[p], auth)
      OBVIOUS
    <2>2. HealthInv(health'[p]) /\ health'[p].cooling >= health[p].cooling
      <3>1. CASE health'[p] = h[p]
        <4>1. health[p].cooling \in Nat
          BY HealthTyped DEF HealthyRecords, HealthInv
        <4> QED BY <3>1, <4>1
      <3>2. CASE health'[p] = AfterFailure(h[p], auth)
        BY <3>2, AfterFailureHealth
      <3> QED BY <2>1, <3>1, <3>2
    <2>3. health'[p].cooling \in Nat /\ health[p].cooling \in Nat
      BY <2>2, HealthTyped DEF HealthyRecords, HealthInv
    <2> QED BY <2>2, <2>3
  <1> QED BY <1>1 DEF HealthyRecords, NotForward

LEMMA SameHealth ==
  ASSUME HealthyRecords, UNCHANGED health
  PROVE  HealthyRecords' /\ NotForward
  <1>1. ASSUME NEW p \in Providers
        PROVE  health[p].cooling \in Nat
    BY HealthTyped DEF HealthyRecords, HealthInv
  <1> QED BY <1>1 DEF HealthyRecords, NotForward

LEMMA HealthStep ==
  ASSUME HealthyRecords, [Next]_vars
  PROVE  HealthyRecords' /\ NotForward
  <1>1. ASSUME NEW q \in Requests, Answered(q) \/ UnreadableQuery(q)
        PROVE  HealthyRecords' /\ NotForward
    <2>1. PICK x : Succeeded(x)
      BY <1>1 DEF Answered, UnreadableQuery
    <2> QED BY <2>1, SuccessKeepsHealth
  <1>2. ASSUME NEW q \in Requests, UnreadableChat(q)
        PROVE  HealthyRecords' /\ NotForward
    <2> DEFINE h == [health EXCEPT ![served[q]] = AfterSuccess(@)]
    <2>1. health' = [h EXCEPT ![Trying(q)] = AfterFailure(@, FALSE)]
      BY <1>2 DEF UnreadableChat
    <2>2. DOMAIN h = Providers
      BY DEF HealthyRecords
    <2>3. ASSUME NEW p \in Providers
          PROVE  HealthInv(h[p]) /\ h[p].cooling = health[p].cooling
      <3>1. h[p] = health[p] \/ h[p] = AfterSuccess(health[p])
        BY DEF HealthyRecords
      <3> HIDE DEF h
      <3> QED BY <3>1, AfterSuccessHealth DEF HealthyRecords
    <2> HIDE DEF h
    <2> QED BY <2>1, <2>2, <2>3, FailureKeepsHealth
  <1>3. ASSUME NEW q \in Requests, Retry(q) \/ Broken(q)
        PROVE  HealthyRecords' /\ NotForward
    <2>1. PICK auth \in BOOLEAN : Failed(Trying(q), auth)
      BY <1>3 DEF Retry, Broken
    <2>2. health' = [health EXCEPT ![Trying(q)] = AfterFailure(@, auth)]
      BY <2>1 DEF Failed
    <2>3. /\ DOMAIN health = Providers
          /\ \A p \in Providers : HealthInv(health[p]) /\ health[p].cooling = health[p].cooling
      BY DEF HealthyRecords
    <2> QED BY <2>2, <2>3, FailureKeepsHealth
  <1>4. CASE Tick
    <2>1. health' = [p \in Providers |-> Later(health[p])]
      BY <1>4 DEF Tick
    <2>2. ASSUME NEW p \in Providers
          PROVE  HealthInv(health'[p]) /\ health'[p].cooling + 1 >= health[p].cooling
      BY <2>1, LaterHealth DEF HealthyRecords
    <2>3. DOMAIN health' = Providers /\ health' = [p \in Providers |-> health'[p]]
      BY <2>1
    <2> QED BY <2>2, <2>3 DEF HealthyRecords, NotForward
  <1>5. CASE UNCHANGED health
    BY <1>5, SameHealth
  <1>6. ASSUME NEW q \in Requests,
               Arrive(q) \/ Call(q) \/ Exhausted(q) \/ Abandoned(q) \/ Chunk(q)
        PROVE  UNCHANGED health
    BY <1>6 DEF Arrive, Call, Exhausted, Abandoned, Chunk
  <1> QED BY <1>1, <1>2, <1>3, <1>4, <1>5, <1>6 DEF Next, vars

LEMMA HealthStart ==
  ASSUME Init
  PROVE  HealthyRecords
  BY NeutralHealth DEF Init, HealthyRecords

(* Neither a late failure nor a success brings the end of a cooldown       *)
(* forward (record_failure, record_success): only time ends it.            *)
THEOREM CooldownsRunOff == Spec => CooldownRunsOff
  <1>1. HealthyRecords /\ [Next]_vars =>
          [\A p \in Providers : health'[p].cooling + 1 >= health[p].cooling]_vars
    BY HealthStep DEF NotForward
  <1>2. HealthyRecords /\ [Next]_vars => HealthyRecords'
    BY HealthStep
  <1> QED BY HealthStart, <1>1, <1>2, PTL DEF Spec, CooldownRunsOff
-----------------------------------------------------------------------------
(* Where a request is in its order, and what its stream holds.             *)

Turns == 1 .. Cardinality(Providers)

NamesTurns(s) == \A i \in DOMAIN s : s[i] \in Turns

PlaceInv(q) ==
  /\ providers[q] \in UNION {SetToSeqs(S) : S \in SUBSET Providers}
  /\ turn[q] <= Len(providers[q]) + 1
  /\ pc[q] = "idle" => turn[q] = 1
  /\ received[q] <= MaxChunks
  /\ NamesTurns(buffer[q])
  /\ NamesTurns(out[q])

Tabled ==
  /\ renewals = [p \in Providers |-> renewals[p]]
  /\ providers = [q \in Requests |-> providers[q]]

PlacesInv ==
  /\ TurnInv
  /\ Tabled
  /\ HealthyRecords
  /\ served \in [Requests -> Providers \union {NoProvider}]
  /\ \A q \in Requests : PlaceInv(q)

LEMMA AnOrder ==
  ASSUME NEW S \in SUBSET Providers, NEW order \in SetToSeqs(S)
  PROVE  /\ order \in UNION {SetToSeqs(T) : T \in SUBSET Providers}
         /\ Len(order) = Cardinality(S)
         /\ Cardinality(S) \in Nat /\ Cardinality(Providers) \in Nat
         /\ Len(order) <= Cardinality(Providers)
  <1>1. /\ Cardinality(S) \in Nat /\ Cardinality(Providers) \in Nat
        /\ Cardinality(S) <= Cardinality(Providers)
    BY RoutingAssumption, FS_Subset, FS_CardinalityType
  <1>2. Len(order) = Cardinality(S)
    <2> DEFINE n == Cardinality(S)
    <2>1. n \in Nat /\ order \in [1 .. n -> S]
      BY <1>1 DEF SetToSeqs
    <2> HIDE DEF n
    <2>2. Len(order) = n
      BY <2>1, SeqDef
    <2> QED BY <2>2 DEF n
  <1> QED BY <1>1, <1>2

LEMMA NoOrder ==
  /\ <<>> \in UNION {SetToSeqs(T) : T \in SUBSET Providers}
  /\ Len(<<>>) = 0
  <1>1. Cardinality({}) = 0
    BY FS_EmptySet
  <1>2. <<>> \in SetToSeqs({})
    BY <1>1 DEF SetToSeqs
  <1> QED BY <1>2

(* The turns of an order have the numbers of the providers.                *)
LEMMA TurnsInOrder ==
  ASSUME PlacesInv, NEW q \in Requests
  PROVE  /\ Cardinality(Providers) \in Nat
         /\ Len(providers[q]) \in 0 .. Cardinality(Providers)
         /\ turn[q] \in 1 .. Len(providers[q]) + 1
         /\ pc[q] = "calling" => turn[q] \in Turns /\ turn[q] + 1 <= Len(providers[q]) + 1
  <1>1. PICK S \in SUBSET Providers : providers[q] \in SetToSeqs(S)
    BY DEF PlacesInv, PlaceInv
  <1>2. /\ Cardinality(Providers) \in Nat
        /\ Len(providers[q]) \in Nat /\ Len(providers[q]) <= Cardinality(Providers)
    BY <1>1, AnOrder
  <1>3. turn[q] \in Nat /\ turn[q] > 0 /\ turn[q] <= Len(providers[q]) + 1
    BY DEF PlacesInv, PlaceInv, TurnInv, OrderInv, VoiceInv, RequestTypes
  <1>4. pc[q] = "calling" => turn[q] \in 1 .. Len(providers[q])
    BY DEF PlacesInv, TurnInv, OrderInv
  <1> QED BY <1>2, <1>3, <1>4 DEF Turns

LEMMA MoreTurns ==
  ASSUME NEW s \in Seq(Nat), NEW r \in Seq(Nat), NamesTurns(s), NamesTurns(r)
  PROVE  NamesTurns(s \o r)
  BY DEF NamesTurns

LEMMA OneMoreTurn ==
  ASSUME NEW s \in Seq(Nat), NEW t \in Nat, NamesTurns(s), t \in Turns
  PROVE  NamesTurns(Append(s, t)) /\ Append(s, t) \in Seq(Nat)
  BY DEF NamesTurns

LEMMA PartsOfSum ==
  ASSUME NEW a \in Nat, NEW b \in Nat, NEW c \in Nat, NEW m \in Nat, a + b = c, c <= m
  PROVE  a <= m /\ b <= m
  OBVIOUS

LEMMA NoTurns == NamesTurns(<<>>)
  BY DEF NamesTurns

LEMMA PlacesStart ==
  ASSUME Init
  PROVE  PlacesInv
  <1>1. ASSUME NEW q \in Requests
        PROVE  PlaceInv(q)
    <2>1. /\ providers[q] = <<>> /\ turn[q] = 1 /\ received[q] = 0
          /\ buffer[q] = <<>> /\ out[q] = <<>>
      BY DEF Init
    <2>2. 1 <= 0 + 1 /\ 0 <= MaxChunks
      BY RoutingAssumption
    <2> QED BY <2>1, <2>2, NoOrder, NoTurns DEF PlaceInv
  <1>2. served \in [Requests -> Providers \union {NoProvider}] /\ Tabled
    BY DEF Init, Tabled
  <1> QED BY <1>1, <1>2, TurnStart, HealthStart DEF PlacesInv

LEMMA TablesStep ==
  ASSUME Tabled, [Next]_vars
  PROVE  Tabled'
  <1>1. CASE UNCHANGED renewals
    <2>1. ASSUME NEW q \in Requests, NextTurn(q) \/ Leave(q) \/ Call(q) \/ Chunk(q)
          PROVE  Tabled'
      BY <1>1, <2>1 DEF Tabled, NextTurn, Leave, Call, Chunk
    <2>2. CASE Tick \/ UNCHANGED vars
      BY <2>2 DEF Tabled, Tick, requestVars, vars
    <2>3. ASSUME NEW q \in Requests, Arrive(q)
          PROVE  Tabled'
      BY <1>1, <2>3 DEF Tabled, Arrive
    <2> QED BY <2>1, <2>2, <2>3
         DEF Next, Exhausted, Abandoned, Fails, Answered, UnreadableQuery, UnreadableChat,
             Retry, Broken
  <1>2. ASSUME NEW q \in Requests, Arrive(q)
        PROVE  Tabled'
    BY <1>2 DEF Tabled, Arrive
  <1>3. ASSUME NEW q \in Requests, NEW x, Renewed(x), NextTurn(q) \/ Leave(q)
        PROVE  Tabled'
    <2>1. (renewals = [p \in Providers |-> renewals[p]])'
      BY <1>3 DEF Tabled, Renewed
    <2>2. (providers = [r \in Requests |-> providers[r]])'
      BY <1>3 DEF Tabled, NextTurn, Leave
    <2> QED BY <2>1, <2>2 DEF Tabled
  <1>4. ASSUME NEW q \in Requests, UnreadableChat(q) \/ Retry(q) \/ Broken(q)
        PROVE  Tabled'
    BY <1>3, <1>4 DEF UnreadableChat, Retry, Broken, Failed, Fails
  <1>5. \/ UNCHANGED renewals
        \/ \E q \in Requests : Arrive(q) \/ UnreadableChat(q) \/ Retry(q) \/ Broken(q)
    BY DEF Next, vars, Call, Exhausted, Answered, UnreadableQuery, Abandoned, Chunk, Tick
  <1> QED BY <1>1, <1>2, <1>4, <1>5

(* The one request that moves decides.                                     *)
LEMMA PlaceMoves ==
  ASSUME PlacesInv, [Next]_vars,
         NEW q \in Requests, PlaceInv(q)',
         served' \in [Requests -> Providers \union {NoProvider}],
         \A r \in Requests \ {q} :
           /\ pc'[r] = pc[r]
           /\ providers'[r] = providers[r] /\ turn'[r] = turn[r]
           /\ received'[r] = received[r]
           /\ buffer'[r] = buffer[r] /\ out'[r] = out[r]
  PROVE  PlacesInv'
  <1>1. TurnInv' /\ HealthyRecords' /\ Tabled'
    BY TurnStep, HealthStep, TablesStep DEF PlacesInv
  <1>2. ASSUME NEW r \in Requests \ {q}
        PROVE  PlaceInv(r)'
    BY <1>2 DEF PlacesInv, PlaceInv
  <1> QED BY <1>1, <1>2 DEF PlacesInv

LEMMA PlaceFields ==
  ASSUME PlacesInv
  PROVE  /\ DOMAIN pc = Requests /\ DOMAIN providers = Requests /\ DOMAIN turn = Requests
         /\ DOMAIN received = Requests /\ DOMAIN buffer = Requests
         /\ DOMAIN out = Requests /\ DOMAIN served = Requests
         /\ \A q \in Requests :
              /\ out[q] \in Seq(Nat) /\ buffer[q] \in Seq(Nat)
              /\ received[q] \in Nat
              /\ PlaceInv(q)
  BY DEF PlacesInv, TurnInv, RecordTypes, VoiceInv, RequestTypes

LEMMA PlaceTurn ==
  ASSUME PlacesInv, [Next]_vars, NEW q \in Requests, NextTurn(q), pc[q] = "calling"
  PROVE  PlacesInv'
  <1>1. /\ providers' = providers /\ out' = out
        /\ turn' = [turn EXCEPT ![q] = turn[q] + 1]
        /\ received' = [received EXCEPT ![q] = 0]
        /\ buffer' = [buffer EXCEPT ![q] = <<>>]
        /\ served' = [served EXCEPT ![q] = NoProvider]
        /\ pc' = [pc EXCEPT ![q] = "ready"]
    BY DEF NextTurn
  <1>2. PlaceInv(q)'
    <2>1. /\ pc'[q] = "ready" /\ turn'[q] = turn[q] + 1 /\ received'[q] = 0 /\ buffer'[q] = <<>>
      BY <1>1, PlaceFields
    <2>2. turn[q] + 1 <= Len(providers[q]) + 1 /\ 0 <= MaxChunks
      BY TurnsInOrder, RoutingAssumption
    <2> QED BY <1>1, <2>1, <2>2, PlaceFields, NoTurns DEF PlaceInv
  <1>3. served' \in [Requests -> Providers \union {NoProvider}]
    BY <1>1 DEF PlacesInv
  <1>4. \A r \in Requests \ {q} :
          /\ pc'[r] = pc[r]
          /\ providers'[r] = providers[r] /\ turn'[r] = turn[r]
          /\ received'[r] = received[r]
          /\ buffer'[r] = buffer[r] /\ out'[r] = out[r]
    BY <1>1, PlaceFields
  <1> QED BY <1>2, <1>3, <1>4, PlaceMoves

(* A request that leaves, with what is left of it.                         *)
LEMMA PlaceLeaves ==
  ASSUME PlacesInv, [Next]_vars, NEW q \in Requests, Leave(q),
         NEW n \in 0 .. MaxChunks, NEW told, NamesTurns(told),
         received' = [received EXCEPT ![q] = n],
         out' = [out EXCEPT ![q] = told]
  PROVE  PlacesInv'
  <1>1. /\ providers' = [providers EXCEPT ![q] = <<>>]
        /\ turn' = [turn EXCEPT ![q] = 1]
        /\ buffer' = [buffer EXCEPT ![q] = <<>>]
        /\ served' = [served EXCEPT ![q] = NoProvider]
        /\ pc' = [pc EXCEPT ![q] = "idle"]
    BY DEF Leave
  <1>2. PlaceInv(q)'
    <2>1. /\ providers'[q] = <<>> /\ turn'[q] = 1 /\ received'[q] = n
          /\ buffer'[q] = <<>> /\ out'[q] = told
      BY <1>1, PlaceFields
    <2>2. 1 <= 0 + 1 /\ n <= MaxChunks
      BY RoutingAssumption
    <2> QED BY <2>1, <2>2, NoOrder, NoTurns DEF PlaceInv
  <1>3. served' \in [Requests -> Providers \union {NoProvider}]
    BY <1>1 DEF PlacesInv
  <1>4. \A r \in Requests \ {q} :
          /\ pc'[r] = pc[r]
          /\ providers'[r] = providers[r] /\ turn'[r] = turn[r]
          /\ received'[r] = received[r]
          /\ buffer'[r] = buffer[r] /\ out'[r] = out[r]
    BY <1>1, PlaceFields
  <1> QED BY <1>2, <1>3, <1>4, PlaceMoves

LEMMA PlaceArrives ==
  ASSUME PlacesInv, [Next]_vars, NEW q \in Requests, Arrive(q)
  PROVE  PlacesInv'
  <1>1. PICK order \in SetToSeqs(Offered) : providers' = [providers EXCEPT ![q] = order]
    BY DEF Arrive, ProviderOrders
  <1>2. /\ received' = [received EXCEPT ![q] = 0]
        /\ out' = [out EXCEPT ![q] = <<>>]
        /\ UNCHANGED <<turn, served, buffer>>
        /\ pc[q] = "idle" /\ pc' = [pc EXCEPT ![q] = "ready"]
    BY DEF Arrive
  <1>3. /\ order \in UNION {SetToSeqs(T) : T \in SUBSET Providers}
        /\ Len(order) \in Nat
    <2>1. Offered \in SUBSET Providers
      BY DEF Offered
    <2> QED BY <1>1, <2>1, AnOrder
  <1>4. PlaceInv(q)'
    <2>1. /\ providers'[q] = order /\ received'[q] = 0 /\ out'[q] = <<>>
          /\ turn'[q] = turn[q] /\ buffer'[q] = buffer[q]
      BY <1>1, <1>2, PlaceFields
    <2>2. turn[q] = 1
      BY <1>2 DEF PlacesInv, PlaceInv
    <2>3. 1 <= Len(order) + 1 /\ 0 <= MaxChunks
      BY <1>3, RoutingAssumption
    <2> QED BY <1>3, <2>1, <2>2, <2>3, PlaceFields, NoTurns DEF PlaceInv
  <1>5. served' \in [Requests -> Providers \union {NoProvider}]
    BY <1>2 DEF PlacesInv
  <1>6. \A r \in Requests \ {q} :
          /\ pc'[r] = pc[r]
          /\ providers'[r] = providers[r] /\ turn'[r] = turn[r]
          /\ received'[r] = received[r]
          /\ buffer'[r] = buffer[r] /\ out'[r] = out[r]
    BY <1>1, <1>2, PlaceFields
  <1> QED BY <1>4, <1>5, <1>6, PlaceMoves

(* A chunk of the turn that is under way.                                  *)
LEMMA PlaceChunk ==
  ASSUME PlacesInv, [Next]_vars, NEW q \in Requests, Chunk(q)
  PROVE  PlacesInv'
  <1> DEFINE held == Append(buffer[q], turn[q])
  <1>1. /\ pc[q] = "calling" /\ received[q] < MaxChunks
        /\ received' = [received EXCEPT ![q] = received[q] + 1]
        /\ UNCHANGED <<pc, providers, turn, served>>
        /\ \/ /\ out' = [out EXCEPT ![q] = out[q] \o held]
              /\ buffer' = [buffer EXCEPT ![q] = <<>>]
           \/ /\ buffer' = [buffer EXCEPT ![q] = held]
              /\ UNCHANGED out
    BY DEF Chunk
  <1>2. NamesTurns(held) /\ held \in Seq(Nat)
    <2>1. turn[q] \in Nat /\ turn[q] \in Turns
      BY <1>1, TurnsInOrder DEF Turns
    <2> QED BY <2>1, PlaceFields, OneMoreTurn DEF PlaceInv
  <1>3. NamesTurns(out[q] \o held)
    BY <1>2, PlaceFields, MoreTurns DEF PlaceInv
  <1>4. received[q] + 1 <= MaxChunks
    BY <1>1, PlaceFields, RoutingAssumption
  <1> HIDE DEF held
  <1>5. PlaceInv(q)'
    <2>1. received'[q] = received[q] + 1
      BY <1>1, PlaceFields
    <2>2. NamesTurns(buffer'[q]) /\ NamesTurns(out'[q])
      <3>1. buffer'[q] \in {<<>>, held, buffer[q]} /\ out'[q] \in {out[q] \o held, out[q]}
        BY <1>1, PlaceFields
      <3> QED BY <1>2, <1>3, <3>1, NoTurns, PlaceFields DEF PlaceInv
    <2> QED BY <1>1, <1>4, <2>1, <2>2, PlaceFields DEF PlaceInv
  <1>6. served' \in [Requests -> Providers \union {NoProvider}]
    BY <1>1 DEF PlacesInv
  <1>7. \A r \in Requests \ {q} :
          /\ pc'[r] = pc[r]
          /\ providers'[r] = providers[r] /\ turn'[r] = turn[r]
          /\ received'[r] = received[r]
          /\ buffer'[r] = buffer[r] /\ out'[r] = out[r]
    BY <1>1, PlaceFields
  <1> QED BY <1>5, <1>6, <1>7, PlaceMoves

LEMMA PlaceStep ==
  ASSUME PlacesInv, [Next]_vars
  PROVE  PlacesInv'
  <1>1. \A q \in Requests : /\ received[q] \in 0 .. MaxChunks
                            /\ NamesTurns(out[q]) /\ NamesTurns(buffer[q])
    BY PlaceFields, RoutingAssumption DEF PlaceInv
  <1>2. 0 \in 0 .. MaxChunks
    BY RoutingAssumption
  <1>3. ASSUME NEW q \in Requests, Arrive(q)
        PROVE  PlacesInv'
    BY <1>3, PlaceArrives
  <1>4. ASSUME NEW q \in Requests, Call(q)
        PROVE  PlacesInv'
    <2>1. /\ UNCHANGED <<providers, turn, received, buffer, out>>
          /\ pc' = [pc EXCEPT ![q] = "calling"] /\ pc[q] = "ready"
      BY <1>4 DEF Call
    <2>2. served' \in [Requests -> Providers \union {NoProvider}]
      <3>1. PICK p \in Deployed : served' = [served EXCEPT ![q] = p]
        BY <1>4 DEF Call
      <3>2. p \in Providers
        BY RoutingAssumption
      <3> QED BY <3>1, <3>2 DEF PlacesInv
    <2>3. PlaceInv(q)'
      BY <2>1, PlaceFields DEF PlaceInv, PlacesInv, TurnInv, VoiceInv, RequestTypes
    <2>4. \A r \in Requests \ {q} : pc'[r] = pc[r]
      BY <2>1, PlaceFields
    <2> QED BY <2>1, <2>2, <2>3, <2>4, PlaceMoves
  <1>5. ASSUME NEW q \in Requests, Exhausted(q) \/ Broken(q) \/ Abandoned(q)
        PROVE  PlacesInv'
    <2>1. Fails(q)
      BY <1>5 DEF Exhausted, Broken, Abandoned
    <2> QED BY <1>2, <2>1, PlaceLeaves, NoTurns DEF Fails
  <1>6. ASSUME NEW q \in Requests, Answered(q)
        PROVE  PlacesInv'
    <2>1. /\ Leave(q) /\ out' = [out EXCEPT ![q] = out[q] \o buffer[q]]
          /\ UNCHANGED received
      BY <1>6 DEF Answered
    <2>2. received' = [received EXCEPT ![q] = received[q]]
      BY <2>1 DEF PlacesInv, TurnInv, VoiceInv, RequestTypes
    <2>3. NamesTurns(out[q] \o buffer[q])
      BY <1>1, PlaceFields, MoreTurns
    <2> QED BY <1>1, <2>1, <2>2, <2>3, PlaceLeaves
  <1>7. ASSUME NEW q \in Requests, UnreadableQuery(q) \/ UnreadableChat(q) \/ Retry(q)
        PROVE  PlacesInv'
    <2>1. pc[q] = "calling" /\ NextTurn(q)
      BY <1>7 DEF UnreadableQuery, UnreadableChat, Retry
    <2> QED BY <2>1, PlaceTurn
  <1>8. ASSUME NEW q \in Requests, Chunk(q)
        PROVE  PlacesInv'
    BY <1>8, PlaceChunk
  <1>9. CASE Tick \/ UNCHANGED vars
    <2>1. UNCHANGED requestVars
      BY <1>9 DEF Tick, vars, requestVars
    <2>2. TurnInv' /\ HealthyRecords' /\ Tabled'
      BY TurnStep, HealthStep, TablesStep DEF PlacesInv
    <2>3. ASSUME NEW r \in Requests
          PROVE  PlaceInv(r)'
      BY <2>1, <2>3 DEF requestVars, PlacesInv, PlaceInv
    <2>4. (served \in [Requests -> Providers \union {NoProvider}])'
      BY <2>1 DEF requestVars, PlacesInv
    <2> QED BY <2>2, <2>3, <2>4 DEF PlacesInv
  <1> QED BY <1>3, <1>4, <1>5, <1>6, <1>7, <1>8, <1>9 DEF Next

(* The router's state is one the code can be in: an order names healthy    *)
(* providers once each, a place in it is within it or just behind it, no   *)
(* chunk is of another turn than its numbers, and the health counters stay *)
(* within their thresholds (HealthTracker, the retry loops).               *)
THEOREM RoutingTypes == Spec => []TypeOK
  <1>1. PlacesInv => TypeOK
    <2> SUFFICES ASSUME PlacesInv
                 PROVE  TypeOK
      OBVIOUS
    <2>1. health \in [Providers -> Health]
      <3>1. health = [p \in Providers |-> health[p]]
        BY DEF PlacesInv, HealthyRecords
      <3> QED BY <3>1 DEF PlacesInv, HealthyRecords, HealthInv
    <2>2. /\ pc \in [Requests -> {"idle", "ready", "calling"}]
          /\ kind \in [Requests -> {"none", "query", "chat", "stream"}]
          /\ committed \in [Requests -> BOOLEAN]
      BY RoutingAssumption DEF PlacesInv, TurnInv, VoiceInv, RequestTypes
    <2>3. turn \in [Requests -> 1 .. Cardinality(Providers) + 1]
      <3>1. ASSUME NEW q \in Requests
            PROVE  turn[q] \in 1 .. Cardinality(Providers) + 1
        BY <3>1, TurnsInOrder
      <3> QED BY <3>1 DEF PlacesInv, TurnInv, VoiceInv, RequestTypes
    <2>4. received \in [Requests -> 0 .. MaxChunks]
      <3>1. ASSUME NEW q \in Requests
            PROVE  received[q] \in 0 .. MaxChunks
        BY <3>1, PlaceFields, RoutingAssumption DEF PlaceInv
      <3> QED BY <3>1 DEF PlacesInv, TurnInv, VoiceInv, RequestTypes
    <2>5. ASSUME NEW q \in Requests, NEW s \in {buffer[q], out[q]}
          PROVE  Len(s) <= MaxChunks /\ \A i \in DOMAIN s : s[i] \in 1 .. Cardinality(Providers)
      <3>1. NamesTurns(s)
        BY PlaceFields DEF PlaceInv
      <3>2. Len(out[q]) \in Nat /\ Len(buffer[q]) \in Nat
        BY PlaceFields
      <3>3. received[q] \in Nat /\ received[q] <= MaxChunks /\ MaxChunks \in Nat
        BY PlaceFields, RoutingAssumption DEF PlaceInv
      <3>4. CASE pc[q] # "ready"
        <4>1. Len(out[q]) + Len(buffer[q]) = received[q]
          BY <3>4 DEF PlacesInv, TurnInv, VoiceInv, StreamInv
        <4>2. Len(out[q]) <= MaxChunks /\ Len(buffer[q]) <= MaxChunks
          BY <3>2, <3>3, <4>1, PartsOfSum
        <4> QED BY <3>1, <4>2 DEF NamesTurns, Turns
      <3>5. CASE pc[q] = "ready"
        <4>1. out[q] = <<>> /\ buffer[q] = <<>>
          BY <3>5 DEF PlacesInv, TurnInv, VoiceInv, StreamInv
        <4> QED BY <3>1, <3>3, <4>1, NoChunks DEF NamesTurns, Turns
      <3> QED BY <3>4, <3>5
    <2>6. renewals \in [Providers -> 0 .. Cardinality(Requests)]
      <3>1. ASSUME NEW p \in Providers
            PROVE  renewals[p] \in 0 .. Cardinality(Requests)
        <4>1. Cardinality(Holders(p)) \in Nat /\ Cardinality(Requests) \in Nat
          BY HoldersFinite DEF Holders
        <4>2. /\ renewals[p] \in Nat
              /\ renewals[p] + Cardinality(Holders(p)) <= Cardinality(Requests)
          BY <3>1 DEF PlacesInv, TurnInv, RenewalInv
        <4> QED BY <4>1, <4>2
      <3> QED
        <4>1. renewals = [p \in Providers |-> renewals[p]]
          BY DEF PlacesInv, Tabled
        <4> QED BY <3>1, <4>1
    <2>7. providers \in [Requests -> UNION {SetToSeqs(S) : S \in SUBSET Providers}]
      <3>1. providers = [q \in Requests |-> providers[q]]
        BY DEF PlacesInv, Tabled
      <3> QED BY <3>1, PlaceFields DEF PlaceInv
    <2>8. served \in [Requests -> Providers \union {NoProvider}]
      BY DEF PlacesInv
    <2> QED BY <2>1, <2>2, <2>3, <2>4, <2>5, <2>6, <2>7, <2>8 DEF TypeOK
  <1> QED BY PlacesStart, PlaceStep, <1>1, PTL DEF Spec
-----------------------------------------------------------------------------
(* What Recovers rests on besides the fairness of time.                    *)

(* The time after which a disabled provider is offered again at the latest:*)
(* what is left of its cooldown, and a whole one for each renewal that the *)
(* requests under way are still good for.                                  *)
TimeLeft(p) ==
  health[p].cooling + MaxCooldown * ((Cardinality(Requests) - 1) - renewals[p])

(* No step but a tick's changes that time to more, and a tick takes one    *)
(* off it, so a disabled provider is out for at most as many of the        *)
(* longest cooldowns as there are requests (record_failure, get_sorted).   *)
RecoveryNears ==
  [][\A p \in Providers : IsDisabled(health[p]) =>
       /\ TimeLeft(p)' <= TimeLeft(p)
       /\ Tick => TimeLeft(p)' < TimeLeft(p)]_vars

OutForAWhile == \A p \in Providers : TimeLeft(p) \in 0 .. MaxCooldown * Cardinality(Requests)

RecoveryInv == TurnInv /\ HealthyRecords

LEMMA RequestsCounted == Cardinality(Requests) \in Nat /\ Cardinality(Requests) > 0
  BY RoutingAssumption, FS_CardinalityType, FS_EmptySet

LEMMA RenewalsLeft ==
  ASSUME TurnInv, NEW p \in Providers
  PROVE  renewals[p] \in Nat /\ renewals[p] <= Cardinality(Requests) - 1
  <1>1. /\ renewals[p] \in Nat
        /\ renewals[p] > 0 =>
             renewals[p] + Cardinality(Holders(p)) <= Cardinality(Requests) - 1
    BY DEF TurnInv, RenewalInv
  <1>2. Cardinality(Holders(p)) \in Nat
    BY HoldersFinite DEF Holders
  <1> QED BY <1>1, <1>2, RequestsCounted

LEMMA CoolingTyped ==
  ASSUME HealthyRecords, NEW p \in Providers
  PROVE  health[p].cooling \in 0 .. MaxCooldown /\ MaxCooldown \in Nat
  BY HealthTyped, ThresholdAssumption DEF HealthyRecords, HealthInv

(* One renewal fewer outweighs a cooldown set anew.                        *)
LEMMA RenewalPays ==
  ASSUME NEW m \in Nat, NEW k \in Nat, k > 0,
         NEW c \in 0 .. m, NEW d \in 0 .. m, c > 0
  PROVE  d + m * (k - 1) < c + m * k
  <1>1. m * k = m * (k - 1) + m /\ m * (k - 1) \in Int
    BY Z3
  <1> QED BY <1>1

(* What a failure does to a provider that is disabled.                     *)
LEMMA FailureRenews ==
  ASSUME RecordTypes, NEW h, DOMAIN h = Providers,
         \A p \in Providers : h[p].cooling = health[p].cooling,
         NEW x, NEW auth,
         health' = [h EXCEPT ![x] = AfterFailure(@, auth)],
         Renewed(x),
         NEW p \in Providers, IsDisabled(health[p])
  PROVE  \/ health'[p].cooling = health[p].cooling /\ renewals'[p] = renewals[p]
         \/ renewals'[p] = AtMost(renewals[p] + 1, Cardinality(Requests))
  <1>1. CASE p = x
    BY <1>1 DEF Renewed, RecordTypes
  <1>2. CASE p # x
    <2>1. health'[p] = h[p]
      BY <1>2
    <2>2. renewals'[p] = renewals[p]
      BY <1>2 DEF Renewed, RecordTypes
    <2> QED BY <2>1, <2>2
  <1> QED BY <1>1, <1>2

LEMMA DisabledStep ==
  ASSUME RecoveryInv, NEW p \in Providers, IsDisabled(health[p]), Next, ~Tick
  PROVE  \/ health'[p].cooling = health[p].cooling /\ renewals'[p] = renewals[p]
         \/ renewals'[p] = AtMost(renewals[p] + 1, Cardinality(Requests))
  <1>0. RecordTypes /\ DOMAIN health = Providers
    BY DEF RecoveryInv, HealthyRecords, TurnInv
  <1>1. ASSUME NEW q \in Requests, Arrive(q)
        PROVE  health'[p] = health[p] /\ renewals'[p] = renewals[p]
    <2>1. p \notin Offered
      BY DEF Offered, IsOffered
    <2> QED BY <1>1, <2>1 DEF Arrive
  <1>2. ASSUME NEW q \in Requests, Call(q) \/ Exhausted(q) \/ Abandoned(q) \/ Chunk(q)
        PROVE  UNCHANGED <<health, renewals>>
    BY <1>2 DEF Call, Exhausted, Abandoned, Chunk
  <1>3. ASSUME NEW q \in Requests, Answered(q) \/ UnreadableQuery(q)
        PROVE  health'[p].cooling = health[p].cooling /\ renewals'[p] = renewals[p]
    <2>1. PICK x : Succeeded(x) /\ UNCHANGED renewals
      BY <1>3 DEF Answered, UnreadableQuery
    <2>2. health'[p] = health[p] \/ health'[p] = AfterSuccess(health[p])
      BY <1>0, <2>1 DEF Succeeded
    <2>3. AfterSuccess(health[p]).cooling = health[p].cooling
      BY AfterSuccessHealth DEF RecoveryInv, HealthyRecords
    <2> QED BY <2>1, <2>2, <2>3
  <1>4. ASSUME NEW q \in Requests, UnreadableChat(q)
        PROVE  \/ health'[p].cooling = health[p].cooling /\ renewals'[p] = renewals[p]
               \/ renewals'[p] = AtMost(renewals[p] + 1, Cardinality(Requests))
    <2> DEFINE h == [health EXCEPT ![served[q]] = AfterSuccess(@)]
    <2>1. /\ health' = [h EXCEPT ![Trying(q)] = AfterFailure(@, FALSE)]
          /\ Renewed(Trying(q))
      BY <1>4 DEF UnreadableChat
    <2>2. DOMAIN h = Providers
      BY <1>0
    <2>3. ASSUME NEW o \in Providers
          PROVE  h[o].cooling = health[o].cooling
      <3>1. h[o] = health[o] \/ h[o] = AfterSuccess(health[o])
        BY <1>0
      <3>2. AfterSuccess(health[o]).cooling = health[o].cooling
        BY AfterSuccessHealth DEF RecoveryInv, HealthyRecords
      <3> HIDE DEF h
      <3> QED BY <3>1, <3>2
    <2> HIDE DEF h
    <2> QED BY <1>0, <2>1, <2>2, <2>3, FailureRenews
  <1>5. ASSUME NEW q \in Requests, Retry(q) \/ Broken(q)
        PROVE  \/ health'[p].cooling = health[p].cooling /\ renewals'[p] = renewals[p]
               \/ renewals'[p] = AtMost(renewals[p] + 1, Cardinality(Requests))
    <2>1. PICK auth \in BOOLEAN : Failed(Trying(q), auth)
      BY <1>5 DEF Retry, Broken
    <2>2. /\ health' = [health EXCEPT ![Trying(q)] = AfterFailure(@, auth)]
          /\ Renewed(Trying(q))
      BY <2>1 DEF Failed
    <2>3. \A o \in Providers : health[o].cooling = health[o].cooling
      OBVIOUS
    <2> QED BY <1>0, <2>2, <2>3, FailureRenews
  <1> QED BY <1>1, <1>2, <1>3, <1>4, <1>5 DEF Next

LEMMA TimeLeftFalls ==
  ASSUME RecoveryInv, RecoveryInv', NEW p \in Providers, IsDisabled(health[p]), [Next]_vars
  PROVE  /\ TimeLeft(p)' <= TimeLeft(p)
         /\ Tick => TimeLeft(p)' < TimeLeft(p)
  <1> DEFINE n == Cardinality(Requests)
  <1>0. /\ n \in Nat /\ MaxCooldown \in Nat
        /\ renewals[p] \in Nat /\ renewals[p] <= n - 1
        /\ health[p].cooling \in 0 .. MaxCooldown /\ health[p].cooling > 0
    BY RequestsCounted, RenewalsLeft, CoolingTyped DEF RecoveryInv, IsDisabled
  <1>1. /\ renewals'[p] \in Nat /\ renewals'[p] <= n - 1
        /\ health'[p].cooling \in 0 .. MaxCooldown
    <2>1. TurnInv' /\ HealthyRecords'
      BY DEF RecoveryInv
    <2>2. Cardinality(Holders(p)') \in Nat
      BY HoldersFinite DEF Holders
    <2>3. /\ renewals'[p] \in Nat
          /\ renewals'[p] > 0 => renewals'[p] + Cardinality(Holders(p)') <= n - 1
      BY <2>1 DEF TurnInv, RenewalInv
    <2>4. health'[p] \in Health
      BY <2>1 DEF HealthyRecords, HealthInv
    <2> QED BY <2>2, <2>3, <2>4, RequestsCounted, HealthTyped
  <1> HIDE DEF n
  <1>2. /\ TimeLeft(p) = health[p].cooling + MaxCooldown * ((n - 1) - renewals[p])
        /\ TimeLeft(p)' = health'[p].cooling + MaxCooldown * ((n - 1) - renewals'[p])
    BY DEF TimeLeft, n
  <1>3. /\ (n - 1) - renewals[p] \in Nat
        /\ MaxCooldown * ((n - 1) - renewals[p]) \in Int
        /\ TimeLeft(p) \in Int
    <2>1. (n - 1) - renewals[p] \in Nat
      BY <1>0
    <2>2. MaxCooldown * ((n - 1) - renewals[p]) \in Int
      BY <1>0, <2>1
    <2> QED BY <1>0, <1>2, <2>1, <2>2
  <1>4. CASE Tick
    <2>1. renewals' = renewals /\ health' = [o \in Providers |-> Later(health[o])]
      BY <1>4 DEF Tick
    <2>2. health'[p].cooling = health[p].cooling - 1
      <3>1. health[p] \in Health
        BY DEF RecoveryInv, HealthyRecords, HealthInv
      <3> QED BY <2>1, <3>1 DEF Later, Health
    <2> QED BY <1>0, <1>2, <1>3, <2>1, <2>2
  <1>5. ASSUME health'[p].cooling = health[p].cooling, renewals'[p] = renewals[p], ~Tick
        PROVE  TimeLeft(p)' <= TimeLeft(p)
    BY <1>2, <1>3, <1>5
  <1>6. ASSUME renewals'[p] = AtMost(renewals[p] + 1, n), ~Tick
        PROVE  TimeLeft(p)' <= TimeLeft(p)
    <2> DEFINE k == (n - 1) - renewals[p]
    <2>1. renewals'[p] = renewals[p] + 1
      BY <1>0, <1>1, <1>6 DEF AtMost
    <2>2. k \in Nat /\ k > 0 /\ (n - 1) - renewals'[p] = k - 1
      BY <1>0, <1>1, <2>1
    <2>3. TimeLeft(p) = health[p].cooling + MaxCooldown * k
          /\ TimeLeft(p)' = health'[p].cooling + MaxCooldown * (k - 1)
      BY <1>2, <2>2
    <2> HIDE DEF k
    <2>4. TimeLeft(p)' < TimeLeft(p)
      BY <1>0, <1>1, <2>2, <2>3, RenewalPays
    <2>5. MaxCooldown * (k - 1) \in Int /\ k - 1 \in Nat
      BY <1>0, <2>2
    <2> QED BY <1>1, <1>3, <2>3, <2>4, <2>5
  <1>7. CASE UNCHANGED vars
    <2>1. health' = health /\ renewals' = renewals
      BY <1>7 DEF vars
    <2>2. ~Tick
      <3>1. ASSUME Tick PROVE FALSE
        <4>1. health' = [o \in Providers |-> Later(health[o])]
          BY <3>1 DEF Tick
        <4>2. health[p] \in Health
          BY DEF RecoveryInv, HealthyRecords, HealthInv
        <4>3. health'[p].cooling = health[p].cooling - 1
          BY <4>1, <4>2 DEF Later, Health
        <4> QED BY <1>0, <2>1, <4>3
      <3> QED BY <3>1
    <2> QED BY <1>5, <2>1, <2>2
  <1> QED BY <1>4, <1>5, <1>6, <1>7, DisabledStep DEF n

(* For any number of requests and providers, and any cooldowns: whatever   *)
(* the requests do, a disabled provider is offered again at the latest     *)
(* when as many of the longest cooldowns have passed as there are requests.*)
THEOREM RecoveryIsNear == Spec => []OutForAWhile /\ RecoveryNears
  <1>1. Init => RecoveryInv
    BY TurnStart, HealthStart DEF RecoveryInv
  <1>2. RecoveryInv /\ [Next]_vars => RecoveryInv'
    BY TurnStep, HealthStep DEF RecoveryInv
  <1>3. RecoveryInv => OutForAWhile
    <2> SUFFICES ASSUME RecoveryInv, NEW p \in Providers
                 PROVE  TimeLeft(p) \in 0 .. MaxCooldown * Cardinality(Requests)
      BY DEF OutForAWhile
    <2> DEFINE n == Cardinality(Requests)
               k == (n - 1) - renewals[p]
    <2>1. /\ n \in Nat /\ MaxCooldown \in Nat /\ k \in 0 .. n - 1
          /\ health[p].cooling \in 0 .. MaxCooldown /\ renewals[p] \in Nat
      BY RequestsCounted, RenewalsLeft, CoolingTyped DEF RecoveryInv
    <2>2. TimeLeft(p) = health[p].cooling + MaxCooldown * k
      BY DEF TimeLeft
    <2> HIDE DEF n, k
    <2>3. MaxCooldown * k \in Nat
      BY <2>1
    <2>4. MaxCooldown * n = MaxCooldown * k + MaxCooldown * (n - k)
      BY <2>1
    <2>5. MaxCooldown * (n - k) >= MaxCooldown
      <3>1. PICK j \in Nat : n - k = j + 1
        BY <2>1, (n - k) - 1 \in Nat
      <3>2. MaxCooldown * (j + 1) = MaxCooldown * j + MaxCooldown /\ MaxCooldown * j \in Nat
        BY <2>1
      <3> QED BY <2>1, <3>1, <3>2
    <2>6. MaxCooldown * (n - k) \in Int /\ MaxCooldown * n \in Int
      BY <2>1
    <2>7. TimeLeft(p) \in 0 .. MaxCooldown * n
      BY <2>1, <2>2, <2>3, <2>4, <2>5, <2>6
    <2> QED BY <2>7 DEF n
  <1>4. RecoveryInv /\ RecoveryInv' /\ [Next]_vars =>
          [\A p \in Providers : IsDisabled(health[p]) =>
             /\ TimeLeft(p)' <= TimeLeft(p)
             /\ Tick => TimeLeft(p)' < TimeLeft(p)]_vars
    BY TimeLeftFalls
  <1> QED BY <1>1, <1>2, <1>3, <1>4, PTL DEF Spec, RecoveryNears
=============================================================================
