-------------------------- MODULE ProviderRouting --------------------------
(***************************************************************************)
(* Requests to the LLM router (ai/router.py) sharing one health tracker.   *)
(* A request orders the providers once, from the health they have then,    *)
(* and tries them in turn; its calls and their results interleave with     *)
(* those of other requests at every await.                                 *)
(*                                                                         *)
(* Every call goes to litellm.Router with the task type as its model, and  *)
(* litellm chooses one of the deployments of that task type by itself: the *)
(* provider a request tries is not handed over.                            *)
(***************************************************************************)
EXTENDS ProviderHealth, Sequences, FiniteSets, SequencesExt

CONSTANTS
  Requests,    \* concurrent callers of the router
  Kinds,       \* subset of {"query", "chat", "stream"}
  Providers,   \* providers with a deployment of the task type or its fallback
  Deployed,    \* those with one of the task type itself: litellm's choice
  Limited,     \* those the rate limiter refuses
  NoProvider,  \* no call under way
  CommitAt,    \* chunks that fill _STREAM_COMMIT_THRESHOLD
  MaxChunks    \* bound on the chunks of a stream

ASSUME RoutingAssumption ==
  /\ IsFiniteSet(Requests) /\ Requests # {}
  /\ IsFiniteSet(Providers)
  /\ Kinds \subseteq {"query", "chat", "stream"}
  /\ Limited \subseteq Providers
  /\ Deployed \subseteq Providers
  /\ NoProvider \notin Providers
  /\ CommitAt \in Nat \ {0}
  /\ MaxChunks \in Nat

VARIABLES
  health,      \* _health_tracker
  pc,          \* where each request is
  kind,        \* which entry point it came through
  providers,   \* its order of providers
  turn,        \* its place in that order
  served,      \* the provider litellm has sent its call to
  received,    \* chunks its stream has delivered, in this turn or its last
  buffer,      \* chunks held back, each as the turn it came from
  committed,   \* the stream has been committed to this turn
  out,         \* chunks yielded to the client
  renewals     \* history: failures on a disabled provider since it was last offered,
               \* no further than the number of requests

requestVars == <<pc, kind, providers, turn, served, received, buffer, committed, out>>
vars == <<health, pc, kind, providers, turn, served, received, buffer, committed, out,
          renewals>>

TypeOK ==
  /\ health \in [Providers -> Health]
  /\ pc \in [Requests -> {"idle", "ready", "calling"}]
  /\ kind \in [Requests -> {"none", "query", "chat", "stream"}]
  /\ providers \in [Requests -> UNION {SetToSeqs(S) : S \in SUBSET Providers}]
  /\ turn \in [Requests -> 1 .. Cardinality(Providers) + 1]
  /\ served \in [Requests -> Providers \union {NoProvider}]
  /\ received \in [Requests -> 0 .. MaxChunks]
  /\ committed \in [Requests -> BOOLEAN]
  /\ \A q \in Requests : \A s \in {buffer[q], out[q]} :
       Len(s) <= MaxChunks /\ \A i \in DOMAIN s : s[i] \in 1 .. Cardinality(Providers)
  /\ renewals \in [Providers -> 0 .. Cardinality(Requests)]

(* No request has been made; the entry points' health was reset at startup.*)
Init ==
  /\ health = [p \in Providers |-> Neutral]
  /\ pc = [q \in Requests |-> "idle"]
  /\ kind = [q \in Requests |-> "none"]
  /\ providers = [q \in Requests |-> <<>>]
  /\ turn = [q \in Requests |-> 1]
  /\ served = [q \in Requests |-> NoProvider]
  /\ received = [q \in Requests |-> 0]
  /\ buffer = [q \in Requests |-> <<>>]
  /\ committed = [q \in Requests |-> FALSE]
  /\ out = [q \in Requests |-> <<>>]
  /\ renewals = [p \in Providers |-> 0]
-----------------------------------------------------------------------------
Offered == {p \in Providers \ Limited : IsOffered(health[p])}

(* Mutant: the preferred provider is tried once more at the end.           *)
RepeatedOrders == {Append(order, order[1]) : order \in SetToSeqs(Offered)}

(* _get_provider_order: what can be called and is healthy, in the order of *)
(* the scores, which may be any.                                           *)
ProviderOrders == SetToSeqs(Offered)

Succeeded(p) == health' = [health EXCEPT ![p] = AfterSuccess(@)]

Renewed(p) ==
  renewals' = IF IsDisabled(health[p])
                THEN [renewals EXCEPT ![p] = AtMost(@ + 1, Cardinality(Requests))]
                ELSE renewals

Failed(p, auth) ==
  /\ health' = [health EXCEPT ![p] = AfterFailure(@, auth)]
  /\ Renewed(p)

(* Mutant: what an earlier turn held back is kept.                         *)
NextTurnSameBuffer(q) ==
  /\ pc' = [pc EXCEPT ![q] = "ready"]
  /\ turn' = [turn EXCEPT ![q] = @ + 1]
  /\ served' = [served EXCEPT ![q] = NoProvider]
  /\ received' = [received EXCEPT ![q] = 0]
  /\ UNCHANGED <<kind, providers, buffer, committed, out>>

(* The next place of the order, with a fresh buffer, uncommitted.          *)
NextTurn(q) ==
  /\ pc' = [pc EXCEPT ![q] = "ready"]
  /\ turn' = [turn EXCEPT ![q] = @ + 1]
  /\ served' = [served EXCEPT ![q] = NoProvider]
  /\ received' = [received EXCEPT ![q] = 0]
  /\ buffer' = [buffer EXCEPT ![q] = <<>>]
  /\ committed' = [committed EXCEPT ![q] = FALSE]
  /\ UNCHANGED <<kind, providers, out>>

(* The request returns or raises and its locals are gone; what its client  *)
(* has been sent stays.                                                    *)
Leave(q) ==
  /\ pc' = [pc EXCEPT ![q] = "idle"]
  /\ kind' = [kind EXCEPT ![q] = "none"]
  /\ providers' = [providers EXCEPT ![q] = <<>>]
  /\ turn' = [turn EXCEPT ![q] = 1]
  /\ served' = [served EXCEPT ![q] = NoProvider]
  /\ buffer' = [buffer EXCEPT ![q] = <<>>]
  /\ committed' = [committed EXCEPT ![q] = FALSE]

Fails(q) ==
  /\ Leave(q)
  /\ received' = [received EXCEPT ![q] = 0]
  /\ out' = [out EXCEPT ![q] = <<>>]

(* route_query, route_chat or route_query_stream up to its loop, for a     *)
(* request that no cache answers and the budget lets through.  Without a   *)
(* provider they raise at once.                                            *)
Arrive(q) ==
  /\ pc[q] = "idle"
  /\ Offered # {}
  /\ pc' = [pc EXCEPT ![q] = "ready"]
  /\ \E k \in Kinds : kind' = [kind EXCEPT ![q] = k]
  /\ \E order \in ProviderOrders : providers' = [providers EXCEPT ![q] = order]
  /\ received' = [received EXCEPT ![q] = 0]
  /\ out' = [out EXCEPT ![q] = <<>>]
  /\ renewals' = [p \in Providers |-> IF p \in Offered THEN 0 ELSE renewals[p]]
  /\ UNCHANGED <<health, turn, served, buffer, committed>>

Trying(q) == providers[q][turn[q]]

(* The call of the next provider's turn, to the deployment litellm picks.  *)
Call(q) ==
  /\ pc[q] = "ready"
  /\ turn[q] <= Len(providers[q])
  /\ pc' = [pc EXCEPT ![q] = "calling"]
  /\ \E p \in Deployed : served' = [served EXCEPT ![q] = p]
  /\ UNCHANGED <<health, kind, providers, turn, received, buffer, committed, out, renewals>>

(* No provider is left: AllProvidersExhausted.                             *)
Exhausted(q) ==
  /\ pc[q] = "ready"
  /\ turn[q] > Len(providers[q])
  /\ Fails(q)
  /\ UNCHANGED <<health, renewals>>

(* A response.  Queries and chats credit the provider the response names,  *)
(* streams the one tried; a stream that was never committed is yielded now.*)
Answered(q) ==
  /\ pc[q] = "calling"
  /\ Succeeded(IF kind[q] = "stream" THEN Trying(q) ELSE served[q])
  /\ out' = [out EXCEPT ![q] = @ \o buffer[q]]
  /\ Leave(q)
  /\ UNCHANGED <<received, renewals>>

(* A response without choices: the success is recorded, then the handler   *)
(* of the loop sees an exception; route_chat's records a failure as well.  *)
UnreadableQuery(q) ==
  /\ pc[q] = "calling"
  /\ kind[q] = "query"
  /\ Succeeded(served[q])
  /\ NextTurn(q)
  /\ UNCHANGED renewals

UnreadableChat(q) ==
  /\ pc[q] = "calling"
  /\ kind[q] = "chat"
  /\ LET credited == [health EXCEPT ![served[q]] = AfterSuccess(@)]
     IN health' = [credited EXCEPT ![Trying(q)] = AfterFailure(@, FALSE)]
  /\ Renewed(Trying(q))
  /\ NextTurn(q)

(* The call raises, times out or, before the commit, its stream breaks:    *)
(* the next provider's turn.                                               *)
Retry(q) ==
  /\ pc[q] = "calling"
  /\ ~committed[q]
  /\ \E auth \in BOOLEAN : Failed(Trying(q), auth)
  /\ NextTurn(q)

(* A committed stream breaks: "Streaming failed after commit".             *)
Broken(q) ==
  /\ pc[q] = "calling"
  /\ committed[q]
  /\ \E auth \in BOOLEAN : Failed(Trying(q), auth)
  /\ Fails(q)

(* The client of a chat or a stream goes away: the task is cancelled, and  *)
(* no handler records anything.                                            *)
Abandoned(q) ==
  /\ pc[q] = "calling"
  /\ kind[q] # "query"
  /\ Fails(q)
  /\ UNCHANGED <<health, renewals>>

(* A chunk: held back until the buffer fills the threshold, live after.    *)
Chunk(q) ==
  LET held == Append(buffer[q], turn[q])
      full == Len(held) >= CommitAt
  IN /\ pc[q] = "calling"
     /\ kind[q] = "stream"
     /\ received[q] < MaxChunks
     /\ received' = [received EXCEPT ![q] = @ + 1]
     /\ IF committed[q] \/ full
          THEN /\ out' = [out EXCEPT ![q] = @ \o held]
               /\ buffer' = [buffer EXCEPT ![q] = <<>>]
               /\ committed' = [committed EXCEPT ![q] = TRUE]
          ELSE /\ buffer' = [buffer EXCEPT ![q] = held]
               /\ UNCHANGED <<out, committed>>
     /\ UNCHANGED <<health, pc, kind, providers, turn, served, renewals>>

Tick ==
  /\ \E p \in Providers : IsDisabled(health[p])
  /\ health' = [p \in Providers |-> Later(health[p])]
  /\ UNCHANGED <<requestVars, renewals>>
-----------------------------------------------------------------------------
Next ==
  \/ \E q \in Requests :
       \/ Arrive(q) \/ Call(q) \/ Exhausted(q) \/ Answered(q)
       \/ UnreadableQuery(q) \/ UnreadableChat(q)
       \/ Retry(q) \/ Broken(q) \/ Abandoned(q) \/ Chunk(q)
  \/ Tick

Spec == Init /\ [][Next]_vars

(* Time passes.  Nothing is assumed of the requests.                       *)
Fairness == WF_vars(Tick)

FairSpec == Spec /\ Fairness
-----------------------------------------------------------------------------
(* A client is sent chunks of one turn only, nothing of a turn that was    *)
(* given up; and once its stream has ended well it has been sent all of    *)
(* that turn (route_query_stream's buffer and commit).                     *)
OneVoice ==
  \A q \in Requests :
    /\ \A i \in DOMAIN out[q] : out[q][i] = IF pc[q] = "idle" THEN out[q][1] ELSE turn[q]
    /\ pc[q] = "idle" => Len(out[q]) = received[q]

(* Failover cannot be heard: with all its turns, buffers and commits the   *)
(* router is a service that answers each request with one stream, which    *)
(* never takes a chunk back and is whole when it ends well                 *)
(* (route_query_stream; refinement of ClientStream).                       *)
Client == INSTANCE ClientStream
            WITH open <- [q \in Requests |-> pc[q] # "idle"], heard <- out, due <- received
FollowsStream == Client!Spec

(* Requests that ordered their providers before a provider was disabled    *)
(* still try it, and their failures push its cooldown out; but no request  *)
(* does so twice, and the one that disabled it is not among them.          *)
RenewalsBounded ==
  \A p \in Providers : renewals[p] <= Cardinality(Requests) - 1

(* A late failure never brings the end of a cooldown forward, and nor does *)
(* a success (record_failure, record_success): only time ends it.          *)
CooldownRunsOff ==
  [][\A p \in Providers : health'[p].cooling + 1 >= health[p].cooling]_vars

(* A disabled provider is out for a while, not for good: requests under    *)
(* way cannot renew its cooldown for ever (get_sorted, record_failure).    *)
Recovers == \A p \in Providers : IsDisabled(health[p]) ~> ~IsDisabled(health[p])

(* A call goes to a provider of the request's order only, so a disabled    *)
(* provider is skipped (_try_provider, get_sorted).                        *)
OnlyOrderedProviders ==
  \A q \in Requests :
    pc[q] = "calling" => served[q] \in {providers[q][i] : i \in DOMAIN providers[q]}
=============================================================================
