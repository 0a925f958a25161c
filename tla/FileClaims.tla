----------------------------- MODULE FileClaims -----------------------------
(***************************************************************************)
(* File claims of ai/collab/file_claims.py: agents claim files for         *)
(* exclusive editing in one JSON file.  claim_file and release_file hold a *)
(* FileLock from the read to the write, so each is one step; a process may *)
(* be killed while it writes, which leaves a file nobody can parse.        *)
(***************************************************************************)
EXTENDS Naturals

CONSTANTS Agents, Files,
          ClaimTimeout,    \* _CLAIM_TIMEOUT_HOURS, in ticks
          MaxTime,         \* bound: the last tick
          Nobody

ASSUME ClaimAssumption == ClaimTimeout \in Nat /\ Nobody \notin Agents

VARIABLES claims,     \* .file-claims.json
          torn,       \* a killed writer left it unreadable
          granted,    \* when the agent was last told it has the file
          clock

claimVars == <<claims, torn, granted, clock>>

Unclaimed == [agent |-> Nobody, at |-> 0]
Claim == [agent : Agents, at : Nat] \cup {Unclaimed}

\* granted holds the tick, or this when the agent has no claim to rely on.
Never == [granted |-> FALSE, at |-> 0]
Grant(t) == [granted |-> TRUE, at |-> t]

ClaimsInit ==
    /\ claims = [f \in Files |-> Unclaimed]
    /\ torn = FALSE
    /\ granted = [a \in Agents |-> [f \in Files |-> Never]]
    /\ clock = 0

Expired(claim) == clock > claim.at + ClaimTimeout

Kept(f) == IF claims[f] # Unclaimed /\ Expired(claims[f]) THEN Unclaimed
           ELSE claims[f]

\* claim_file: all expired claims go, then the file is claimed, or claimed
\* anew by its owner.  A refusal writes nothing.
ClaimFile(a, f) ==
    /\ ~torn
    /\ Kept(f).agent \in {a, Nobody}
    /\ claims' = [g \in Files |-> IF g = f THEN [agent |-> a, at |-> clock]
                                  ELSE Kept(g)]
    /\ granted' = [granted EXCEPT ![a][f] = Grant(clock)]
    /\ UNCHANGED <<torn, clock>>

\* Mutant: a claim may be released by any agent.
ReleaseAny(a, f) ==
    /\ ~torn
    /\ claims' = [claims EXCEPT ![f] = Unclaimed]
    /\ granted' = [granted EXCEPT ![a][f] = Never]
    /\ UNCHANGED <<torn, clock>>

\* release_file: only the owner's entry is deleted; either way the agent
\* stops editing.
ReleaseFile(a, f) ==
    /\ ~torn
    /\ claims' = [claims EXCEPT ![f] = IF @.agent = a THEN Unclaimed ELSE @]
    /\ granted' = [granted EXCEPT ![a][f] = Never]
    /\ UNCHANGED <<torn, clock>>

\* A writer is killed between truncating the file and writing it.
WriterKilled ==
    /\ ~torn
    /\ torn' = TRUE
    /\ UNCHANGED <<claims, granted, clock>>

ClaimsTick ==
    /\ clock < MaxTime
    /\ clock' = clock + 1
    /\ UNCHANGED <<claims, torn, granted>>

ClaimsNext ==
    \/ \E a \in Agents, f \in Files : ClaimFile(a, f) \/ ReleaseFile(a, f)
    \/ WriterKilled
    \/ ClaimsTick

ClaimsSpec == ClaimsInit /\ [][ClaimsNext]_claimVars

----------------------------------------------------------------------------
ClaimsTypeOK ==
    /\ claims \in [Files -> Claim]
    /\ torn \in BOOLEAN
    /\ granted \in [Agents -> [Files -> [granted : BOOLEAN, at : Nat]]]
    /\ clock \in Nat

\* The agent may still rely on the claim it was granted.
Relies(a, f) == granted[a][f].granted /\ clock <= granted[a][f].at + ClaimTimeout

(* Exclusive editing: two agents never rely on a claim of the same file at  *)
(* the same time, whatever claims, releases, renewals and expiries of both  *)
(* come between, and whenever a writer is killed.                           *)
ClaimsExclusive ==
    \A f \in Files : \A a, b \in Agents : Relies(a, f) /\ Relies(b, f) => a = b

\* Why: the file names the agent, with a claim no older than the grant.
GrantsAreRecorded ==
    \A f \in Files : \A a \in Agents : Relies(a, f) =>
        claims[f].agent = a /\ claims[f].at >= granted[a][f].at
=============================================================================
