------------------------------ MODULE AcrToken ------------------------------
(***************************************************************************)
(* The refresh tokens for registries of ACR (pkg/infra/registry/acrauth):  *)
(* ACRTokenProvider takes the token from the replica's memory, or gets the *)
(* token of the cluster's identity and has ACRTokenExchanger exchange it   *)
(* with the registry, answers, and leaves a goroutine that stores it.      *)
(*                                                                         *)
(* The exchange builds one HTTP request and sends it, by the retry policy, *)
(* up to retryAttempts times. The body of the request is a reader: once it *)
(* has been sent it is at its end, and net/http refuses to send a request  *)
(* whose body is shorter than its Content-Length says. It gets a new body  *)
(* (GetBody) only when it tries again by itself, because the connection it *)
(* had kept was closed before anything was written.                        *)
(*                                                                         *)
(* The module describes the calls; they are part of a process (Replica),   *)
(* which has the memory and sets the expiration time. Time is counted in   *)
(* ticks of a minute: tokens get older wherever they are held.             *)
(***************************************************************************)
EXTENDS Integers, Sequences

CONSTANTS
  Registries,
  Calls,         \* slots for calls, each with the goroutine it leaves
  retryAttempts,
  MaxDelay       \* minutes that a token is on its way at most

ASSUME TokenAssumption == retryAttempts \in Nat \ {0} /\ MaxDelay \in Nat

\* A token is told by the registry that issued it.
CONSTANT NoToken
ASSUME NoTokenAssumption == NoToken \notin Registries

Errors == {"no arm token", "RegistryIsNotFoundErr", "network", "bad body", "bad response"}

VARIABLES
  exists,    \* whether each registry does
  RegistryRefreshTokenCacheExpirationTime,  \* as configured, in minutes
  cached,    \* freecache: the token of each registry
  pc,        \* where each call stands
  registry,  \* the registry of the call
  attempts,  \* how the attempts to send its request ended
  token,     \* the token it has got
  answered   \* how it returned: "token" or an error

given == <<exists, RegistryRefreshTokenCacheExpirationTime>>
callVars == <<cached, pc, registry, attempts, token, answered>>

\* A token, its age, and in the memory the minutes that are left to it.
NotGot == [of |-> NoToken, age |-> 0]
NoEntry == [of |-> NoToken, age |-> 0, left |-> 0]

\* A process that starts has neither calls nor tokens in its memory.
NoCalls ==
  /\ cached = [r \in Registries |-> NoEntry]
  /\ pc = [c \in Calls |-> "idle"]
  /\ registry \in [Calls -> Registries]
  /\ attempts = [c \in Calls |-> <<>>]
  /\ token = [c \in Calls |-> NotGot]
  /\ answered = [c \in Calls |-> "nothing"]

Goto(c, label) == pc' = [pc EXCEPT ![c] = label]

Return(c, a) ==
  /\ answered' = [answered EXCEPT ![c] = a]
  /\ Goto(c, "idle")

-----------------------------------------------------------------------------
(* GetACRRefreshToken                                                      *)

Call(c, r) ==
  /\ pc[c] = "idle"
  /\ registry' = [registry EXCEPT ![c] = r]
  /\ attempts' = [attempts EXCEPT ![c] = <<>>]
  /\ token' = [token EXCEPT ![c] = NotGot]
  /\ answered' = [answered EXCEPT ![c] = "nothing"]
  /\ Goto(c, "lookup")
  /\ UNCHANGED cached

LookupHit(c) ==
  /\ pc[c] = "lookup"
  /\ LET entry == cached[registry[c]]
     IN /\ entry.of # NoToken
        /\ token' = [token EXCEPT ![c] = [of |-> entry.of, age |-> entry.age]]
  /\ Return(c, "token")
  /\ UNCHANGED <<cached, registry, attempts>>

\* No entry, or the cache fails; the identity of the cluster has its token.
LookupMiss(c) ==
  /\ pc[c] = "lookup"
  /\ Goto(c, "do")
  /\ UNCHANGED <<cached, registry, attempts, token, answered>>

\* The identity cannot be refreshed, or its token is empty (GetOAuthToken).
NoArmToken(c) ==
  /\ pc[c] = "lookup"
  /\ Return(c, "no arm token")
  /\ UNCHANGED <<cached, registry, attempts, token>>

-----------------------------------------------------------------------------
(* ExchangeACRAccessToken                                                  *)

\* The attempts that read the body of the request to its end.
Reading == {"answer lost", "token", "bad response"}

AttemptOutcomes == {"no such host", "not connected", "bad body"} \cup Reading

BodySent(c) == \E i \in DOMAIN attempts[c] : attempts[c][i] \in Reading

\* What an attempt may end with. A name server may fail for any name, and the
\* network before the body is sent or, when the answer is lost, after it. A body
\* that was sent before is at its end, or net/http has a new one by now.
Outcomes(c) ==
  {"no such host", "not connected"} \cup
  (IF exists[registry[c]] THEN Reading ELSE {}) \cup
  (IF BodySent(c) THEN {"bad body"} ELSE {})

\* Defect: every attempt is the last.
isFinalAny(outcome) == TRUE

\* A response ends the attempts, whatever its status, and so does a missing
\* host (isNoSuchHostErr).
isFinal(outcome) == outcome \in {"token", "bad response", "no such host"}

errorOf(outcome) ==
  CASE outcome = "no such host" -> "RegistryIsNotFoundErr"
    [] outcome \in {"not connected", "answer lost"} -> "network"
    [] OTHER -> outcome

\* Defect: the status of the response and an empty token go unnoticed.
isTokenAnyStatus(outcome) == outcome \in {"token", "bad response"}

\* extractRefreshTokenFromExchangeTokenHTTPResponse
isToken(outcome) == outcome = "token"

Do(c) ==
  /\ pc[c] = "do"
  /\ \E outcome \in Outcomes(c) :
       /\ attempts' = [attempts EXCEPT ![c] = Append(@, outcome)]
       /\ \/ /\ isToken(outcome)
             /\ token' = [token EXCEPT ![c].of = IF outcome = "token" THEN registry[c] ELSE NoToken]
             /\ Goto(c, "reply")
             /\ UNCHANGED answered
          \/ /\ ~isToken(outcome)
             /\ isFinal(outcome) \/ Len(attempts[c]) + 1 = retryAttempts
             /\ Return(c, errorOf(outcome))
             /\ UNCHANGED token
          \/ /\ ~isFinal(outcome) /\ Len(attempts[c]) + 1 < retryAttempts
             /\ UNCHANGED <<pc, token, answered>>
  /\ UNCHANGED <<cached, registry>>

AnswerToken(c) ==
  /\ pc[c] = "reply"
  /\ answered' = [answered EXCEPT ![c] = "token"]
  /\ Goto(c, "set")
  /\ UNCHANGED <<cached, registry, attempts, token>>

\* The goroutine's Set. Freecache keeps an entry with no time left until it is
\* evicted, and its client refuses negative times.
SetToken(c) ==
  /\ pc[c] = "set"
  /\ RegistryRefreshTokenCacheExpirationTime >= 0
  /\ cached' = [cached EXCEPT ![registry[c]] =
                  [of |-> token[c].of, age |-> token[c].age,
                   left |-> RegistryRefreshTokenCacheExpirationTime]]
  /\ Goto(c, "idle")
  /\ UNCHANGED <<registry, attempts, token, answered>>

SetFails(c) ==
  /\ pc[c] = "set"
  /\ Goto(c, "idle")
  /\ UNCHANGED <<cached, registry, attempts, token, answered>>

CallStep(c) ==
  \/ LookupHit(c)
  \/ LookupMiss(c)
  \/ NoArmToken(c)
  \/ Do(c)
  \/ AnswerToken(c)
  \/ SetToken(c)
  \/ SetFails(c)

-----------------------------------------------------------------------------
(* The memory and time                                                     *)

Evict(r) ==
  /\ cached[r] # NoEntry
  /\ cached' = [cached EXCEPT ![r] = NoEntry]
  /\ UNCHANGED <<pc, registry, attempts, token, answered>>

Aged(entry) ==
  CASE entry = NoEntry \/ entry.left = 1 -> NoEntry
    [] entry # NoEntry /\ entry.left = 0 -> [entry EXCEPT !.age = @ + 1]
    [] OTHER -> [entry EXCEPT !.age = @ + 1, !.left = @ - 1]

Holding(c) == pc[c] \in {"reply", "set"}

Minute ==
  /\ \A c \in Calls : Holding(c) => token[c].age < MaxDelay
  /\ token' = [c \in Calls |->
                 IF Holding(c) THEN [token[c] EXCEPT !.age = @ + 1] ELSE token[c]]
  /\ cached' = [r \in Registries |-> Aged(cached[r])]
  /\ UNCHANGED <<pc, registry, attempts, answered>>

-----------------------------------------------------------------------------
(* Properties                                                              *)

\* A call that returns a token returns one that the registry it asks for has
\* issued, also when another call got and stored it: never an empty one.
TokenIsOfRegistry ==
  \A c \in Calls : answered[c] = "token" => token[c].of = registry[c]

\* An error of the network is reported only when no attempt is left, and never
\* once the registry has answered.
NetworkErrorsAreRetried ==
  \A c \in Calls :
    answered[c] = "network" =>
      /\ Len(attempts[c]) = retryAttempts
      /\ \A i \in DOMAIN attempts[c] :
           attempts[c][i] \notin {"token", "bad response", "no such host"}

\* No call returns a token that was issued longer ago than tokens are stored
\* and on their way: whatever the configuration says that the process starts
\* with, every token in the memory has a time at which it is dropped. (A token
\* that its registry has revoked or that has ended fails every look-up of a
\* digest until then.)
TokensAreRecent ==
  \A c \in Calls :
    answered[c] = "token" =>
      token[c].age <= RegistryRefreshTokenCacheExpirationTime + MaxDelay
=============================================================================
