--------------------------- MODULE Replica_proofs ---------------------------
(***************************************************************************)
(* Theorems about Replica, for every set of configurations, calls and      *)
(* registries, every number of attempts and of failures.                   *)
(*                                                                         *)
(* For the tokens a step of the process is one of four: it leaves the      *)
(* calls alone, ends them all, is a step of one call, or of the memory and *)
(* the time. ProcessInv says where main, the goroutine and the channel may *)
(* stand together; through it the calls know that the configuration which  *)
(* they run under was found valid, and no failure leaves main, goroutine   *)
(* and rotator waiting for each other.                                     *)
(***************************************************************************)
EXTENDS Replica, SequenceTheorems, TLAPS

\* Where the parts of the process stand together.
ProcessInv ==
  /\ ended # "panic"
  /\ configuration.EnableCertRotation => ended # "no certificates"
  /\ main \notin {"ended", "loading"} => isValidConfiguration
  /\ main \notin {"starting", "running"} => setup = "none"
  /\ setup = "registered" => IsReady
  /\ configuration.EnableCertRotation /\ ~rotated => ~IsReady
  /\ configuration.EnableCertRotation /\ IsReady => mounted
  /\ serving => main = "running"
  /\ \A c \in Calls : pc[c] # "idle" => main = "running"
  /\ RegistryRefreshTokenCacheExpirationTime = configuration.CacheExpirationTime

\* Tokens are kept and answered under the registry that has issued them.
TokensInv ==
  /\ \A r \in Registries : cached[r].of \in {r, NoToken}
  /\ \A c \in Calls :
       pc[c] \in {"reply", "set"} \/ answered[c] = "token" =>
         token[c].of = registry[c]

Used(outcome) == outcome \in {"token", "bad response", "no such host"}

\* Attempts are left as long as the request is tried, and none of those made
\* was final.
AttemptsInv ==
  \A c \in Calls :
    /\ pc[c] \in {"lookup", "do", "reply"} => answered[c] = "nothing"
    /\ pc[c] = "set" => answered[c] = "token"
    /\ pc[c] = "lookup" => attempts[c] = <<>>
    /\ pc[c] = "do" => /\ Len(attempts[c]) < retryAttempts
                       /\ \A i \in 1..Len(attempts[c]) : ~Used(attempts[c][i])
    /\ answered[c] = "network" =>
         /\ Len(attempts[c]) = retryAttempts
         /\ \A i \in 1..Len(attempts[c]) : ~Used(attempts[c][i])

TTL == RegistryRefreshTokenCacheExpirationTime

\* What is in the memory is dropped in time.
AgesInv ==
  /\ \A r \in Registries :
       cached[r] # NoEntry =>
         cached[r].left >= 1 /\ cached[r].age + cached[r].left <= TTL + MaxDelay
  /\ \A c \in Calls :
       /\ pc[c] # "idle" => token[c].age <= MaxDelay
       /\ answered[c] = "token" => token[c].age <= TTL + MaxDelay

-----------------------------------------------------------------------------
(* The steps                                                               *)

CallsAlone == UNCHANGED <<given, callVars, configuration>>

CallsEnd == \E reason \in {"configuration", "dependency", "panic",
                           "no certificates", "stopped"} : End(reason)

CallsStep ==
  /\ \/ \E c \in Calls, r \in Registries : Call(c, r)
     \/ \E c \in Calls : CallStep(c)
     \/ \E r \in Registries : Evict(r)
     \/ Minute
  /\ UNCHANGED <<main, process, ended, environment>>

(* Every step leaves the calls alone, ends them, or is a step of theirs.   *)
LEMMA StepKinds ==
  ASSUME [Next]_vars
  PROVE  CallsAlone \/ CallsEnd \/ CallsStep
<1> USE DEF CallsAlone, environment
<1>1. ASSUME MainStep PROVE CallsAlone \/ CallsEnd
  BY <1>1 DEF CallsEnd, MainStep, StartProcess, LoadConfiguration, CreateClients,
     CreateServer, initCertController, GoSetupControllers, StartManager
<1>2. ASSUME setupControllers PROVE CallsAlone
  BY <1>2 DEF setupControllers
<1>3. ASSUME RotatorReady PROVE CallsAlone \/ CallsEnd
  BY <1>3 DEF RotatorReady, CallsEnd
<1>4. ASSUME ServeWebhook PROVE CallsAlone \/ CallsEnd
  BY <1>4 DEF ServeWebhook, CallsEnd
<1>5. ASSUME \/ CreateARMAuthorizerFails \/ CreateRedisClientFails
             \/ CreateManagerFails \/ initCertControllerFails \/ Stop
      PROVE  CallsEnd
  BY <1>5 DEF CallsEnd, CreateARMAuthorizerFails, CreateRedisClientFails,
     CreateManagerFails, initCertControllerFails, Stop, Fails
<1>6. ASSUME \/ \E c \in Calls, r \in Registries : CallArrives(c, r)
             \/ TokenStep \/ MemoryStep
      PROVE  CallsStep
  BY <1>6 DEF CallsStep, CallArrives, TokenStep, MemoryStep
<1>7. ASSUME UNCHANGED vars PROVE CallsAlone
  BY <1>7 DEF vars
<1> QED BY <1>1, <1>2, <1>3, <1>4, <1>5, <1>6, <1>7 DEF Next

(* A step of the process is none of the calls' or is the end.              *)
LEMMA EndIsEmpty ==
  ASSUME CallsEnd
  PROVE  /\ main' = "ended"
         /\ cached' = [r \in Registries |-> NoEntry]
         /\ pc' = [c \in Calls |-> "idle"]
         /\ attempts' = [c \in Calls |-> <<>>]
         /\ token' = [c \in Calls |-> NotGot]
         /\ answered' = [c \in Calls |-> "nothing"]
         /\ UNCHANGED <<registry, given, configuration, mounted>>
BY DEF CallsEnd, End

-----------------------------------------------------------------------------
(* Types                                                                   *)

LEMMA ConstantTypes ==
  /\ MaxFailures \in Nat
  /\ retryAttempts \in Nat \ {0} /\ MaxDelay \in Nat
  /\ \A c \in Configurations :
       c.CacheExpirationTime \in Int /\ c.HeartbeatFrequency \in Int
BY ReplicaAssumption, TokenAssumption

CallTypes ==
  /\ exists \in [Registries -> BOOLEAN]
  /\ RegistryRefreshTokenCacheExpirationTime \in Int
  /\ cached \in [Registries -> [of : Registries \cup {NoToken}, age : Nat, left : Nat]]
  /\ pc \in [Calls -> {"idle", "lookup", "do", "reply", "set"}]
  /\ registry \in [Calls -> Registries]
  /\ attempts \in [Calls -> Seq(AttemptOutcomes)]
  /\ token \in [Calls -> [of : Registries \cup {NoToken}, age : Nat]]
  /\ answered \in [Calls -> {"nothing", "token"} \cup Errors]

ProcessTypes ==
  /\ configuration \in Configurations
  /\ main \in {"ended", "loading", "wiring", "clients created", "server created",
               "initialized", "starting", "running"}
  /\ IsReady \in BOOLEAN
  /\ setup \in {"none", "waiting", "registered"}
  /\ rotated \in BOOLEAN /\ serving \in BOOLEAN /\ mounted \in BOOLEAN
  /\ ended \in {"not", "not started", "configuration", "dependency", "panic",
                "no certificates", "stopped"}
  /\ failures \in 0 .. MaxFailures

LEMMA TypesSplit == TypeOK <=> CallTypes /\ ProcessTypes
BY DEF TypeOK, CallTypes, ProcessTypes

LEMMA OutcomeTypes ==
  /\ \A c \in Calls : Outcomes(c) \subseteq AttemptOutcomes
  /\ \A o \in AttemptOutcomes : ~isToken(o) => errorOf(o) \in Errors
BY DEF Outcomes, AttemptOutcomes, Reading, isToken, errorOf, Errors

(* What a call of Do does, by the outcome of the attempt.                  *)
LEMMA DoDone ==
  ASSUME NEW c \in Calls, Do(c)
  PROVE  \E outcome \in Outcomes(c) :
           /\ attempts' = [attempts EXCEPT ![c] = Append(attempts[c], outcome)]
           /\ \/ /\ outcome = "token"
                 /\ token' = [token EXCEPT ![c].of = registry[c]]
                 /\ pc' = [pc EXCEPT ![c] = "reply"]
                 /\ UNCHANGED answered
              \/ /\ ~isToken(outcome)
                 /\ isFinal(outcome) \/ Len(attempts[c]) + 1 = retryAttempts
                 /\ answered' = [answered EXCEPT ![c] = errorOf(outcome)]
                 /\ pc' = [pc EXCEPT ![c] = "idle"]
                 /\ UNCHANGED token
              \/ /\ ~isFinal(outcome) /\ Len(attempts[c]) + 1 < retryAttempts
                 /\ UNCHANGED <<pc, token, answered>>
           /\ UNCHANGED <<cached, registry>>
           /\ pc[c] = "do"
BY DEF Do, isToken, Return, Goto

(* What a minute makes of an entry.                                        *)
LEMMA AgedCases ==
  ASSUME NEW e
  PROVE  /\ e = NoEntry => Aged(e) = NoEntry
         /\ e.left = 1 => Aged(e) = NoEntry
         /\ e # NoEntry /\ e.left = 0 => Aged(e) = [e EXCEPT !.age = e.age + 1]
         /\ e # NoEntry /\ e.left \notin {0, 1} =>
              Aged(e) = [e EXCEPT !.age = e.age + 1, !.left = e.left - 1]
<1>1. ASSUME e = NoEntry PROVE Aged(e) = NoEntry
  BY <1>1 DEF Aged
<1>2. ASSUME e.left = 1 PROVE Aged(e) = NoEntry
  BY <1>2 DEF Aged
<1>3. ASSUME e # NoEntry, e.left = 0 PROVE Aged(e) = [e EXCEPT !.age = e.age + 1]
  BY <1>3 DEF Aged
<1>4. ASSUME e # NoEntry, e.left \notin {0, 1}
      PROVE  Aged(e) = [e EXCEPT !.age = e.age + 1, !.left = e.left - 1]
  BY <1>4 DEF Aged
<1> QED BY <1>1, <1>2, <1>3, <1>4

LEMMA AgedTypes ==
  ASSUME NEW S, NoToken \in S, NEW e \in [of : S, age : Nat, left : Nat]
  PROVE  Aged(e) \in [of : S, age : Nat, left : Nat]
<1>1. NoEntry \in [of : S, age : Nat, left : Nat]
  BY DEF NoEntry
<1>2. CASE e = NoEntry \/ e.left = 1
  BY <1>1, <1>2, AgedCases
<1>3. CASE e # NoEntry /\ e.left = 0
  <2>1. Aged(e) = [e EXCEPT !.age = e.age + 1]
    BY <1>3, AgedCases
  <2> QED BY <2>1
<1>4. CASE e # NoEntry /\ e.left \notin {0, 1}
  <2>1. e.left - 1 \in Nat /\ e.age + 1 \in Nat
    BY <1>4
  <2>2. Aged(e) = [e EXCEPT !.age = e.age + 1, !.left = e.left - 1]
    BY <1>4, AgedCases
  <2> QED BY <2>1, <2>2
<1> QED BY <1>2, <1>3, <1>4

LEMMA OlderTypes ==
  ASSUME NEW S, NEW f \in [Calls -> [of : S, age : Nat]]
  PROVE  \A c \in Calls :
           /\ f[c] \in [of : S, age : Nat]
           /\ [f[c] EXCEPT !.age = f[c].age + 1] \in [of : S, age : Nat]
OBVIOUS

LEMMA InitTypes == Init => TypeOK
<1> SUFFICES ASSUME Init PROVE TypeOK
  OBVIOUS
<1>1. CallTypes
  <2>1. attempts \in [Calls -> Seq(AttemptOutcomes)]
    BY EmptySeq DEF Init, NoCalls
  <2>2. /\ cached \in [Registries -> [of : Registries \cup {NoToken}, age : Nat, left : Nat]]
        /\ token \in [Calls -> [of : Registries \cup {NoToken}, age : Nat]]
    BY DEF Init, NoCalls, NoEntry, NotGot
  <2>3. RegistryRefreshTokenCacheExpirationTime \in Int
    BY ConstantTypes DEF Init
  <2> QED BY <2>1, <2>2, <2>3 DEF Init, NoCalls, CallTypes
<1>2. ProcessTypes
  <2>1. failures = 0 /\ MaxFailures \in Nat
    BY ConstantTypes DEF Init
  <2>2. failures \in 0 .. MaxFailures
    BY ONLY <2>1
  <2> QED BY <2>2 DEF Init, ProcessTypes
<1> QED BY <1>1, <1>2, TypesSplit

LEMMA CallTypesKept ==
  ASSUME CallTypes, [Next]_vars
  PROVE  CallTypes'
<1> USE DEF CallTypes
<1>1. CASE CallsAlone
  BY <1>1 DEF CallsAlone, given, callVars
<1>2. CASE CallsEnd
  <2>1. [c \in Calls |-> <<>>] \in [Calls -> Seq(AttemptOutcomes)]
    BY EmptySeq
  <2>2. /\ [r \in Registries |-> NoEntry] \in
             [Registries -> [of : Registries \cup {NoToken}, age : Nat, left : Nat]]
        /\ [c \in Calls |-> NotGot] \in [Calls -> [of : Registries \cup {NoToken}, age : Nat]]
    BY DEF NoEntry, NotGot
  <2> QED BY <1>2, <2>1, <2>2, EndIsEmpty DEF given
<1>3. CASE CallsStep
  <2> USE <1>3
  <2>0. UNCHANGED given
    BY DEF CallsStep, environment
  <2>1. ASSUME NEW c \in Calls, NEW r \in Registries, Call(c, r)
        PROVE  CallTypes'
    BY <2>0, <2>1 DEF Call, Goto, given, NotGot
  <2>2. ASSUME NEW c \in Calls, LookupHit(c)
        PROVE  CallTypes'
    <3>1. [of |-> cached[registry[c]].of, age |-> cached[registry[c]].age]
            \in [of : Registries \cup {NoToken}, age : Nat]
      OBVIOUS
    <3> QED BY <2>0, <2>2, <3>1 DEF LookupHit, Goto, Return, given
  <2>8. ASSUME NEW c \in Calls, LookupMiss(c) \/ NoArmToken(c)
        PROVE  CallTypes'
    BY <2>0, <2>8 DEF LookupMiss, NoArmToken, Goto, Return, given, Errors
  <2>3. ASSUME NEW c \in Calls, Do(c)
        PROVE  CallTypes'
    <3>1. PICK outcome \in Outcomes(c) :
            /\ attempts' = [attempts EXCEPT ![c] = Append(attempts[c], outcome)]
            /\ \/ /\ token' = [token EXCEPT ![c].of = registry[c]]
                  /\ pc' = [pc EXCEPT ![c] = "reply"]
                  /\ UNCHANGED answered
               \/ /\ ~isToken(outcome)
                  /\ answered' = [answered EXCEPT ![c] = errorOf(outcome)]
                  /\ pc' = [pc EXCEPT ![c] = "idle"]
                  /\ UNCHANGED token
               \/ UNCHANGED <<pc, token, answered>>
            /\ UNCHANGED <<cached, registry>>
      BY <2>3, DoDone
    <3>2. outcome \in AttemptOutcomes /\ (~isToken(outcome) => errorOf(outcome) \in Errors)
      BY <3>1, OutcomeTypes
    <3>3. Append(attempts[c], outcome) \in Seq(AttemptOutcomes)
      BY <3>2, AppendProperties
    <3>4. [token EXCEPT ![c].of = registry[c]] \in
            [Calls -> [of : Registries \cup {NoToken}, age : Nat]]
      OBVIOUS
    <3>5. token' \in [Calls -> [of : Registries \cup {NoToken}, age : Nat]]
      BY <3>1, <3>4
    <3>6. attempts' \in [Calls -> Seq(AttemptOutcomes)]
      BY <3>1, <3>3
    <3>7. pc' \in [Calls -> {"idle", "lookup", "do", "reply", "set"}]
      BY <3>1
    <3>8. answered' \in [Calls -> {"nothing", "token"} \cup Errors]
      BY <3>1, <3>2
    <3> QED BY <2>0, <3>1, <3>5, <3>6, <3>7, <3>8 DEF given
  <2>4. ASSUME NEW c \in Calls, AnswerToken(c) \/ SetFails(c)
        PROVE  CallTypes'
    BY <2>0, <2>4 DEF AnswerToken, SetFails, Goto, given
  <2>5. ASSUME NEW c \in Calls, SetToken(c)
        PROVE  CallTypes'
    BY <2>0, <2>5 DEF SetToken, Goto, given
  <2>6. ASSUME NEW r \in Registries, Evict(r)
        PROVE  CallTypes'
    BY <2>0, <2>6 DEF Evict, given, NoEntry
  <2>7. ASSUME Minute
        PROVE  CallTypes'
    <3>1. \A r \in Registries :
            Aged(cached[r]) \in [of : Registries \cup {NoToken}, age : Nat, left : Nat]
      BY AgedTypes
    <3>2. token' \in [Calls -> [of : Registries \cup {NoToken}, age : Nat]]
      <4>1. \A c \in Calls :
              /\ token[c] \in [of : Registries \cup {NoToken}, age : Nat]
              /\ [token[c] EXCEPT !.age = token[c].age + 1]
                    \in [of : Registries \cup {NoToken}, age : Nat]
        BY OlderTypes
      <4>2. token' = [c \in Calls |-> IF Holding(c)
                                       THEN [token[c] EXCEPT !.age = token[c].age + 1]
                                       ELSE token[c]]
        BY <2>7 DEF Minute
      <4> HIDE DEF CallTypes
      <4> QED BY <4>1, <4>2
    <3>3. cached' \in [Registries -> [of : Registries \cup {NoToken}, age : Nat, left : Nat]]
      BY <2>7, <3>1 DEF Minute
    <3> QED BY <2>0, <2>7, <3>2, <3>3 DEF Minute, given
  <2> QED BY <2>1, <2>2, <2>3, <2>4, <2>5, <2>6, <2>7, <2>8 DEF CallsStep, CallStep
<1> QED BY <1>1, <1>2, <1>3, StepKinds

LEMMA ProcessTypesKept ==
  ASSUME ProcessTypes, [Next]_vars
  PROVE  ProcessTypes'
<1> USE DEF ProcessTypes, environment, process
<1>1. CASE MainStep
  BY <1>1 DEF MainStep, StartProcess, LoadConfiguration, CreateClients,
     CreateServer, initCertController, GoSetupControllers, StartManager, End
<1>2. CASE setupControllers \/ RotatorReady \/ ServeWebhook
  BY <1>2 DEF setupControllers, RotatorReady, ServeWebhook, End
<1>3. CASE \/ CreateARMAuthorizerFails \/ CreateRedisClientFails
           \/ CreateManagerFails \/ initCertControllerFails \/ Stop
  <2>1. MaxFailures \in Nat /\ failures \in 0 .. MaxFailures
    BY ConstantTypes
  <2>2. failures < MaxFailures => failures + 1 \in 0 .. MaxFailures
    BY ONLY <2>1
  <2>3. PICK reason \in {"dependency", "stopped"} : Fails(reason)
    BY <1>3 DEF CreateARMAuthorizerFails, CreateRedisClientFails,
       CreateManagerFails, initCertControllerFails, Stop
  <2> QED BY <2>2, <2>3 DEF Fails, End
<1>4. CASE \/ \E c \in Calls, r \in Registries : CallArrives(c, r)
           \/ TokenStep \/ MemoryStep
  BY <1>4 DEF CallArrives, TokenStep, MemoryStep
<1>5. CASE UNCHANGED vars
  BY <1>5 DEF vars
<1> QED BY <1>1, <1>2, <1>3, <1>4, <1>5 DEF Next

(* Every state of every instance has the variables' types.                 *)
THEOREM TypeCorrect == Spec => []TypeOK
<1>1. TypeOK /\ [Next]_vars => TypeOK'
  <2> SUFFICES ASSUME TypeOK, [Next]_vars PROVE TypeOK'
    OBVIOUS
  <2>1. CallTypes' /\ ProcessTypes'
    BY TypesSplit, CallTypesKept, ProcessTypesKept
  <2> QED BY <2>1 DEF TypeOK, CallTypes, ProcessTypes
<1> QED BY InitTypes, <1>1, PTL DEF Spec

-----------------------------------------------------------------------------
(* The process                                                             *)

LEMMA InitProcess == Init => ProcessInv
BY DEF Init, NoCalls, ProcessInv

\* What the end of the process leaves of the invariant.
LEMMA EndKeepsProcess ==
  ASSUME TypeOK, ProcessInv, NEW reason, End(reason), reason # "panic",
         configuration.EnableCertRotation => reason # "no certificates"
  PROVE  ProcessInv'
BY DEF TypeOK, ProcessInv, End, given, isValidConfiguration, ValidatePositiveInt

\* A configuration that was found valid has the heartbeat a period.
LEMMA SoundTicker ==
  ASSUME configuration \in Configurations, isValidConfiguration
  PROVE  ~TickerPanics
<1>1. configuration.HeartbeatFrequency > 0
  BY DEF isValidConfiguration, ValidatePositiveInt
<1>2. configuration.HeartbeatFrequency \in Int
  BY ConstantTypes
<1>3. ~(configuration.HeartbeatFrequency <= 0)
  BY ONLY <1>1, <1>2
<1> QED BY ONLY <1>3 DEF TickerPanics

LEMMA ProcessKept ==
  ASSUME TypeOK, ProcessInv, [Next]_vars
  PROVE  ProcessInv'
<1>0. configuration' = configuration => (isValidConfiguration' <=> isValidConfiguration)
  BY DEF isValidConfiguration, ValidatePositiveInt
<1> USE DEF TypeOK, environment, process, given
<1>1. ASSUME StartProcess PROVE ProcessInv'
  BY <1>0, <1>1 DEF StartProcess, ProcessInv, callVars
<1>2. ASSUME LoadConfiguration PROVE ProcessInv'
  <2>1. CASE main' = "wiring" /\ isValidConfiguration
             /\ UNCHANGED <<process, callVars, ended, environment>>
    BY <1>0, <1>2, <2>1 DEF LoadConfiguration, ProcessInv, callVars
  <2>2. CASE End("configuration")
    BY <2>2, EndKeepsProcess
  <2> QED BY <1>2, <2>1, <2>2 DEF LoadConfiguration
<1>3. ASSUME CreateClients PROVE ProcessInv'
  <2>1. ~TickerPanics
    BY <1>3, SoundTicker DEF CreateClients, ProcessInv, ProcessTypes
  <2>2. CASE End("configuration")
    BY <2>2, EndKeepsProcess
  <2>3. CASE main' = "clients created" /\ UNCHANGED <<process, callVars, ended, environment>>
    BY <1>0, <1>3, <2>3 DEF CreateClients, ProcessInv, callVars
  <2> QED BY <1>3, <2>1, <2>2, <2>3 DEF CreateClients
<1>4. ASSUME CreateServer PROVE ProcessInv'
  BY <1>0, <1>4 DEF CreateServer, ProcessInv, callVars
<1>5. ASSUME initCertController PROVE ProcessInv'
  BY <1>0, <1>5 DEF initCertController, ProcessInv, callVars
<1>6. ASSUME GoSetupControllers PROVE ProcessInv'
  BY <1>0, <1>6 DEF GoSetupControllers, ProcessInv, callVars
<1>7. ASSUME StartManager PROVE ProcessInv'
  BY <1>0, <1>7 DEF StartManager, ProcessInv, callVars
<1>8. ASSUME setupControllers PROVE ProcessInv'
  BY <1>0, <1>8 DEF setupControllers, ProcessInv, callVars
<1>9. ASSUME RotatorReady PROVE ProcessInv'
  BY <1>0, <1>9 DEF RotatorReady, ProcessInv, callVars
<1>10. ASSUME ServeWebhook PROVE ProcessInv'
  <2>1. CASE serving' = TRUE /\ mounted
             /\ UNCHANGED <<main, IsReady, setup, rotated, callVars, ended, environment>>
    BY <1>0, <1>10, <2>1 DEF ServeWebhook, ProcessInv, callVars
  <2>2. CASE ~mounted /\ End("no certificates")
    <3>1. ~configuration.EnableCertRotation
      BY <1>10, <2>2 DEF ServeWebhook, ProcessInv
    <3> QED BY <2>2, <3>1, EndKeepsProcess
  <2> QED BY <1>10, <2>1, <2>2 DEF ServeWebhook
<1>11. ASSUME \/ CreateARMAuthorizerFails \/ CreateRedisClientFails
              \/ CreateManagerFails \/ initCertControllerFails \/ Stop
       PROVE  ProcessInv'
  <2>1. End("dependency") \/ End("stopped")
    BY <1>11 DEF CreateARMAuthorizerFails, CreateRedisClientFails,
       CreateManagerFails, initCertControllerFails, Stop, Fails
  <2> QED BY <2>1, EndKeepsProcess
<1>12. ASSUME \/ \E c \in Calls, r \in Registries : CallArrives(c, r)
              \/ TokenStep \/ MemoryStep
       PROVE  ProcessInv'
  <2>1. UNCHANGED <<main, process, ended, environment>>
    BY <1>12 DEF CallArrives, TokenStep, MemoryStep
  <2>2. \A c \in Calls : pc'[c] # "idle" => pc[c] # "idle" \/ serving
    <3>1. ASSUME NEW c \in Calls, NEW r \in Registries, CallArrives(c, r)
          PROVE  \A d \in Calls : pc'[d] # "idle" => pc[d] # "idle" \/ serving
      BY <3>1 DEF CallArrives
    <3>2. ASSUME NEW c \in Calls, CallStep(c)
          PROVE  \A d \in Calls : pc'[d] # "idle" => pc[d] # "idle" \/ serving
      BY <3>2 DEF CallStep, LookupHit, LookupMiss, NoArmToken, Do, AnswerToken,
         SetToken, SetFails, Goto, Return
    <3>3. ASSUME MemoryStep
          PROVE  \A d \in Calls : pc'[d] # "idle" => pc[d] # "idle" \/ serving
      BY <3>3 DEF MemoryStep, Minute, Evict
    <3> QED BY <1>12, <3>1, <3>2, <3>3 DEF TokenStep
  <2> QED BY <1>0, <2>1, <2>2 DEF ProcessInv
<1>13. ASSUME UNCHANGED vars PROVE ProcessInv'
  BY <1>0, <1>13 DEF vars, ProcessInv, callVars
<1> QED BY <1>1, <1>2, <1>3, <1>4, <1>5, <1>6, <1>7, <1>8, <1>9, <1>10, <1>11,
           <1>12, <1>13 DEF Next, MainStep

(* The process does not panic, and with rotation enabled the webhook is    *)
(* not served before there are certificates.                               *)
THEOREM EndsNotItsOwn == Spec => []EndsAreNotItsOwn
<1>1. ProcessInv => EndsAreNotItsOwn
  BY DEF ProcessInv, EndsAreNotItsOwn
<1> QED BY InitProcess, ProcessKept, TypeCorrect, <1>1, PTL DEF Spec

-----------------------------------------------------------------------------
(* The tokens                                                              *)

LEMMA InitTokens == Init => TokensInv
<1> SUFFICES ASSUME Init PROVE TokensInv
  OBVIOUS
<1>1. \A r \in Registries : cached[r].of = NoToken
  BY DEF Init, NoCalls, NoEntry
<1>2. \A c \in Calls : pc[c] = "idle" /\ answered[c] = "nothing"
  BY DEF Init, NoCalls
<1> QED BY <1>1, <1>2 DEF TokensInv

LEMMA TokensKept ==
  ASSUME TypeOK, TokensInv, [Next]_vars
  PROVE  TokensInv'
<1> USE DEF TokensInv
<1>0. CallTypes
  BY TypesSplit
<1>1. CASE CallsAlone
  BY <1>1 DEF CallsAlone, callVars
<1>2. CASE CallsEnd
  BY <1>2, EndIsEmpty DEF NoEntry
<1>3. CASE CallsStep
  <2>1. ASSUME NEW c \in Calls, NEW r \in Registries, Call(c, r)
        PROVE  TokensInv'
    BY <1>0, <2>1 DEF Call, Goto, CallTypes
  <2>2. ASSUME NEW c \in Calls, LookupHit(c)
        PROVE  TokensInv'
    BY <1>0, <2>2 DEF LookupHit, Goto, Return, CallTypes
  <2>3. ASSUME NEW c \in Calls, LookupMiss(c) \/ NoArmToken(c)
        PROVE  TokensInv'
    BY <1>0, <2>3 DEF LookupMiss, NoArmToken, Goto, Return, CallTypes
  <2>4. ASSUME NEW c \in Calls, Do(c)
        PROVE  TokensInv'
    <3>1. \/ /\ token' = [token EXCEPT ![c].of = registry[c]]
             /\ pc' = [pc EXCEPT ![c] = "reply"]
             /\ UNCHANGED answered
          \/ /\ \E e \in Errors : answered' = [answered EXCEPT ![c] = e]
             /\ pc' = [pc EXCEPT ![c] = "idle"]
             /\ UNCHANGED token
          \/ UNCHANGED <<pc, token, answered>>
      BY <2>4, DoDone, OutcomeTypes
    <3>2. UNCHANGED <<cached, registry>>
      BY <2>4, DoDone
    <3>3. "token" \notin Errors
      BY DEF Errors
    <3> QED BY <1>0, <3>1, <3>2, <3>3 DEF CallTypes
  <2>5. ASSUME NEW c \in Calls, AnswerToken(c) \/ SetFails(c)
        PROVE  TokensInv'
    BY <1>0, <2>5 DEF AnswerToken, SetFails, Goto, CallTypes
  <2>6. ASSUME NEW c \in Calls, SetToken(c)
        PROVE  TokensInv'
    BY <1>0, <2>6 DEF SetToken, Goto, CallTypes
  <2>7. ASSUME NEW r \in Registries, Evict(r)
        PROVE  TokensInv'
    BY <1>0, <2>7 DEF Evict, NoEntry, CallTypes
  <2>8. ASSUME Minute
        PROVE  TokensInv'
    <3>1. ASSUME NEW r \in Registries
          PROVE  cached'[r].of \in {r, NoToken}
      <4> DEFINE e == cached[r]
      <4>1. /\ cached'[r] = Aged(e)
            /\ e.of \in {r, NoToken}
            /\ e \in [of : Registries \cup {NoToken}, age : Nat, left : Nat]
        BY <1>0, <2>8 DEF Minute, CallTypes
      <4> HIDE DEF e
      <4>2. CASE e = NoEntry \/ e.left = 1
        <5>1. Aged(e) = NoEntry
          BY <4>2, AgedCases
        <5> QED BY <4>1, <5>1 DEF NoEntry
      <4>3. CASE e # NoEntry /\ e.left # 1
        <5>1. \/ Aged(e) = [e EXCEPT !.age = e.age + 1]
              \/ Aged(e) = [e EXCEPT !.age = e.age + 1, !.left = e.left - 1]
          BY <4>3, AgedCases
        <5> QED BY <4>1, <5>1
      <4> QED BY <4>2, <4>3
    <3>2. \A c \in Calls : token'[c].of = token[c].of
      BY <1>0, <2>8 DEF Minute, CallTypes
    <3> QED BY <2>8, <3>1, <3>2 DEF Minute
  <2> QED BY <1>3, <2>1, <2>2, <2>3, <2>4, <2>5, <2>6, <2>7, <2>8 DEF CallsStep, CallStep
<1> QED BY <1>1, <1>2, <1>3, StepKinds

(* A call that returns a token returns one that its registry has issued,   *)
(* whoever got it and whoever stored it.                                   *)
THEOREM TokensOfTheirRegistries == Spec => []TokenIsOfRegistry
<1>1. TokensInv => TokenIsOfRegistry
  BY DEF TokensInv, TokenIsOfRegistry
<1> QED BY InitTokens, TokensKept, TypeCorrect, <1>1, PTL DEF Spec

-----------------------------------------------------------------------------
(* The attempts                                                            *)

LEMMA InitAttempts == Init => AttemptsInv
BY DEF Init, NoCalls, AttemptsInv

LEMMA AttemptsKept ==
  ASSUME TypeOK, AttemptsInv, [Next]_vars
  PROVE  AttemptsInv'
<1>0. CallTypes /\ retryAttempts \in Nat \ {0}
  BY TypesSplit, ConstantTypes
<1>1. CASE CallsAlone
  BY <1>1 DEF CallsAlone, callVars, AttemptsInv
<1>2. CASE CallsEnd
  BY <1>2, EndIsEmpty DEF AttemptsInv
<1>3. CASE CallsStep
  <2>1. ASSUME NEW c \in Calls, NEW r \in Registries, Call(c, r)
        PROVE  AttemptsInv'
    BY <1>0, <2>1 DEF Call, Goto, CallTypes, AttemptsInv
  <2>2. ASSUME NEW c \in Calls, LookupHit(c) \/ NoArmToken(c)
        PROVE  AttemptsInv'
    BY <1>0, <2>2 DEF LookupHit, NoArmToken, Goto, Return, CallTypes, AttemptsInv
  <2>3. ASSUME NEW c \in Calls, LookupMiss(c)
        PROVE  AttemptsInv'
    <3>1. /\ attempts[c] = <<>> /\ Len(attempts[c]) = 0
          /\ pc[c] = "lookup" /\ answered[c] = "nothing"
      BY <2>3, EmptySeq DEF LookupMiss, AttemptsInv
    <3> QED BY <1>0, <2>3, <3>1 DEF LookupMiss, Goto, CallTypes, AttemptsInv
  <2>4. ASSUME NEW c \in Calls, Do(c)
        PROVE  AttemptsInv'
    <3>1. PICK outcome \in Outcomes(c) :
            /\ attempts' = [attempts EXCEPT ![c] = Append(attempts[c], outcome)]
            /\ \/ /\ outcome = "token"
                  /\ pc' = [pc EXCEPT ![c] = "reply"]
                  /\ UNCHANGED answered
               \/ /\ ~isToken(outcome)
                  /\ isFinal(outcome) \/ Len(attempts[c]) + 1 = retryAttempts
                  /\ answered' = [answered EXCEPT ![c] = errorOf(outcome)]
                  /\ pc' = [pc EXCEPT ![c] = "idle"]
               \/ /\ ~isFinal(outcome) /\ Len(attempts[c]) + 1 < retryAttempts
                  /\ UNCHANGED <<pc, answered>>
            /\ pc[c] = "do"
      BY <2>4, DoDone
    <3> DEFINE s == attempts[c]
               t == Append(s, outcome)
    <3>2. outcome \in AttemptOutcomes
      BY <3>1, OutcomeTypes
    <3>3. /\ Len(t) = Len(s) + 1 /\ Len(s) \in Nat
          /\ \A i \in 1..Len(s) : t[i] = s[i]
          /\ t[Len(s) + 1] = outcome
      <4>1. s \in Seq(AttemptOutcomes)
        BY <1>0 DEF CallTypes
      <4> HIDE DEF s
      <4> QED BY <3>2, <4>1, AppendProperties, LenProperties
    <3>4. answered[c] = "nothing" /\ \A i \in 1..Len(s) : ~Used(s[i])
      BY <3>1 DEF AttemptsInv
    <3>5. /\ attempts'[c] = t
          /\ \A d \in Calls \ {c} : /\ attempts'[d] = attempts[d]
                                    /\ pc'[d] = pc[d] /\ answered'[d] = answered[d]
      BY <1>0, <3>1 DEF CallTypes
    <3>6. ~Used(outcome) => \A i \in 1..Len(t) : ~Used(t[i])
      <4> HIDE DEF s, t
      <4> QED BY <3>3, <3>4
    <3> HIDE DEF s, t
    <3>7. CASE pc'[c] = "reply" /\ answered'[c] = "nothing"
      BY <3>5, <3>7 DEF AttemptsInv
    <3>8. CASE /\ pc'[c] = "idle" /\ answered'[c] = errorOf(outcome)
               /\ isFinal(outcome) \/ Len(s) + 1 = retryAttempts
      <4>1. errorOf(outcome) = "network" => ~isFinal(outcome) /\ ~Used(outcome)
        BY DEF errorOf, isFinal, Used
      <4>2. answered'[c] = "network" => /\ Len(t) = retryAttempts
                                        /\ \A i \in 1..Len(t) : ~Used(t[i])
        BY <3>3, <3>6, <3>8, <4>1
      <4> QED BY <3>5, <3>8, <4>2 DEF AttemptsInv
    <3>9. CASE /\ pc'[c] = "do" /\ answered'[c] = "nothing"
               /\ ~isFinal(outcome) /\ Len(s) + 1 < retryAttempts
      <4>1. ~Used(outcome)
        BY <3>9 DEF isFinal, Used
      <4>2. Len(t) < retryAttempts /\ \A i \in 1..Len(t) : ~Used(t[i])
        BY <3>3, <3>6, <3>9, <4>1
      <4> QED BY <3>5, <3>9, <4>2 DEF AttemptsInv
    <3>10. \/ pc'[c] = "reply" /\ answered'[c] = "nothing"
           \/ /\ pc'[c] = "idle" /\ answered'[c] = errorOf(outcome)
              /\ isFinal(outcome) \/ Len(s) + 1 = retryAttempts
           \/ /\ pc'[c] = "do" /\ answered'[c] = "nothing"
              /\ ~isFinal(outcome) /\ Len(s) + 1 < retryAttempts
      BY <1>0, <3>1, <3>4 DEF CallTypes, s
    <3> QED BY <3>7, <3>8, <3>9, <3>10
  <2>5. ASSUME NEW c \in Calls, AnswerToken(c) \/ SetToken(c) \/ SetFails(c)
        PROVE  AttemptsInv'
    BY <1>0, <2>5 DEF AnswerToken, SetToken, SetFails, Goto, CallTypes, AttemptsInv
  <2>6. ASSUME (\E r \in Registries : Evict(r)) \/ Minute
        PROVE  AttemptsInv'
    BY <2>6 DEF Evict, Minute, AttemptsInv
  <2> QED BY <1>3, <2>1, <2>2, <2>3, <2>4, <2>5, <2>6 DEF CallsStep, CallStep
<1> QED BY <1>1, <1>2, <1>3, StepKinds

(* An error of the network is reported only when no attempt is left, and   *)
(* none of those made had met the registry.                                *)
THEOREM RetriesOfNetworkErrors == Spec => []NetworkErrorsAreRetried
<1>1. TypeOK /\ AttemptsInv => NetworkErrorsAreRetried
  <2> SUFFICES ASSUME TypeOK, AttemptsInv, NEW c \in Calls, answered[c] = "network"
               PROVE  /\ Len(attempts[c]) = retryAttempts
                      /\ \A i \in DOMAIN attempts[c] :
                           attempts[c][i] \notin {"token", "bad response", "no such host"}
    BY DEF NetworkErrorsAreRetried
  <2>1. attempts[c] \in Seq(AttemptOutcomes)
    BY DEF TypeOK
  <2>2. DOMAIN attempts[c] = 1..Len(attempts[c])
    BY <2>1, LenProperties
  <2> QED BY <2>2 DEF AttemptsInv, Used
<1> QED BY InitAttempts, AttemptsKept, TypeCorrect, <1>1, PTL DEF Spec

-----------------------------------------------------------------------------
(* The ages                                                                *)

LEMMA InitAges == Init => AgesInv
<1> SUFFICES ASSUME Init PROVE AgesInv
  OBVIOUS
<1>1. \A r \in Registries : cached[r] = NoEntry
  BY DEF Init, NoCalls
<1>2. \A c \in Calls : pc[c] = "idle" /\ answered[c] = "nothing"
  BY DEF Init, NoCalls
<1> QED BY <1>1, <1>2 DEF AgesInv

LEMMA AgesKept ==
  ASSUME TypeOK, ProcessInv, AttemptsInv, AgesInv, [Next]_vars
  PROVE  AgesInv'
<1>0. CallTypes /\ MaxDelay \in Nat /\ TTL \in Int
  BY TypesSplit, ConstantTypes DEF CallTypes, TTL
<1>1. CASE CallsAlone
  BY <1>1 DEF CallsAlone, given, callVars, AgesInv, TTL
<1>2. CASE CallsEnd
  BY <1>2, EndIsEmpty DEF AgesInv
<1>3. CASE CallsStep
  <2>0. TTL' = TTL
    BY <1>3 DEF CallsStep, environment, given, TTL
  \* Who has a token to store runs in a process that found its time valid.
  <2>1. \A c \in Calls : pc[c] # "idle" => TTL >= 1
    <3>1. SUFFICES ASSUME NEW c \in Calls, pc[c] # "idle" PROVE TTL >= 1
      OBVIOUS
    <3>2. isValidConfiguration /\ TTL = configuration.CacheExpirationTime
      BY <3>1 DEF ProcessInv, TTL
    <3>3. TTL > 0
      BY <3>2 DEF isValidConfiguration, ValidatePositiveInt
    <3> QED BY ONLY <1>0, <3>3
  <2>2. ASSUME NEW c \in Calls, NEW r \in Registries, Call(c, r)
        PROVE  AgesInv'
    BY <1>0, <2>0, <2>2 DEF Call, Goto, CallTypes, AgesInv, NotGot
  <2>3. ASSUME NEW c \in Calls, LookupHit(c)
        PROVE  AgesInv'
    <3> DEFINE e == cached[registry[c]]
    <3>1. /\ e # NoEntry /\ e.age \in Nat /\ e.left \in Nat
      BY <1>0, <2>3 DEF LookupHit, NoEntry, CallTypes
    <3>2. e.left >= 1 /\ e.age + e.left <= TTL + MaxDelay
      BY <1>0, <3>1 DEF AgesInv, CallTypes
    <3>3. token'[c].age = e.age /\ pc'[c] = "idle"
      BY <1>0, <2>3 DEF LookupHit, Goto, Return, CallTypes
    <3>4. /\ UNCHANGED cached
          /\ \A d \in Calls \ {c} : /\ token'[d] = token[d] /\ pc'[d] = pc[d]
                                    /\ answered'[d] = answered[d]
      BY <1>0, <2>3 DEF LookupHit, Goto, Return, CallTypes
    <3> HIDE DEF e
    <3>5. e.age <= TTL + MaxDelay
      BY ONLY <1>0, <3>1, <3>2
    <3> QED BY <2>0, <3>3, <3>4, <3>5 DEF AgesInv
  <2>4. ASSUME NEW c \in Calls, LookupMiss(c) \/ NoArmToken(c)
        PROVE  AgesInv'
    <3>1. "no arm token" # "token"
      OBVIOUS
    <3> QED BY <1>0, <2>0, <2>4, <3>1 DEF LookupMiss, NoArmToken, Goto, Return, CallTypes, AgesInv
  <2>5. ASSUME NEW c \in Calls, Do(c)
        PROVE  AgesInv'
    <3>1. /\ \A d \in Calls : token'[d].age = token[d].age
          /\ UNCHANGED cached
      <4>1. /\ \/ token' = [token EXCEPT ![c].of = registry[c]]
               \/ UNCHANGED token
            /\ UNCHANGED cached
        BY <2>5, DoDone
      <4>2. \A d \in Calls : [token EXCEPT ![c].of = registry[c]][d].age = token[d].age
        BY <1>0 DEF CallTypes
      <4> QED BY <4>1, <4>2
    <3>2. /\ pc[c] = "do"
          /\ \A d \in Calls \ {c} : pc'[d] = pc[d] /\ answered'[d] = answered[d]
      <4>1. PICK e, l :
              \/ pc' = [pc EXCEPT ![c] = l] /\ UNCHANGED answered
              \/ pc' = [pc EXCEPT ![c] = l] /\ answered' = [answered EXCEPT ![c] = e]
              \/ UNCHANGED <<pc, answered>>
        BY <2>5, DoDone
      <4>2. pc[c] = "do"
        BY <2>5, DoDone
      <4> QED BY <1>0, <4>1, <4>2 DEF CallTypes
    <3>3. answered'[c] # "token"
      <4>1. \/ UNCHANGED answered
            \/ \E e \in Errors : answered' = [answered EXCEPT ![c] = e]
        BY <2>5, DoDone, OutcomeTypes
      <4>2. answered[c] = "nothing" /\ "token" \notin Errors
        BY <3>2 DEF AttemptsInv, Errors
      <4> QED BY <1>0, <4>1, <4>2 DEF CallTypes
    <3> QED BY <2>0, <3>1, <3>2, <3>3 DEF AgesInv
  <2>6. ASSUME NEW c \in Calls, AnswerToken(c)
        PROVE  AgesInv'
    <3>1. /\ token' = token /\ cached' = cached
          /\ pc[c] = "reply" /\ TTL >= 1
          /\ \A d \in Calls : pc'[d] # "idle" => pc[d] # "idle"
          /\ \A d \in Calls \ {c} : answered'[d] = answered[d]
      BY <1>0, <2>1, <2>6 DEF AnswerToken, Goto, CallTypes
    <3>2. token[c].age \in Nat /\ token[c].age <= MaxDelay
      BY <1>0, <3>1 DEF AgesInv, CallTypes
    <3>3. token[c].age <= TTL + MaxDelay
      BY ONLY <1>0, <3>1, <3>2
    <3> QED BY <2>0, <3>1, <3>3 DEF AgesInv
  <2>7. ASSUME NEW c \in Calls, SetFails(c)
        PROVE  AgesInv'
    BY <1>0, <2>0, <2>7 DEF SetFails, Goto, CallTypes, AgesInv
  <2>8. ASSUME NEW c \in Calls, SetToken(c)
        PROVE  AgesInv'
    <3>1. /\ token' = token /\ answered' = answered
          /\ pc[c] # "idle" /\ TTL >= 1
          /\ \A d \in Calls : pc'[d] # "idle" => pc[d] # "idle"
          /\ \A r \in Registries \ {registry[c]} : cached'[r] = cached[r]
          /\ cached'[registry[c]].age = token[c].age
          /\ cached'[registry[c]].left = TTL
      BY <1>0, <2>1, <2>8 DEF SetToken, Goto, CallTypes, TTL
    <3>2. token[c].age \in Nat /\ token[c].age <= MaxDelay
      BY <1>0, <3>1 DEF AgesInv, CallTypes
    <3>3. token[c].age + TTL <= TTL + MaxDelay
      BY ONLY <1>0, <3>1, <3>2
    <3> QED BY <2>0, <3>1, <3>3 DEF AgesInv
  <2>9. ASSUME NEW r \in Registries, Evict(r)
        PROVE  AgesInv'
    <3>1. /\ UNCHANGED <<pc, token, answered>>
          /\ \A q \in Registries : cached'[q] \in {cached[q], NoEntry}
      BY <1>0, <2>9 DEF Evict, CallTypes
    <3>2. NoEntry' = NoEntry
      BY DEF NoEntry
    <3> QED BY <2>0, <3>1, <3>2 DEF AgesInv
  <2>10. ASSUME Minute
         PROVE  AgesInv'
    <3>1. ASSUME NEW r \in Registries, cached'[r] # NoEntry
          PROVE  /\ cached'[r].left >= 1
                 /\ cached'[r].age + cached'[r].left <= TTL + MaxDelay
      <4> DEFINE e == cached[r]
                 f == cached'[r]
      <4>1. f = Aged(e) /\ e \in [of : Registries \cup {NoToken}, age : Nat, left : Nat]
        BY <1>0, <2>10 DEF Minute, CallTypes
      <4>2. f # NoEntry
        BY <3>1
      <4>3. e # NoEntry => e.left >= 1 /\ e.age + e.left <= TTL + MaxDelay
        BY DEF AgesInv
      <4> HIDE DEF e, f
      <4>4. e # NoEntry /\ e.left # 1
        BY <4>1, <4>2, AgedCases
      <4>5. e.left \notin {0, 1} /\ e.left \in Nat /\ e.age \in Nat
        BY ONLY <4>1, <4>3, <4>4
      <4>6. f = [e EXCEPT !.age = e.age + 1, !.left = e.left - 1]
        BY <4>1, <4>4, <4>5, AgedCases
      <4>7. f.age = e.age + 1 /\ f.left = e.left - 1
        BY ONLY <4>1, <4>6
      <4>8. f.left >= 1 /\ f.age + f.left <= TTL + MaxDelay
        BY ONLY <1>0, <4>3, <4>4, <4>5, <4>7
      <4> QED BY <4>8 DEF f
    <3>2. ASSUME NEW c \in Calls
          PROVE  /\ pc'[c] # "idle" => token'[c].age <= MaxDelay
                 /\ answered'[c] = "token" => token'[c].age <= TTL + MaxDelay
      <4>1. CASE Holding(c)
        <5>1. token[c].age < MaxDelay /\ token[c].age \in Nat /\ TTL >= 1
          BY <1>0, <2>1, <2>10, <4>1 DEF Minute, Holding, CallTypes
        <5>2. token'[c].age = token[c].age + 1
          BY <1>0, <2>10, <4>1 DEF Minute, CallTypes
        <5>3. token'[c].age <= MaxDelay /\ token'[c].age <= TTL + MaxDelay
          BY ONLY <1>0, <5>1, <5>2
        <5> QED BY <5>3
      <4>2. CASE ~Holding(c)
        <5>1. token'[c] = token[c] /\ pc'[c] = pc[c] /\ answered'[c] = answered[c]
          BY <1>0, <2>10, <4>2 DEF Minute, CallTypes
        <5> QED BY <5>1 DEF AgesInv
      <4> QED BY <4>1, <4>2
    <3>3. NoEntry' = NoEntry
      BY DEF NoEntry
    <3> QED BY <2>0, <3>1, <3>2, <3>3 DEF AgesInv
  <2> QED BY <1>3, <2>2, <2>3, <2>4, <2>5, <2>6, <2>7, <2>8, <2>9, <2>10
          DEF CallsStep, CallStep
<1> QED BY <1>1, <1>2, <1>3, StepKinds

(* No call returns a token that is older than the configured time and a    *)
(* delay, whatever the configuration is.                                   *)
THEOREM RecentTokens == Spec => []TokensAreRecent
<1>1. AgesInv => TokensAreRecent
  BY DEF AgesInv, TokensAreRecent, TTL
<1> QED BY InitProcess, ProcessKept, InitAttempts, AttemptsKept, InitAges, AgesKept,
           TypeCorrect, <1>1, PTL DEF Spec
-----------------------------------------------------------------------------
(* Liveness. The provers know nothing of ENABLED: that the guard of a step *)
(* enables it is a hypothesis, GuardsEnable, which TLC evaluates. With it  *)
(* fairness says that no step is put off whose guard holds for good. And   *)
(* that there are only MaxFailures failures is stated as what it comes to  *)
(* in the end: they cease.                                                 *)

\* Kubernetes and the Go scheduler run main; the scheduler runs the goroutine
\* once the channel is closed; the manager runs the rotator and the webhook.
ProcessesRun ==
  /\ [](main # "running") => <><<MainStep>>_vars
  /\ [](setup = "waiting" /\ IsReady) => <><<setupControllers>>_vars
  /\ [](main = "running" /\ configuration.EnableCertRotation /\ ~rotated)
       => <><<RotatorReady>>_vars
  /\ [](main = "running" /\ setup = "registered" /\ ~serving)
       => <><<ServeWebhook>>_vars

(* Each guard enables its step, for it to be taken and change something.   *)
GuardsEnable ==
  /\ main # "running" => ENABLED <<MainStep>>_vars
  /\ setup = "waiting" /\ IsReady => ENABLED <<setupControllers>>_vars
  /\ main = "running" /\ configuration.EnableCertRotation /\ ~rotated
       => ENABLED <<RotatorReady>>_vars
  /\ main = "running" /\ setup = "registered" /\ ~serving
       => ENABLED <<ServeWebhook>>_vars

LEMMA FairnessSuffices == FairSpec /\ []GuardsEnable => Spec /\ []ProcessesRun
BY PTL DEF FairSpec, GuardsEnable, ProcessesRun

FailuresCease == <>[][UNCHANGED failures]_vars

\* The goroutine runs whenever the manager does, and the channel is closed as
\* soon as there is nothing more to wait for.
ReadyInv ==
  /\ rotated => main = "running"
  /\ main \in {"starting", "running"} => setup # "none"
  /\ main \in {"initialized", "starting", "running"} =>
       (IsReady <=> (configuration.EnableCertRotation => rotated))

LEMMA InitReady == Init => ReadyInv
BY DEF Init, ReadyInv

LEMMA ReadyKept ==
  ASSUME ProcessTypes, ProcessInv, ReadyInv, [Next]_vars
  PROVE  ReadyInv'
<1> USE DEF ReadyInv, environment, process
<1>1. ASSUME NEW reason, End(reason) PROVE ReadyInv'
  BY <1>1 DEF End
<1>2. CASE StartProcess
  BY <1>2 DEF StartProcess
<1>3. CASE LoadConfiguration
  BY <1>1, <1>3 DEF LoadConfiguration
<1>4. CASE CreateClients
  <2>1. CASE End("configuration") \/ End("panic")
    BY <1>1, <2>1
  <2>2. CASE main' = "clients created" /\ UNCHANGED process /\ UNCHANGED environment
    BY <1>4, <2>2 DEF CreateClients
  <2> QED BY <1>4, <2>1, <2>2 DEF CreateClients
<1>5. CASE CreateServer
  BY <1>5 DEF CreateServer
<1>6. CASE initCertController
  <2>1. rotated = FALSE /\ setup = "none"
    BY <1>6 DEF initCertController, ProcessTypes, ProcessInv
  <2> QED BY <1>6, <2>1 DEF initCertController
<1>7. CASE GoSetupControllers
  BY <1>7 DEF GoSetupControllers
<1>8. CASE StartManager
  BY <1>8 DEF StartManager
<1>9. CASE setupControllers
  <2>1. main \in {"starting", "running"}
    BY <1>9 DEF setupControllers, ProcessInv
  <2> QED BY <1>9, <2>1 DEF setupControllers
<1>10. CASE RotatorReady
  BY <1>1, <1>10 DEF RotatorReady
<1>11. CASE ServeWebhook
  <2>1. CASE End("no certificates")
    BY <1>1, <2>1
  <2>2. CASE UNCHANGED <<main, IsReady, setup, rotated, configuration>>
    BY <2>2
  <2> QED BY <1>11, <2>1, <2>2 DEF ServeWebhook
<1>12. CASE \/ CreateARMAuthorizerFails \/ CreateRedisClientFails
            \/ CreateManagerFails \/ initCertControllerFails \/ Stop
  BY <1>1, <1>12 DEF CreateARMAuthorizerFails, CreateRedisClientFails,
     CreateManagerFails, initCertControllerFails, Stop, Fails
<1>13. CASE \/ \E c \in Calls, r \in Registries : CallArrives(c, r)
            \/ TokenStep \/ MemoryStep \/ UNCHANGED vars
  BY <1>13 DEF CallArrives, TokenStep, MemoryStep, vars
<1> QED BY <1>2, <1>3, <1>4, <1>5, <1>6, <1>7, <1>8, <1>9, <1>10, <1>11, <1>12, <1>13
        DEF Next, MainStep

(* What it takes to serve does not go away.                                *)
LEMMA CanServeKept ==
  ASSUME ProcessTypes, CanServe, [Next]_vars
  PROVE  CanServe' /\ configuration' = configuration
<1> USE DEF environment
<1>1. configuration' = configuration /\ (mounted => mounted')
  <2>1. ASSUME MainStep PROVE UNCHANGED <<configuration, mounted>>
    BY <2>1 DEF MainStep, StartProcess, LoadConfiguration, CreateClients,
       CreateServer, initCertController, GoSetupControllers, StartManager, End
  <2>2. ASSUME setupControllers \/ ServeWebhook PROVE UNCHANGED <<configuration, mounted>>
    BY <2>2 DEF setupControllers, ServeWebhook, End
  <2>3. ASSUME RotatorReady PROVE configuration' = configuration /\ (mounted => mounted')
    BY <2>3 DEF RotatorReady, End
  <2>4. ASSUME \/ CreateARMAuthorizerFails \/ CreateRedisClientFails
               \/ CreateManagerFails \/ initCertControllerFails \/ Stop
        PROVE  UNCHANGED <<configuration, mounted>>
    BY <2>4 DEF CreateARMAuthorizerFails, CreateRedisClientFails,
       CreateManagerFails, initCertControllerFails, Stop, Fails, End
  <2>5. ASSUME \/ \E c \in Calls, r \in Registries : CallArrives(c, r)
               \/ TokenStep \/ MemoryStep \/ UNCHANGED vars
        PROVE  UNCHANGED <<configuration, mounted>>
    BY <2>5 DEF CallArrives, TokenStep, MemoryStep, vars
  <2> QED BY <2>1, <2>2, <2>3, <2>4, <2>5 DEF Next
<1> QED BY <1>1 DEF CanServe, isValidConfiguration, CanAuthorize, IsLocalDevelopment,
           ValidatePositiveInt

(* Main goes one place on, from wherever it stands.                        *)
MainGoesOn ==
  /\ main = "ended" => main' = "loading"
  /\ main = "loading" => main' = "wiring"
  /\ main = "wiring" => main' = "clients created"
  /\ main = "clients created" => main' = "server created"
  /\ main = "server created" => main' = "initialized"
  /\ main = "initialized" => main' = "starting"
  /\ main = "starting" => main' = "running"
  /\ main # "running"

NothingIsLost ==
  /\ rotated => rotated'
  /\ IsReady => IsReady'
  /\ setup = "waiting" => setup' \in {"waiting", "registered"}
  /\ setup = "registered" => setup' = "registered"
  /\ serving => serving'

(* Without failures a process that can serve never ends: its validation    *)
(* passes, and neither a ticker nor the rotator nor the webhook ends it.   *)
LEMMA MainStepGoesOn ==
  ASSUME ProcessTypes, ProcessInv, CanServe, MainStep
  PROVE  MainGoesOn
<1>1. ~TickerPanics
  BY SoundTicker DEF CanServe, ProcessTypes
<1> QED BY <1>1 DEF MainStep, StartProcess, LoadConfiguration, CreateClients,
           CreateServer, initCertController, GoSetupControllers, StartManager,
           CanServe, MainGoesOn

LEMMA QuietSteps ==
  ASSUME ProcessTypes, ProcessInv, ReadyInv, CanServe, [Next]_vars, UNCHANGED failures
  PROVE  \/ MainGoesOn
         \/ main' = main /\ NothingIsLost
<1> USE DEF environment, process
<1>1. ASSUME \/ CreateARMAuthorizerFails \/ CreateRedisClientFails
             \/ CreateManagerFails \/ initCertControllerFails \/ Stop
      PROVE  FALSE
  <2>1. failures' = failures + 1
    BY <1>1 DEF CreateARMAuthorizerFails, CreateRedisClientFails,
       CreateManagerFails, initCertControllerFails, Stop, Fails
  <2>2. failures \in 0..MaxFailures /\ MaxFailures \in Nat
    BY ConstantTypes DEF ProcessTypes
  <2>3. failures + 1 # failures
    BY ONLY <2>2
  <2> QED BY <2>1, <2>3
<1>2. CASE MainStep
  BY <1>2, MainStepGoesOn
<1>3. CASE setupControllers
  BY <1>3 DEF setupControllers, NothingIsLost
<1>4. CASE RotatorReady
  BY <1>4 DEF RotatorReady, NothingIsLost, ProcessInv
<1>5. CASE ServeWebhook
  BY <1>5 DEF ServeWebhook, NothingIsLost, ProcessInv, CanServe
<1>6. CASE \/ \E c \in Calls, r \in Registries : CallArrives(c, r)
           \/ TokenStep \/ MemoryStep \/ UNCHANGED vars
  BY <1>6 DEF CallArrives, TokenStep, MemoryStep, vars, NothingIsLost
<1> QED BY <1>1, <1>2, <1>3, <1>4, <1>5, <1>6 DEF Next

(* Nobody waits for ever: main starts the manager while the goroutine      *)
(* waits for the channel, the manager runs the rotator, which closes it,   *)
(* and the webhook that the goroutine registers is served. After any       *)
(* failures, wherever they struck, the replica serves, and goes on to.     *)
THEOREM ServesInTheEnd ==
  FairSpec /\ []GuardsEnable /\ FailuresCease => ServesForGood
<1> DEFINE Inv == ProcessTypes /\ ProcessInv /\ ReadyInv
           Quiet == UNCHANGED failures
           Ended == main = "ended"
           Loading == main = "loading"
           Wiring == main = "wiring"
           Clients == main = "clients created"
           Created == main = "server created"
           Initialized == main = "initialized"
           Starting == main = "starting"
           Running == main = "running"
           Rotates == configuration.EnableCertRotation /\ ~rotated
           Waiting == setup = "waiting"
           Registered == setup = "registered"
           Safe == Inv /\ CanServe
<1>1. Spec => []Inv
  <2>1. TypeOK => ProcessTypes
    BY TypesSplit
  <2> QED BY <2>1, TypeCorrect, InitProcess, ProcessKept, InitReady, ReadyKept, PTL
          DEF Spec
<1>2. Inv /\ CanServe /\ [Next]_vars => CanServe'
  BY CanServeKept
<1>3. Safe => Ended \/ Loading \/ Wiring \/ Clients \/ Created \/ Initialized
                \/ Starting \/ Running
  BY DEF ProcessTypes
<1>4. Safe /\ [Next]_vars /\ [Quiet]_vars =>
        /\ Ended => Ended' \/ Loading'
        /\ Loading => Loading' \/ Wiring'
        /\ Wiring => Wiring' \/ Clients'
        /\ Clients => Clients' \/ Created'
        /\ Created => Created' \/ Initialized'
        /\ Initialized => Initialized' \/ Starting'
        /\ Starting => Starting' \/ Running'
        /\ Running => Running'
  <2>1. [Quiet]_vars => UNCHANGED failures
    BY DEF vars
  <2> QED BY <2>1, QuietSteps DEF MainGoesOn
<1>5. Safe /\ <<MainStep>>_vars =>
        /\ Ended => Loading'
        /\ Loading => Wiring'
        /\ Wiring => Clients'
        /\ Clients => Created'
        /\ Created => Initialized'
        /\ Initialized => Starting'
        /\ Starting => Running'
  BY MainStepGoesOn DEF MainGoesOn
<1>6. Safe /\ [Next]_vars /\ [Quiet]_vars /\ Running =>
        /\ ~Rotates => ~Rotates'
        /\ IsReady => IsReady'
        /\ Waiting => Waiting' \/ Registered'
        /\ Registered => Registered'
        /\ serving => serving'
  <2>1. [Quiet]_vars => UNCHANGED failures
    BY DEF vars
  <2>2. Safe /\ [Next]_vars => configuration' = configuration
    BY CanServeKept
  <2> QED BY <2>1, <2>2, QuietSteps DEF MainGoesOn, NothingIsLost
<1>7. Safe /\ [Next]_vars /\ [Quiet]_vars =>
        /\ <<RotatorReady>>_vars => ~Rotates'
        /\ <<setupControllers>>_vars => Registered'
        /\ <<ServeWebhook>>_vars => serving'
  BY DEF RotatorReady, setupControllers, ServeWebhook, ProcessInv, CanServe
<1>8. Safe /\ Running => (Waiting \/ Registered) /\ (~Rotates => IsReady)
  BY DEF ProcessTypes, ReadyInv
<1>9. main # "running" \/ Running
  OBVIOUS
<1>10. []Safe /\ [][Next]_vars /\ []ProcessesRun /\ [][Quiet]_vars => <>[]Running
  BY <1>3, <1>4, <1>5, <1>9, PTL DEF ProcessesRun
<1>11. []Safe /\ [][Next]_vars /\ []ProcessesRun /\ [][Quiet]_vars => <>[]IsReady
  BY <1>4, <1>6, <1>7, <1>8, <1>10, PTL DEF ProcessesRun
<1>12. []Safe /\ [][Next]_vars /\ []ProcessesRun /\ [][Quiet]_vars => <>[]Registered
  BY <1>4, <1>6, <1>7, <1>8, <1>10, <1>11, PTL DEF ProcessesRun
<1>13. []Safe /\ [][Next]_vars /\ []ProcessesRun /\ [][Quiet]_vars => <>[]serving
  BY <1>4, <1>6, <1>7, <1>10, <1>12, PTL DEF ProcessesRun
<1>14. Spec /\ CanServe => []Safe
  BY <1>1, <1>2, PTL DEF Spec
<1> QED BY <1>13, <1>14, FairnessSuffices, PTL DEF Spec, FailuresCease, ServesForGood
=============================================================================
