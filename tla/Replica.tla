------------------------------ MODULE Replica -------------------------------
(***************************************************************************)
(* The process of a webhook replica: main loads and validates the          *)
(* configuration and builds the parts, the server (cmd/webhook/server.go)  *)
(* adds the rotator of certificates to the manager, leaves a goroutine     *)
(* that registers the webhook once the certificates are ready, and starts  *)
(* the manager, which runs the rotator and the webhook until it is told to *)
(* stop. Any step may end the process (log.Fatal); Kubernetes starts it    *)
(* again, with the same configuration and nothing of its memory.           *)
(*                                                                         *)
(* What runs inside a process that serves is here the calls for tokens of  *)
(* AcrToken: theirs is the only state that a replica keeps to itself.      *)
(*                                                                         *)
(* External, modelled by how the server uses them: the manager and its     *)
(* webhook server (controller-runtime), the rotator (cert-controller), the *)
(* secret with the certificates, which outlives the process, Kubernetes.   *)
(***************************************************************************)
EXTENDS AcrToken

CONSTANTS
  Configurations,  \* what a process may be configured with
  MaxFailures      \* environment: failures, crashes and signals, all told

\* readable: the file is there and each part of it has the types expected.
ASSUME ReplicaAssumption ==
  /\ MaxFailures \in Nat
  /\ \A c \in Configurations :
       /\ c.readable \in BOOLEAN /\ c.IsLocalDevelopment \in BOOLEAN
       /\ c.EnableCertRotation \in BOOLEAN /\ c.MSIClientId \in BOOLEAN
       /\ c.CacheExpirationTime \in Int /\ c.HeartbeatFrequency \in Int

VARIABLES
  configuration,
  main,       \* where the main goroutine stands
  IsReady,    \* whether the channel certRotator.IsReady is closed
  setup,      \* the goroutine setupControllers
  serving,    \* whether the webhook server serves the handler
  rotated,    \* whether the rotator has done its work
  mounted,    \* whether the certificates are in CertDir
  ended,      \* why the process has ended, if it has
  failures    \* how often the environment has failed

process == <<IsReady, setup, rotated, serving>>
environment == <<given, configuration, mounted, failures>>
vars == <<given, callVars, main, process, configuration, mounted, ended, failures>>

\* CacheExpirationTime is the one of tokens; the other five are validated alike.
Init ==
  /\ exists \in [Registries -> BOOLEAN]
  /\ configuration \in Configurations
  /\ RegistryRefreshTokenCacheExpirationTime = configuration.CacheExpirationTime
  /\ NoCalls
  /\ main = "ended" /\ IsReady = FALSE /\ setup = "none"
  /\ rotated = FALSE /\ serving = FALSE
  /\ mounted \in BOOLEAN
  /\ ended = "not started"
  /\ failures = 0

\* log.Fatal, a panic, or the end of main: nothing of the process is left.
End(reason) ==
  /\ main' = "ended" /\ IsReady' = FALSE /\ setup' = "none"
  /\ rotated' = FALSE /\ serving' = FALSE
  /\ ended' = reason
  /\ cached' = [r \in Registries |-> NoEntry]
  /\ pc' = [c \in Calls |-> "idle"]
  /\ attempts' = [c \in Calls |-> <<>>]
  /\ token' = [c \in Calls |-> NotGot]
  /\ answered' = [c \in Calls |-> "nothing"]
  /\ UNCHANGED <<registry, given, configuration, mounted>>

\* The environment lets a step fail that ends the process with a reason.
Fails(reason) ==
  /\ failures < MaxFailures
  /\ failures' = failures + 1
  /\ End(reason)

-----------------------------------------------------------------------------
(* main                                                                    *)

\* Kubernetes runs the container.
StartProcess ==
  /\ main = "ended"
  /\ main' = "loading"
  /\ ended' = "not"
  /\ UNCHANGED <<process, callVars, environment>>

\* Defect: zero passes, "no time" being taken for "at once".
ValidatePositiveIntOrZero(configured) == \A n \in configured : n >= 0

ValidatePositiveInt(configured) == \A n \in configured : n > 0

isValidConfiguration ==
  ValidatePositiveInt({configuration.CacheExpirationTime, configuration.HeartbeatFrequency})

LoadConfiguration ==
  /\ main = "loading"
  /\ \/ /\ configuration.readable /\ isValidConfiguration
        /\ main' = "wiring"
        /\ UNCHANGED <<process, callVars, ended, environment>>
     \/ /\ ~(configuration.readable /\ isValidConfiguration)
        /\ End("configuration")
        /\ UNCHANGED failures

IsLocalDevelopment == configuration.IsLocalDevelopment

\* createAuthorizer: a managed identity needs a client id, the command line of
\* a developer does not.
CanAuthorize == IsLocalDevelopment \/ configuration.MSIClientId

\* RepeatEveryTick: a ticker panics unless its period is positive. A local
\* deployment has no redis to ping.
TickerPanics == ~IsLocalDevelopment /\ configuration.HeartbeatFrequency <= 0

\* The clients, the providers and the handler.
CreateClients ==
  /\ main = "wiring"
  /\ \/ /\ ~CanAuthorize
        /\ End("configuration")
        /\ UNCHANGED failures
     \/ /\ CanAuthorize /\ TickerPanics
        /\ End("panic")
        /\ UNCHANGED failures
     \/ /\ CanAuthorize /\ ~TickerPanics
        /\ main' = "clients created"
        /\ UNCHANGED <<process, callVars, ended, environment>>

\* The settings of the environment, or the identity, are not available.
CreateARMAuthorizerFails == main = "wiring" /\ Fails("dependency")

\* The certificates or the password of redis cannot be read.
CreateRedisClientFails ==
  main = "wiring" /\ ~IsLocalDevelopment /\ Fails("dependency")

\* The rotator gets a channel that is open, the server the manager.
CreateServer ==
  /\ main = "clients created"
  /\ IsReady' = FALSE
  /\ main' = "server created"
  /\ UNCHANGED <<setup, rotated, serving, callVars, ended, environment>>

\* There is no configuration of the API server, or it does not answer.
CreateManagerFails == main = "clients created" /\ Fails("dependency")

-----------------------------------------------------------------------------
(* Server.Run                                                              *)

\* With rotation enabled the rotator is added to the manager.
initCertController ==
  /\ main = "server created"
  /\ IsReady' = ~configuration.EnableCertRotation
  /\ main' = "initialized"
  /\ UNCHANGED <<setup, rotated, serving, callVars, ended, environment>>

initCertControllerFails ==
  /\ main = "server created" /\ configuration.EnableCertRotation
  /\ Fails("dependency")

\* go server.setupControllers()
GoSetupControllers ==
  /\ main = "initialized"
  /\ setup' = "waiting"
  /\ main' = "starting"
  /\ UNCHANGED <<IsReady, rotated, serving, callVars, ended, environment>>

\* Defect: the webhook is registered at once.
setupControllersAtOnce ==
  /\ setup = "waiting"
  /\ setup' = "registered"
  /\ UNCHANGED <<main, IsReady, rotated, serving, callVars, ended, environment>>

\* It waits on the channel, then registers the webhook.
setupControllers ==
  /\ setup = "waiting" /\ IsReady
  /\ setup' = "registered"
  /\ UNCHANGED <<main, IsReady, rotated, serving, callVars, ended, environment>>

\* Defect: setupControllers is called, not left to a goroutine.
StartManagerAfterSetup ==
  /\ main = "starting" /\ setup = "registered"
  /\ main' = "running"
  /\ UNCHANGED <<process, callVars, ended, environment>>

\* manager.Start returns only when a part of it fails or at a signal.
StartManager ==
  /\ main = "starting"
  /\ main' = "running"
  /\ UNCHANGED <<process, callVars, ended, environment>>

-----------------------------------------------------------------------------
(* What the manager runs                                                   *)

\* The rotator has written the secret, its volume has the certificates: it
\* closes the channel. To close it twice is a panic.
RotatorReady ==
  /\ main = "running" /\ configuration.EnableCertRotation /\ ~rotated
  /\ \/ /\ ~IsReady
        /\ rotated' = TRUE /\ IsReady' = TRUE /\ mounted' = TRUE
        /\ UNCHANGED <<main, setup, serving, callVars, ended, given,
                       configuration, failures>>
     \/ /\ IsReady
        /\ End("panic")
        /\ UNCHANGED failures

\* A webhook that is registered is served, if there are certificates.
ServeWebhook ==
  /\ main = "running" /\ setup = "registered" /\ ~serving
  /\ \/ /\ mounted
        /\ serving' = TRUE
        /\ UNCHANGED <<main, IsReady, setup, rotated, callVars, ended, environment>>
     \/ /\ ~mounted
        /\ End("no certificates")
        /\ UNCHANGED failures

\* The manager fails, or the pod is told to stop, or it is killed.
Stop == main # "ended" /\ Fails("stopped")

-----------------------------------------------------------------------------
(* The calls for tokens, made for the requests that the webhook serves     *)

CallArrives(c, r) ==
  /\ serving
  /\ Call(c, r)
  /\ UNCHANGED <<main, process, ended, environment>>

TokenStep ==
  /\ \E c \in Calls : CallStep(c)
  /\ UNCHANGED <<main, process, ended, environment>>

\* A minute goes by, or the memory drops an entry.
MemoryStep ==
  /\ Minute \/ \E r \in Registries : Evict(r)
  /\ UNCHANGED <<main, process, ended, environment>>

-----------------------------------------------------------------------------
MainStep ==
  \/ StartProcess
  \/ LoadConfiguration
  \/ CreateClients
  \/ CreateServer
  \/ initCertController
  \/ GoSetupControllers
  \/ StartManager

Next ==
  \/ MainStep
  \/ setupControllers
  \/ RotatorReady
  \/ ServeWebhook
  \/ CreateARMAuthorizerFails
  \/ CreateRedisClientFails
  \/ CreateManagerFails
  \/ initCertControllerFails
  \/ Stop
  \/ \E c \in Calls, r \in Registries : CallArrives(c, r)
  \/ TokenStep
  \/ MemoryStep

Spec == Init /\ [][Next]_vars

\* Kubernetes restarts a container that has ended, the Go scheduler runs main
\* and the goroutine, and the rotator and the webhook server that the manager
\* runs do their work. Nothing is assumed of calls.
FairSpec ==
  /\ Spec
  /\ WF_vars(MainStep)
  /\ WF_vars(setupControllers)
  /\ WF_vars(RotatorReady)
  /\ WF_vars(ServeWebhook)

-----------------------------------------------------------------------------
(* Properties                                                              *)

TypeOK ==
  /\ exists \in [Registries -> BOOLEAN]
  /\ RegistryRefreshTokenCacheExpirationTime \in Int
  /\ cached \in [Registries -> [of : Registries \cup {NoToken}, age : Nat, left : Nat]]
  /\ pc \in [Calls -> {"idle", "lookup", "do", "reply", "set"}]
  /\ registry \in [Calls -> Registries]
  /\ attempts \in [Calls -> Seq(AttemptOutcomes)]
  /\ token \in [Calls -> [of : Registries \cup {NoToken}, age : Nat]]
  /\ answered \in [Calls -> {"nothing", "token"} \cup Errors]
  /\ configuration \in Configurations
  /\ main \in {"ended", "loading", "wiring", "clients created", "server created",
               "initialized", "starting", "running"}
  /\ IsReady \in BOOLEAN
  /\ setup \in {"none", "waiting", "registered"}
  /\ rotated \in BOOLEAN /\ serving \in BOOLEAN /\ mounted \in BOOLEAN
  /\ ended \in {"not", "not started", "configuration", "dependency", "panic",
                "no certificates", "stopped"}
  /\ failures \in 0 .. MaxFailures

\* No step of the program panics (a ticker without a period, a channel closed
\* twice), and with rotation enabled the webhook is never served before there
\* are certificates, which would end the process in the middle of their making.
EndsAreNotItsOwn ==
  /\ ended # "panic"
  /\ configuration.EnableCertRotation => ended # "no certificates"

\* What it takes to serve, of the configuration and the cluster.
CanServe ==
  /\ configuration.readable /\ isValidConfiguration /\ CanAuthorize
  /\ configuration.EnableCertRotation \/ mounted

\* The manager runs what closes the channel, the goroutine waits for it, and
\* main must start the manager meanwhile: nobody waits for ever, and after any
\* failures or crashes, at any step, the replica serves again.
ServesForGood == CanServe => <>[]serving
=============================================================================
