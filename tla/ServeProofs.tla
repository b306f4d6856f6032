----------------------------- MODULE ServeProofs -----------------------------
(***************************************************************************)
(* Proofs about Serve, for any set of realms, any requests and any grace   *)
(* period: what the exit code of the process says, and with what           *)
(* configuration requests were served.                                     *)
(***************************************************************************)
EXTENDS Serve, TLAPS

Phases == Startup \cup {"select", "shutdown", "receive", "returned"}
ServeOutcomes == {"none", "ok", "error"}

\* What serve knows in each phase.
ServeTypes ==
    /\ phase \in Phases
    /\ config \in [mode: ModeSettings \cup {""}, theme: Themes]
    /\ env \in [mode: ModeSettings, theme: ThemeSettings]
    /\ realms \subseteq Realms
    /\ listener \in {"none", "starting", "accepting", "closed", "failed"}
    /\ channel \in {"empty", "closed", "failed"}
    /\ result \in ServeOutcomes

\* The configuration is the file's until the environment was applied, and
\* what the environment asked for from then on.
ConfigurationFollows ==
    /\ phase \in {"load", "override"} => config.mode = ""
    /\ (phase \notin {"load", "override", "returned"} \/ active \cup finished # {}) =>
          /\ config.mode = "select" <=> env.mode = "select"
          /\ env.theme = "mounted" => config.theme = "mounted"

\* The listener starts when every realm is built, and no handler runs before.
ListenerFollows ==
    /\ phase \in Startup => /\ listener = "none" /\ channel = "empty"
                            /\ active = {} /\ finished = {}
    /\ (phase \in {"select", "shutdown", "receive"} \/ active \cup finished # {}) =>
          realms = Realms

\* The channel holds what the listener returned; before a shutdown that is a
\* failure.  serve has returned nothing and cut nobody off while it waits, and
\* no handler runs when it waits for the last value.
ExitFollows ==
    /\ channel # "empty" => channel = listener
    /\ phase = "select" => listener # "closed"
    /\ phase # "returned" => result = "none" /\ cut = {}
    /\ phase = "receive" => active = {}
    /\ result = "ok" => cut = {} /\ listener = "closed"

\* The inductive invariant.
ServeInv == ServeTypes /\ ConfigurationFollows /\ ListenerFollows /\ ExitFollows

----------------------------------------------------------------------------
\* The initial state satisfies the invariant.
LEMMA ServeInit == Init => ServeInv
<1> SUFFICES ASSUME Init PROVE ServeInv
  OBVIOUS
<1>1. config.mode = "" /\ config \in [mode: ModeSettings \cup {""}, theme: Themes]
  BY DEF Init, Themes
<1>2. ServeTypes
  BY <1>1 DEF Init, ServeTypes, Phases, Startup, ServeOutcomes
<1>3. ConfigurationFollows /\ ListenerFollows /\ ExitFollows
  BY <1>1 DEF Init, ConfigurationFollows, ListenerFollows, ExitFollows
<1>4. QED
  BY <1>2, <1>3 DEF ServeInv

\* The steps of start-up: load, overrides, validation, keys and theme.
LEMMA StartupStep ==
    ASSUME ServeInv,
           \/ Load \/ applyEnvironmentOverrides \/ Validate \/ loadUI
           \/ \E realm \in Realms : GenerateKey(realm)
    PROVE  ServeInv'
<1> USE DEF ServeInv, ServeTypes, ConfigurationFollows, ListenerFollows, ExitFollows,
            Phases, Startup, ServeOutcomes, Themes, Modes, ModeSettings, ThemeSettings,
            Abort, Exit, Continue, startVars, runVars
<1>1. CASE Load
  BY <1>1 DEF Load
<1>2. CASE applyEnvironmentOverrides
  <2>1. CASE ~EnvironmentOK /\ Abort
    BY <1>2, <2>1 DEF applyEnvironmentOverrides
  <2>2. CASE EnvironmentOK /\ config' = Overridden
    BY <1>2, <2>2 DEF applyEnvironmentOverrides, EnvironmentOK, Overridden
  <2>3. QED
    BY <1>2, <2>1, <2>2 DEF applyEnvironmentOverrides
<1>3. CASE Validate
  BY <1>3 DEF Validate
<1>4. CASE loadUI
  BY <1>4 DEF loadUI
<1>5. ASSUME NEW realm \in Realms, GenerateKey(realm) PROVE ServeInv'
  BY <1>5 DEF GenerateKey
<1>6. QED
  BY <1>1, <1>2, <1>3, <1>4, <1>5

\* A realm is built; the last one starts the listener.
LEMMA BuildStep ==
    ASSUME ServeInv, NEW realm \in Realms, NewServer(realm)
    PROVE  ServeInv'
BY DEF ServeInv, ServeTypes, ConfigurationFollows, ListenerFollows, ExitFollows,
       Phases, Startup, ServeOutcomes, Abort, Exit, Continue, startVars, runVars,
       NewServer

\* The listener's goroutine, the handlers, the signal and time.
LEMMA BesideStep ==
    ASSUME ServeInv,
           \/ Listener \/ Signal \/ Tick
           \/ \E request \in Requests : Arrive(request) \/ HandlerReturns(request)
    PROVE  ServeInv'
<1> USE DEF ServeInv, ServeTypes, ConfigurationFollows, ListenerFollows, ExitFollows,
            Phases, Startup, ServeOutcomes, startVars, Running, Closing
<1>1. CASE Bind
  BY <1>1 DEF Bind
<1>2. ASSUME NEW outcome \in {"closed", "failed"}, ListenReturns(outcome)
      PROVE  ServeInv'
  BY <1>2 DEF ListenReturns
<1>3. CASE Signal \/ Tick
  BY <1>3 DEF Signal, Tick
<1>4. ASSUME NEW request \in Requests, Arrive(request) PROVE ServeInv'
  BY <1>4 DEF Arrive
<1>5. ASSUME NEW request \in Requests, HandlerReturns(request) PROVE ServeInv'
  BY <1>5 DEF HandlerReturns
<1>6. QED
  BY <1>1, <1>2, <1>3, <1>4, <1>5 DEF Listener

\* serve waits and returns.
LEMMA WaitStep ==
    ASSUME ServeInv,
           \/ SelectServerError \/ SelectSignal \/ ShutdownDrained
           \/ ShutdownExpired \/ Receive
    PROVE  ServeInv'
<1> USE DEF ServeInv, ServeTypes, ConfigurationFollows, ListenerFollows, ExitFollows,
            Phases, Startup, ServeOutcomes, Exit, Continue, startVars, runVars
<1>1. CASE SelectServerError
  BY <1>1 DEF SelectServerError, Outcome
<1>2. CASE SelectSignal
  BY <1>2 DEF SelectSignal
<1>3. CASE ShutdownDrained
  BY <1>3 DEF ShutdownDrained
<1>4. CASE ShutdownExpired
  BY <1>4 DEF ShutdownExpired
<1>5. CASE Receive
  BY <1>5 DEF Receive, Outcome
<1>6. QED
  BY <1>1, <1>2, <1>3, <1>4, <1>5

\* The invariant holds whatever the environment, the realms and the order of
\* requests, listener failure and signal.
THEOREM ServeInvariant == Spec => []ServeInv
<1>1. ASSUME ServeInv, UNCHANGED vars PROVE ServeInv'
  BY <1>1 DEF ServeInv, ServeTypes, ConfigurationFollows, ListenerFollows, ExitFollows,
     vars, startVars, runVars
<1>2. ServeInv /\ [Next]_vars => ServeInv'
  BY <1>1, StartupStep, BuildStep, BesideStep, WaitStep DEF Next, Main
<1>3. QED
  BY ServeInit, <1>2, PTL DEF Spec

----------------------------------------------------------------------------
\* serve returns nil only after every handler it started has returned: the
\* value it waits for after Shutdown comes when no handler runs, and before
\* Shutdown the listener's value is never ErrServerClosed.
THEOREM CleanExit == Spec => []CleanExitIsDrained
<1>1. ServeInv => CleanExitIsDrained
  BY DEF ServeInv, ExitFollows, CleanExitIsDrained
<1>2. QED
  BY <1>1, ServeInvariant, PTL

\* A listener that failed is reported, also when a signal came first.
THEOREM FailureReported == Spec => []FailureIsReported
<1>1. ServeInv => FailureIsReported
  BY DEF ServeInv, ExitFollows, FailureIsReported
<1>2. QED
  BY <1>1, ServeInvariant, PTL

\* No request is served before all realms are built, nor with another login
\* mode or theme than the environment asked for.
THEOREM ServedRight == Spec => []ServedAsConfigured
<1>1. ServeInv => ServedAsConfigured
  BY DEF ServeInv, ConfigurationFollows, ListenerFollows, ServedAsConfigured
<1>2. QED
  BY <1>1, ServeInvariant, PTL

============================================================================
