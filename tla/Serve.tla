------------------------------- MODULE Serve -------------------------------
(***************************************************************************)
(* The process behind `hoocloak serve`: serve of cmd/hoocloak/main.go and  *)
(* NewServer of internal/idp/server.go.  Start-up applies the environment  *)
(* to the configuration and builds every realm; then one goroutine runs    *)
(* ListenAndServe, the handlers run beside it, and serve waits for the     *)
(* listener's error or for a signal.  A signal starts a graceful shutdown  *)
(* that gives the handlers a bounded time.                                 *)
(*                                                                         *)
(* http.Server is not part of the repository: Shutdown closes the          *)
(* listener, whose ListenAndServe then returns ErrServerClosed, and waits  *)
(* until no handler runs or its context ends.                              *)
(***************************************************************************)
EXTENDS Integers, FiniteSets

CONSTANTS
    Realms,    \* the realms of the configuration
    Requests,  \* the requests that may arrive
    Grace      \* how long Shutdown may take, ten seconds

ASSUME ServeAssumption ==
    /\ Realms # {}
    /\ Grace \in Nat \ {0}

VARIABLES
    phase,     \* where serve stands
    config,    \* the effective login mode and theme
    env,       \* the two environment variables
    keys,      \* the realms with a signing key
    realms,    \* the realms NewServer has built
    listener,  \* the goroutine that runs ListenAndServe
    channel,   \* serverError, which has room for one value
    signalled, \* shutdownContext is done
    active,    \* the requests whose handler runs
    finished,  \* the requests whose handler returned
    cut,       \* the requests whose handler the exit ended
    elapsed,   \* the time since Shutdown was called
    result     \* what serve returned

startVars == <<config, env, keys, realms>>
runVars == <<listener, channel, signalled, active, finished, cut, elapsed>>
vars == <<phase, result, startVars, runVars>>

Startup == {"load", "override", "validate", "generate", "loadUI", "build"}
\* HOOCLOAK_LOGIN_MODE and HOOCLOAK_UI_THEME_DIR: "malformed" is an empty or
\* padded value, and for the theme a relative path.
ModeSettings == {"unset", "malformed", "password", "select", "other"}
ThemeSettings == {"unset", "malformed", "mounted"}
Themes == {"default", "configured", "mounted"}
Modes == {"", "password", "select"}

Init ==
    /\ phase = "load"
    /\ config = [mode |-> "", theme |-> "default"]
    /\ env \in [mode: ModeSettings, theme: ThemeSettings]
    /\ keys = {}
    /\ realms = {}
    /\ listener = "none"
    /\ channel = "empty"
    /\ signalled = FALSE
    /\ active = {}
    /\ finished = {}
    /\ cut = {}
    /\ elapsed = 0
    /\ result = "none"

\* serve returns; the process exits and the handlers with it.
Exit(outcome) ==
    /\ phase' = "returned"
    /\ result' = outcome
    /\ cut' = cut \cup active
    /\ active' = {}

Abort == Exit("error") /\ UNCHANGED <<startVars, listener, channel, signalled,
                                      finished, elapsed>>
Continue(next) == phase' = next /\ UNCHANGED <<result, runVars>>

----------------------------------------------------------------------------
(* Start-up.  An error of any step ends serve. *)

\* config.Load; the file never holds a login mode.
Load ==
    /\ phase = "load"
    /\ \/ \E theme \in {"default", "configured"} :
            /\ config' = [config EXCEPT !.theme = theme]
            /\ Continue("override")
            /\ UNCHANGED <<env, keys, realms>>
       \/ Abort

EnvironmentOK ==
    /\ env.mode \in {"unset", "password", "select"}
    /\ env.theme \in {"unset", "mounted"}

\* Mutant: a configured theme wins over the environment.
OverriddenWeakly ==
    [mode |-> IF env.mode = "unset" THEN "password" ELSE env.mode,
     theme |-> IF env.theme = "unset" \/ config.theme # "default"
               THEN config.theme ELSE env.theme]

Overridden ==
    [mode |-> IF env.mode = "unset" THEN "password" ELSE env.mode,
     theme |-> IF env.theme = "unset" THEN config.theme ELSE env.theme]

applyEnvironmentOverrides ==
    /\ phase = "override"
    /\ \/ /\ EnvironmentOK
          /\ config' = Overridden
          /\ Continue("validate")
          /\ UNCHANGED <<env, keys, realms>>
       \/ ~EnvironmentOK /\ Abort

\* The effective configuration is validated again.
Validate ==
    /\ phase = "validate"
    /\ config.mode \in Modes
    /\ Continue("generate")
    /\ UNCHANGED startVars

\* One signing key per realm, before any realm is built.
GenerateKey(realm) ==
    /\ phase = "generate"
    /\ realm \in Realms \ keys
    /\ \/ /\ keys' = keys \cup {realm}
          /\ Continue(IF keys' = Realms THEN "loadUI" ELSE "generate")
          /\ UNCHANGED <<config, env, realms>>
       \/ Abort

\* NewServer first loads the theme; only one from a directory can be refused.
loadUI ==
    /\ phase = "loadUI"
    /\ \/ Continue("build") /\ UNCHANGED startVars
       \/ config.theme # "default" /\ Abort

\* Then it builds the realms.  A realm needs its key, and its provider may
\* refuse it.  When every realm is built serve starts the listener.
NewServer(realm) ==
    /\ phase = "build"
    /\ realm \in Realms \ realms
    /\ \/ /\ realm \in keys
          /\ realms' = realms \cup {realm}
          /\ \/ realms' # Realms /\ Continue("build")
             \/ /\ realms' = Realms
                /\ phase' = "select"
                /\ listener' = "starting"
                /\ UNCHANGED <<result, channel, signalled, active, finished, cut,
                               elapsed>>
          /\ UNCHANGED <<config, env, keys>>
       \/ Abort

----------------------------------------------------------------------------
(* The listener's goroutine and the handlers. *)

Running == phase \in {"select", "shutdown", "receive"}
Closing == phase \in {"shutdown", "receive"}

\* ListenAndServe has bound its address.
Bind ==
    /\ Running
    /\ ~Closing
    /\ listener = "starting"
    /\ listener' = "accepting"
    /\ UNCHANGED <<phase, result, startVars, channel, signalled, active, finished,
                   cut, elapsed>>

\* ListenAndServe returns, and the goroutine sends what it returned: an
\* error of its own, or ErrServerClosed once Shutdown was called.  Serving
\* turns every error into ErrServerClosed then; binding may still fail.
ListenReturns(outcome) ==
    /\ Running
    /\ listener \in {"starting", "accepting"}
    /\ outcome = "closed" => Closing
    /\ outcome = "failed" => ~(Closing /\ listener = "accepting")
    /\ channel' = outcome
    /\ listener' = outcome
    /\ UNCHANGED <<phase, result, startVars, signalled, active, finished, cut,
                   elapsed>>

Arrive(request) ==
    /\ Running
    /\ ~Closing
    /\ listener = "accepting"
    /\ request \notin active \cup finished
    /\ active' = active \cup {request}
    /\ UNCHANGED <<phase, result, startVars, listener, channel, signalled, finished,
                   cut, elapsed>>

HandlerReturns(request) ==
    /\ Running
    /\ request \in active
    /\ active' = active \ {request}
    /\ finished' = finished \cup {request}
    /\ UNCHANGED <<phase, result, startVars, listener, channel, signalled, cut,
                   elapsed>>

----------------------------------------------------------------------------
(* serve waits. *)

Outcome == IF channel = "closed" THEN "ok" ELSE "error"

\* The first SIGINT or SIGTERM; later ones change nothing.
Signal ==
    /\ Running
    /\ ~signalled
    /\ signalled' = TRUE
    /\ UNCHANGED <<phase, result, startVars, listener, channel, active, finished,
                   cut, elapsed>>

\* The select takes the listener's error.
SelectServerError ==
    /\ phase = "select"
    /\ channel # "empty"
    /\ Exit(Outcome)
    /\ channel' = "empty"
    /\ UNCHANGED <<startVars, listener, signalled, finished, elapsed>>

\* The select takes the signal: Shutdown begins.
SelectSignal ==
    /\ phase = "select"
    /\ signalled
    /\ phase' = "shutdown"
    /\ elapsed' = 0
    /\ UNCHANGED <<result, startVars, listener, channel, signalled, active, finished,
                   cut>>

\* Mutant: Shutdown does not wait for the handlers.
ShutdownAbrupt ==
    /\ phase = "shutdown"
    /\ Continue("receive")
    /\ UNCHANGED startVars

\* Shutdown returns nil: no handler runs.
ShutdownDrained ==
    /\ phase = "shutdown"
    /\ active = {}
    /\ Continue("receive")
    /\ UNCHANGED startVars

\* Mutant: the context of Shutdown has no deadline.
ShutdownUnbounded == FALSE /\ UNCHANGED vars

\* Shutdown returns the error of its context, and the process exits under
\* the handlers that still run.
ShutdownExpired ==
    /\ phase = "shutdown"
    /\ elapsed = Grace
    /\ Exit("error")
    /\ UNCHANGED <<startVars, listener, channel, signalled, finished, elapsed>>

\* Mutant: what the listener returned is not looked at.
ReceiveIgnored ==
    /\ phase = "receive"
    /\ channel # "empty"
    /\ Exit("ok")
    /\ channel' = "empty"
    /\ UNCHANGED <<startVars, listener, signalled, finished, elapsed>>

\* After Shutdown serve takes the value the listener's goroutine sent.
Receive ==
    /\ phase = "receive"
    /\ channel # "empty"
    /\ Exit(Outcome)
    /\ channel' = "empty"
    /\ UNCHANGED <<startVars, listener, signalled, finished, elapsed>>

\* Time passes; only Shutdown measures it.
Tick ==
    /\ phase = "shutdown"
    /\ elapsed < Grace
    /\ elapsed' = elapsed + 1
    /\ UNCHANGED <<phase, result, startVars, listener, channel, signalled, active,
                   finished, cut>>

----------------------------------------------------------------------------
Main ==
    \/ Load
    \/ applyEnvironmentOverrides
    \/ Validate
    \/ loadUI
    \/ \E realm \in Realms : GenerateKey(realm) \/ NewServer(realm)
    \/ SelectServerError
    \/ SelectSignal
    \/ ShutdownDrained
    \/ ShutdownExpired
    \/ Receive

Listener == Bind \/ \E outcome \in {"closed", "failed"} : ListenReturns(outcome)

Next ==
    \/ Main
    \/ Listener
    \/ \E request \in Requests : Arrive(request) \/ HandlerReturns(request)
    \/ Signal
    \/ Tick

Spec == Init /\ [][Next]_vars

\* serve and the listener's goroutine run when they can, and time passes.
\* A listener that Shutdown closed returns.  Nothing makes a handler return.
Fairness ==
    /\ WF_vars(Main)
    /\ WF_vars(Closing /\ Listener)
    /\ WF_vars(Tick)
FairSpec == Spec /\ Fairness

----------------------------------------------------------------------------
(* Properties. *)

\* serve returns nil only after every handler it ever started has returned.
CleanExitIsDrained == result = "ok" => cut = {}

\* A listener that failed is reported, even if a signal arrived first and
\* the shutdown that followed went well.
FailureIsReported == listener = "failed" => result # "ok"

\* A request is served only when every realm has been built, with the login
\* mode and theme the environment asked for.
ServedAsConfigured ==
    active \cup finished # {} =>
        /\ realms = Realms
        /\ config.mode = "select" <=> env.mode = "select"
        /\ env.theme = "mounted" => config.theme = "mounted"

\* A signal ends serve within the grace period, even if a handler hangs.
SignalEndsServe == signalled ~> phase = "returned"

============================================================================
