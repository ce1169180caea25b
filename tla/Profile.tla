------------------------------ MODULE Profile ------------------------------
(***************************************************************************)
(* Profiles of the process (proc/profile.go) and the goroutine that        *)
(* handles its signals (proc/signal.go).  A profile is started and stopped *)
(* by applications and by SIGUSR1; what it touches are global settings of  *)
(* the runtime, so that profiles must not overlap.  The application may    *)
(* have switched on some collectors for itself before.                     *)
(*                                                                         *)
(* One action is one collector switched on or off.  Writing to the files   *)
(* and their names are left out; whether os.Create succeeds is open.       *)
(***************************************************************************)
EXTENDS Integers, Sequences, SequencesExt

CONSTANTS
    Apps,           \* goroutines of the application that start and stop profiles
    SignalLoop,     \* the goroutine of SetupSignalHandler
    MaxProfiles,    \* bound on the profiles that are started
    MaxSignals,     \* bound on the signals that are sent
    MaxFailures,    \* bound on the collectors that cannot be started
    Presets         \* the sets of collectors that the application may have on

Kinds == <<"block", "cpu", "mem", "mutex", "trace", "threadcreate">>

\* Collectors that are a setting of the runtime; threadcreate is not, mem is rate.
Switches == {"block", "cpu", "mutex", "trace"}

ASSUME ProfileAssumption ==
    /\ SignalLoop \notin Apps
    /\ MaxProfiles \in Nat \ {0}
    /\ MaxSignals \in 0..MaxProfiles
    /\ MaxFailures \in Nat
    /\ Presets \subseteq SUBSET Switches

VARIABLES
    started,    \* the flag that admits one profile at a time
    profiles,   \* the profiles made so far, by number
    settings,   \* the runtime: which profile switched a collector on, or who else
    rate,       \* runtime.MemProfileRate
    files,      \* open dump files: pairs of a profile and a kind
    ppc,        \* where a goroutine is in StartProfile and Stop
    shared,     \* the real profiles whose Stopper the applications hold
    stopper,    \* the stopper of the signal loop
    signals,    \* the channel of signals
    sent,       \* signals sent so far
    ends,       \* i of the signal loop: termination signals received
    handler,    \* calls of SetupSignalHandler
    failures,   \* collectors that could not be started
    process,    \* "runs", "exited" or "panicked"
    preset      \* the collectors that the application had switched on itself

pvars == <<started, profiles, settings, rate, files, ppc, shared, stopper,
           signals, sent, ends, handler, failures, process, preset>>

Signals == {"term", "usr1", "usr2"}

Callers == Apps \cup {SignalLoop}

NoProfile == 0      \* no stopper; a collector that is off
Fake == -1          \* the stopper of a refused StartProfile
Application == -2   \* a collector that is on, but for no profile

Idle == [at |-> "idle", profile |-> NoProfile, step |-> 0]

ProfileInit ==
    /\ started = FALSE
    /\ profiles = <<>>
    /\ preset \in Presets
    /\ settings = [k \in Switches |-> IF k \in preset THEN Application ELSE NoProfile]
    /\ rate = "initial"
    /\ files = {}
    /\ ppc = [c \in Callers |-> Idle]
    /\ shared = {}
    /\ stopper = NoProfile
    /\ signals = <<>>
    /\ sent = 0
    /\ ends = 0
    /\ handler = 0
    /\ failures = 0
    /\ process = "runs"

-----------------------------------------------------------------------------
(* StartProfile and Stop, run by goroutine c                               *)

unsignalled == <<signals, sent, ends, handler, process, preset>>

\* StartProfile returns handle to its caller.
Hand(c, handle) ==
    IF c = SignalLoop THEN stopper' = handle /\ UNCHANGED shared
    ELSE /\ shared' = IF handle = Fake THEN shared ELSE shared \cup {handle}
         /\ UNCHANGED stopper

\* Mutant: the flag is set without looking at it.
StartCall_Unchecked(c) ==
    /\ started' = TRUE
    /\ profiles' = Append(profiles, [closers |-> <<>>, stopped |-> FALSE,
                                     old |-> "unset", closed |-> FALSE])
    /\ ppc' = [ppc EXCEPT ![c] = [at |-> "start", step |-> 1,
                                  profile |-> Len(profiles) + 1]]
    /\ UNCHANGED <<shared, stopper>>

StartCall(c) ==
    IF started
    THEN /\ Hand(c, Fake)
         /\ ppc' = [ppc EXCEPT ![c] = Idle]
         /\ UNCHANGED <<started, profiles>>
    ELSE /\ started' = TRUE
         /\ profiles' = Append(profiles, [closers |-> <<>>, stopped |-> FALSE,
                                          old |-> "unset", closed |-> FALSE])
         /\ ppc' = [ppc EXCEPT ![c] = [at |-> "start", step |-> 1,
                                       profile |-> Len(profiles) + 1]]
         /\ UNCHANGED <<shared, stopper>>

NextStep(c) == [ppc EXCEPT ![c].step = @ + 1]

\* One more failure, up to the bound.
Fails == failures < MaxFailures /\ failures' = failures + 1

\* os.Create fails: this collector is left out.
CreateFails(c) ==
    /\ ppc[c].at = "start" /\ ppc[c].step <= Len(Kinds)
    /\ Fails
    /\ ppc' = NextStep(c)
    /\ UNCHANGED <<started, profiles, settings, rate, files, shared, stopper>>

\* trace.Start fails when the application traces already: the file stays open
\* and there is no closer.
StartTraceFails(c) ==
    LET p == ppc[c].profile IN
    /\ ppc[c].at = "start" /\ ppc[c].step <= Len(Kinds)
    /\ Kinds[ppc[c].step] = "trace" /\ settings["trace"] # NoProfile
    /\ files' = files \cup {<<p, "trace">>}
    /\ ppc' = NextStep(c)
    /\ UNCHANGED <<started, profiles, settings, rate, shared, stopper, failures>>

\* Collector k is switched on for profile p.  Where a CPU profile is running
\* already, StartCPUProfile fails and nobody looks at its error.
SwitchedOn(k, p) ==
    IF k \notin Switches \/ (k = "cpu" /\ settings[k] # NoProfile)
    THEN settings
    ELSE [settings EXCEPT ![k] = p]

StartCollector(c) ==
    LET p == ppc[c].profile  k == Kinds[ppc[c].step] IN
    /\ ppc[c].at = "start" /\ ppc[c].step <= Len(Kinds)
    /\ k = "trace" => settings[k] = NoProfile
    /\ files' = files \cup {<<p, k>>}
    /\ settings' = SwitchedOn(k, p)
    /\ rate' = IF k = "mem" THEN "dump" ELSE rate
    /\ profiles' = [profiles EXCEPT ![p].closers = Append(@, k),
                                    ![p].old = IF k = "mem" THEN rate ELSE @]
    /\ ppc' = NextStep(c)
    /\ UNCHANGED <<started, shared, stopper, failures>>

StartReturn(c) ==
    /\ ppc[c].at = "start" /\ ppc[c].step > Len(Kinds)
    /\ Hand(c, ppc[c].profile)
    /\ ppc' = [ppc EXCEPT ![c] = Idle]
    /\ UNCHANGED <<started, profiles, settings, rate, files, failures>>

\* Only the first Stop of a profile closes it.
StopCall(c, p) ==
    IF p = Fake \/ profiles[p].stopped
    THEN UNCHANGED <<profiles, ppc>>
    ELSE /\ profiles' = [profiles EXCEPT ![p].stopped = TRUE]
         /\ ppc' = [ppc EXCEPT ![c] = [at |-> "stop", profile |-> p, step |-> 1]]

\* One closer: it switches the collector off, whoever switched it on.  That of
\* the trace leaves its file open.
StopCollector(c) ==
    LET p == ppc[c].profile  k == profiles[p].closers[ppc[c].step] IN
    /\ ppc[c].at = "stop" /\ ppc[c].step <= Len(profiles[p].closers)
    /\ files' = IF k = "trace" THEN files ELSE files \ {<<p, k>>}
    /\ settings' = IF k \in Switches THEN [settings EXCEPT ![k] = NoProfile] ELSE settings
    /\ rate' = IF k = "mem" THEN profiles[p].old ELSE rate
    /\ ppc' = NextStep(c)
    /\ UNCHANGED <<started, profiles, shared, stopper, failures>>

\* Mutant: a stopped profile does not give the flag back.
StopStore_Keeps(c) ==
    LET p == ppc[c].profile IN
    /\ ppc[c].at = "stop" /\ ppc[c].step > Len(profiles[p].closers)
    /\ ppc' = [ppc EXCEPT ![c] = Idle]
    /\ UNCHANGED <<started, profiles, settings, rate, files, shared, stopper, failures>>

\* The flag is given back last.
StopStore(c) ==
    LET p == ppc[c].profile IN
    /\ ppc[c].at = "stop" /\ ppc[c].step > Len(profiles[p].closers)
    /\ started' = FALSE
    /\ profiles' = [profiles EXCEPT ![p].closed = TRUE]
    /\ ppc' = [ppc EXCEPT ![c] = Idle]
    /\ UNCHANGED <<settings, rate, files, shared, stopper, failures>>

CallStep(c) ==
    /\ process = "runs"
    /\ CreateFails(c) \/ StartTraceFails(c) \/ StartCollector(c) \/ StartReturn(c)
         \/ StopCollector(c) \/ StopStore(c)
    /\ UNCHANGED unsignalled

\* The bound on profiles leaves room for those that signals may start.
Room == Len(profiles) + (MaxSignals - sent) + Len(signals) < MaxProfiles

AppStart(a) ==
    /\ process = "runs" /\ ppc[a] = Idle /\ Room
    /\ StartCall(a)
    /\ UNCHANGED <<settings, rate, files, failures, unsignalled>>

AppStop(a) ==
    /\ process = "runs" /\ ppc[a] = Idle
    /\ \E p \in shared : StopCall(a, p)
    /\ UNCHANGED <<started, settings, rate, files, shared, stopper, failures,
                   unsignalled>>

-----------------------------------------------------------------------------
(* Signals                                                                 *)

uncalled == <<started, profiles, settings, rate, files, ppc, shared, stopper,
              failures>>

\* SetupSignalHandler, which panics when it is called twice.
Setup ==
    /\ process = "runs" /\ handler < 2
    /\ handler' = handler + 1
    /\ process' = IF handler = 1 THEN "panicked" ELSE process
    /\ UNCHANGED <<uncalled, signals, sent, ends, preset>>

\* A signal arrives; the runtime drops it when the channel is full.
Notify(s) ==
    /\ process = "runs" /\ handler = 1 /\ sent < MaxSignals
    /\ sent' = sent + 1
    /\ signals' = IF Len(signals) < 2 THEN Append(signals, s) ELSE signals
    /\ UNCHANGED <<uncalled, ends, handler, process, preset>>

Receive(s) ==
    /\ process = "runs" /\ handler = 1 /\ ppc[SignalLoop] = Idle
    /\ signals # <<>> /\ Head(signals) = s
    /\ signals' = Tail(signals)
    /\ UNCHANGED <<sent, handler, preset>>

\* The first one cancels the context, the second one exits.
Terminate ==
    /\ Receive("term")
    /\ ends' = ends + 1
    /\ process' = IF ends = 0 THEN process ELSE "exited"
    /\ UNCHANGED uncalled

\* A profile is started, or the one in stopper is stopped.
Toggle ==
    /\ Receive("usr1")
    /\ \/ stopper = NoProfile /\ StartCall(SignalLoop)
       \/ /\ stopper # NoProfile
          /\ StopCall(SignalLoop, stopper)
          /\ stopper' = NoProfile
          /\ UNCHANGED <<started, shared>>
    /\ UNCHANGED <<settings, rate, files, failures, ends, process>>

\* The goroutines are dumped to a file, which changes nothing else.
Dump == Receive("usr2") /\ UNCHANGED <<uncalled, ends, process>>

SignalStep == Terminate \/ Toggle \/ Dump \/ CallStep(SignalLoop)

ProfileNext ==
    \/ Setup
    \/ \E s \in Signals : Notify(s)
    \/ SignalStep
    \/ \E a \in Apps : AppStart(a) \/ AppStop(a) \/ CallStep(a)

\* Goroutines run; applications need not call anything, signals need not come.
ProfileFairness ==
    /\ WF_pvars(SignalStep)
    /\ \A a \in Apps : WF_pvars(CallStep(a))

ProfileSpec == ProfileInit /\ [][ProfileNext]_pvars

-----------------------------------------------------------------------------
(* Properties                                                              *)

Numbers == 1..MaxProfiles

ProfileTypeOK ==
    /\ started \in BOOLEAN
    /\ Len(profiles) <= MaxProfiles
    /\ \A p \in DOMAIN profiles :
          profiles[p] \in [closers : Seq(ToSet(Kinds)), stopped : BOOLEAN,
                           old : {"unset", "initial", "dump"}, closed : BOOLEAN]
    /\ settings \in [Switches -> {NoProfile, Application} \cup DOMAIN profiles]
    /\ preset \in Presets
    /\ rate \in {"initial", "dump"}
    /\ files \subseteq (DOMAIN profiles) \X ToSet(Kinds)
    /\ ppc \in [Callers -> [at : {"idle", "start", "stop"},
                            profile : {NoProfile} \cup DOMAIN profiles, step : 0..7]]
    /\ shared \subseteq DOMAIN profiles
    /\ stopper \in {NoProfile, Fake} \cup DOMAIN profiles
    /\ signals \in BoundedSeq(Signals, 2)
    /\ sent \in 0..MaxSignals /\ ends \in 0..2 /\ handler \in 0..2
    /\ failures \in 0..MaxFailures
    /\ process \in {"runs", "exited", "panicked"}

Open(p) == ~profiles[p].closed

\* Some profile had collector k.
Profiled(k) == \E p \in DOMAIN profiles : k \in ToSet(profiles[p].closers)

\* Profiles do not overlap.  Once none is running, the rate of the memory profile
\* is the one the process had, every dump file but that of a trace is closed, and
\* a collector is on only if the application had switched it on and no profile
\* has had it since: the closers end the block, mutex and CPU profiles of the
\* application as well.  A trace of the application goes on.
Restored ==
    /\ \A p, q \in DOMAIN profiles : Open(p) /\ Open(q) => p = q
    /\ started \/ /\ \A k \in Switches :
                        settings[k] = IF k \in preset /\ ~Profiled(k) THEN Application
                                                                     ELSE NoProfile
                  /\ rate = "initial"
                  /\ \A f \in files : f[2] = "trace"
    /\ "trace" \in preset => settings["trace"] = Application

\* A profile the signal loop holds is running: nobody else has its stopper, so
\* that the next SIGUSR1 stops it and does not start another one.
StopperLive ==
    ppc[SignalLoop] = Idle /\ stopper \in DOMAIN profiles
        => /\ ~profiles[stopper].stopped /\ stopper \notin shared
           /\ started

\* Profiles never overlap, all that they switched on is off when they end
\* (Restored), and the profile that the signal loop holds is the one that runs.
ProfilesKeep == ProfileTypeOK /\ Restored /\ StopperLive

\* A termination signal in the channel cancels the context, and the second one
\* ends the process, also when the loop is busy with a profile.
Terminates ==
    \A n \in 0..1 : (ends = n /\ \E i \in DOMAIN signals : signals[i] = "term")
                       ~> (ends > n \/ process # "runs")

\* A profile that is stopped gives the flag back, so that another can start.
FlagReturned ==
    \A p \in Numbers :
        (p \in DOMAIN profiles /\ profiles[p].stopped)
            ~> (p \in DOMAIN profiles /\ ~Open(p)) \/ process # "runs"
=============================================================================
