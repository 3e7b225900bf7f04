---------------------- MODULE MCLinuxPlatformEventLoop ----------------------
(* Instances for TLC of the Linux loop: LinuxPlatformEventLoop with a      *)
(* socket with two notifiers (as MqttClient has), another descriptor and a *)
(* regular file, or Timer, one of the two in each behaviour.               *)
EXTENDS LinuxPlatformEventLoop, Timer, TLC

CONSTANTS sock, other, file, nread, nwrite, nother, nfile

VARIABLE subject

FourFds == (nread :> sock) @@ (nwrite :> sock) @@ (nother :> other) @@ (nfile :> file)

FourTypes == (nread :> "Read") @@ (nwrite :> "Write") @@ (nother :> "Write")
             @@ (nfile :> "Exception")

MCInit == subject \in {"notifiers", "timers"} /\ Init /\ TmInit

NotifierStep == subject = "notifiers" /\ Next /\ UNCHANGED <<subject, tmVars>>

TimerStep == subject = "timers" /\ TmNext /\ UNCHANGED <<subject, vars>>

MCNext == NotifierStep \/ TimerStep

MCSpec == MCInit /\ [][MCNext]_<<subject, vars, tmVars>> /\ Fairness
=============================================================================
