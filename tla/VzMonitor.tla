------------------------------ MODULE VzMonitor -------------------------------
(***************************************************************************)
(* The monitor of a background goroutine, as components use it for work    *)
(* that would block a reconcile for minutes (istioctl install, the Rancher *)
(* cleanup job).  Run makes a channel and starts a goroutine that executes *)
(* the operation and sends one result; the reconciler polls the channel    *)
(* and resets the monitor, which closes the channel.                       *)
(*                                                                         *)
(* A send on a closed channel, and the close of a nil or closed one, is a  *)
(* panic: it takes the operator process down.                              *)
(*                                                                         *)
(* Next is the Istio component, whose Install is the plain use of the      *)
(* monitor; VzUninstall drives the same monitor the way Rancher does.      *)
(***************************************************************************)
EXTENDS Naturals

CONSTANT Goroutines     \* identities, each with its channel, reused when free

VARIABLES mon,          \* the monitor: running, completed, the current channel
          bg,           \* per goroutine: its channel and how far it has got
          panic         \* the process died of a panic and has not restarted

monVars == <<mon, bg, panic>>

None == "none"

Outcomes == {None, "ok", "failed"}

MonTypeOK ==
    /\ mon \in [running : BOOLEAN, completed : BOOLEAN,
                ch : Goroutines \cup {None}]
    /\ bg \in [Goroutines -> [open   : BOOLEAN,
                              result : Outcomes,
                              work   : Outcomes \cup {"running"}]]
    /\ panic \in BOOLEAN

FreshMonitor == [running |-> FALSE, completed |-> FALSE, ch |-> None]

FreshGoroutine == [open |-> FALSE, result |-> None, work |-> None]

MonInit ==
    /\ mon = FreshMonitor
    /\ bg = [g \in Goroutines |-> FreshGoroutine]
    /\ panic = FALSE

(***************************************************************************)
(* The methods, as functions on the monitor m and the goroutines b.        *)
(***************************************************************************)
(* A goroutine that no longer runs and whose channel is not the current one *)
(* is garbage: its identity may be used again.                              *)
Free(g) == bg[g].work = None /\ g # mon.ch

(* CheckResult receives without blocking.  A nil channel is never ready, a  *)
(* closed and empty one yields the zero value, false, at once.              *)
CheckResult ==
    IF mon.ch = None THEN "pending"
    ELSE IF bg[mon.ch].result # None THEN bg[mon.ch].result
    ELSE IF bg[mon.ch].open THEN "pending" ELSE "failed"

Received(m, b) ==
    IF m.ch = None THEN b ELSE [b EXCEPT ![m.ch].result = None]

Completed(m) == [m EXCEPT !.completed = TRUE, !.running = FALSE]

Reset(m) == [m EXCEPT !.running = FALSE, !.completed = FALSE]

CanClose == mon.ch # None /\ bg[mon.ch].open

Closed(m, b) == [b EXCEPT ![m.ch].open = FALSE]

Running(m, g) == [m EXCEPT !.running = TRUE, !.ch = g]

Started(b, g) ==
    [b EXCEPT ![g] = [open |-> TRUE, result |-> None, work |-> "running"]]

(* The process dies of the panic; nothing of its memory is left.            *)
Panic == panic' = TRUE /\ UNCHANGED <<mon, bg>>

(* The goroutine has its operation's outcome and sends it.                  *)
Send(g) ==
    /\ ~panic
    /\ bg[g].work \in {"ok", "failed"}
    /\ \/ /\ bg[g].open
          /\ bg' = [bg EXCEPT ![g].result = bg[g].work, ![g].work = None]
          /\ UNCHANGED <<mon, panic>>
       \/ /\ ~bg[g].open
          /\ Panic

(* The operator is restarted, after a panic or at any other time.           *)
Restarted ==
    /\ mon' = FreshMonitor
    /\ bg' = [g \in Goroutines |-> FreshGoroutine]
    /\ panic' = FALSE

(***************************************************************************)
(* The Istio component.                                                    *)
(***************************************************************************)
(* istioctl ends, with success or an error.                                 *)
IstioctlEnds(g) ==
    /\ ~panic
    /\ bg[g].work = "running"
    /\ \E out \in {"ok", "failed"} : bg' = [bg EXCEPT ![g].work = out]
    /\ UNCHANGED <<mon, panic>>

(* Faulty variant: istioctl is forked again while it runs.                  *)
ForkInstall_Running ==
    /\ ~panic
    /\ \E g \in Goroutines :
          /\ Free(g)
          /\ mon' = Running(mon, g)
          /\ bg' = Started(bg, g)
    /\ UNCHANGED panic

(* Install finds the monitor idle and forks istioctl.                       *)
ForkInstall ==
    /\ ~panic
    /\ ~mon.running
    /\ \E g \in Goroutines :
          /\ Free(g)
          /\ mon' = Running(mon, g)
          /\ bg' = Started(bg, g)
    /\ UNCHANGED panic

(* Install receives a result and resets the monitor; a failure is forked    *)
(* again in the same call, unless the temporary files cannot be written.    *)
InstallReceives ==
    /\ ~panic
    /\ mon.running
    /\ CheckResult # "pending"
    /\ \/ /\ ~CanClose
          /\ Panic
       \/ /\ CanClose
          /\ LET m == Reset(mon)
                 b == Closed(mon, Received(mon, bg))
             IN \/ mon' = m /\ bg' = b
                \/ /\ CheckResult = "failed"
                   /\ \E g \in Goroutines :
                         /\ Free(g)
                         /\ mon' = Running(m, g)
                         /\ bg' = Started(b, g)
          /\ UNCHANGED panic

MonitorNext ==
    \/ ForkInstall
    \/ InstallReceives
    \/ \E g \in Goroutines : IstioctlEnds(g) \/ Send(g)
    \/ Restarted

MonitorSpec == MonInit /\ [][MonitorNext]_monVars

(***************************************************************************)
(* Properties of the Istio component.                                      *)
(***************************************************************************)
(* No result is lost or unexpected: the goroutine that still works is the   *)
(* one the monitor waits for, on a channel that is open, so that its send   *)
(* never panics (monitor.go:54), and istioctl never runs twice at a time.   *)
OneOperation ==
    /\ ~panic
    /\ \A g \in Goroutines :
          bg[g].work # None => mon.running /\ mon.ch = g /\ bg[g].open
===============================================================================
