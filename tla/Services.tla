------------------------------ MODULE Services ------------------------------
(***************************************************************************)
(* The services around the queue and the executor, each with the            *)
(* environment it runs in: how a graph is built, how a drive is locked, how *)
(* its state is kept, how it waits, and how runs are started by others      *)
(* (schedules, sub-workflows, fan-outs).  They meet the rest of the system  *)
(* at the calls their modules name and share no variable with one another,  *)
(* so a behaviour exercises one of them, and what it leaves alone stays at  *)
(* rest.                                                                    *)
(***************************************************************************)
EXTENDS Lockers, Schedules, FanOut, SqliteStore, FileStores, Mailbox, Waits, SubWorkflow, Graph

VARIABLE part   \* the service a behaviour exercises

Parts == {"lockers", "schedules", "fanout", "sqlite", "files", "mailbox", "waits", "sub", "graph"}

vars == <<part, lkVars, scVars, fanVars, sqVars, fsVars, mbVars, waitVars, subVars, grVars>>

(* A service at rest is in one of its initial states, always the same. *)
Rests(p) == part # p =>
    CASE p = "fanout" -> mode = CHOOSE m \in Modes : TRUE
      [] p = "sqlite" -> strict = TRUE
      [] p = "files"  -> format = "memory"
      [] p = "waits"  -> /\ waitKind = CHOOSE k \in WaitKinds : TRUE
                         /\ duration = CHOOSE d \in Durations : TRUE
      [] p = "sub"    -> style = (CHOOSE s \in Styles : TRUE) /\ declares = TRUE
      [] p = "graph"  -> builder = CHOOSE b \in Builders : TRUE
      [] OTHER        -> TRUE

ServicesInit ==
    /\ part \in Parts
    /\ \A p \in Parts : Rests(p)
    /\ LkInit /\ ScInit /\ FanInit /\ SqInit /\ FsInit /\ MbInit /\ WaitInit /\ SubInit /\ GrInit

Others(p) ==
    /\ UNCHANGED part
    /\ p # "lockers"   => UNCHANGED lkVars
    /\ p # "schedules" => UNCHANGED scVars
    /\ p # "fanout"    => UNCHANGED fanVars
    /\ p # "sqlite"    => UNCHANGED sqVars
    /\ p # "files"     => UNCHANGED fsVars
    /\ p # "mailbox"   => UNCHANGED mbVars
    /\ p # "waits"     => UNCHANGED waitVars
    /\ p # "sub"       => UNCHANGED subVars
    /\ p # "graph"     => UNCHANGED grVars

ServicesNext ==
    \/ part = "lockers"   /\ LkNext   /\ Others("lockers")
    \/ part = "schedules" /\ ScNext   /\ Others("schedules")
    \/ part = "fanout"    /\ FanNext  /\ Others("fanout")
    \/ part = "sqlite"    /\ SqNext   /\ Others("sqlite")
    \/ part = "files"     /\ FsNext   /\ Others("files")
    \/ part = "mailbox"   /\ MbNext   /\ Others("mailbox")
    \/ part = "waits"     /\ WaitNext /\ Others("waits")
    \/ part = "sub"       /\ SubNext  /\ Others("sub")
    \/ part = "graph"     /\ GrNext   /\ Others("graph")

(* Goroutines that can run, run; some poller keeps polling, the clock goes   *)
(* on, the workers drain what they claim, the host keeps driving and         *)
(* ticking, and a parked parent is claimed again when its lease lapses.      *)
Fairness ==
    /\ \A d \in Drives : WF_lkVars(part = "lockers" /\ DriveStep(d))
    /\ WF_scVars(part = "schedules" /\ \E p \in Workers : Polls(p))
    /\ WF_scVars(part = "schedules" /\ MinutePasses)
    /\ WF_scVars(part = "schedules" /\ WorkersDrain)
    /\ WF_fanVars(part = "fanout" /\ FanStep)
    /\ WF_waitVars(part = "waits" /\ HostDrives)
    /\ WF_waitVars(part = "waits" /\ DriveGoesOn)
    /\ WF_subVars(part = "sub" /\ ParentEnters)
    /\ WF_subVars(part = "sub" /\ ParentStep)

ServicesSpec == ServicesInit /\ [][ServicesNext]_vars /\ Fairness

(* The service at work keeps to the domains of its state; the others have    *)
(* not left their initial ones.                                              *)
ServicesTypeOK ==
    CASE part = "lockers"   -> LkTypeOK
      [] part = "schedules" -> ScTypeOK
      [] part = "fanout"    -> FanTypeOK
      [] part = "sqlite"    -> SqTypeOK
      [] part = "files"     -> FsTypeOK
      [] part = "mailbox"   -> MbTypeOK
      [] part = "waits"     -> WaitTypeOK
      [] part = "sub"       -> SubTypeOK
      [] part = "graph"     -> GrTypeOK
=============================================================================
