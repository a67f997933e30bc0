-------------------------- MODULE ServicesProofs ---------------------------
(***************************************************************************)
(* The composition: a behaviour of the services is, seen through the        *)
(* variables of one of them, a behaviour of that service alone, so that     *)
(* what the services promise one by one they promise together.              *)
(***************************************************************************)
EXTENDS Services, LockersProofs, SchedulesProofs, StoresProofs, NodesProofs, GraphProofs

LEMMA ServicesSteps ==
  ASSUME [ServicesNext]_vars
  PROVE  /\ [LkNext]_lkVars /\ [ScNext]_scVars /\ [FanNext]_fanVars /\ [SqNext]_sqVars
         /\ [FsNext]_fsVars /\ [MbNext]_mbVars /\ [WaitNext]_waitVars /\ [SubNext]_subVars
         /\ [GrNext]_grVars /\ UNCHANGED part
<1>1. CASE UNCHANGED vars
  BY <1>1 DEF vars
<1>2. CASE ServicesNext
  BY <1>2 DEF ServicesNext, Others
<1> QED
  BY <1>1, <1>2

LEMMA ServicesStarts ==
  ServicesInit => /\ LkInit /\ ScInit /\ FanInit /\ SqInit /\ FsInit /\ MbInit /\ WaitInit /\ SubInit
                  /\ GrInit /\ part \in Parts
  BY DEF ServicesInit

LEMMA ServicesProject ==
  ServicesSpec => /\ LkSpec /\ ScSpec /\ FanSpec /\ SqSpec /\ FsSpec /\ MbSpec /\ WaitSpec /\ SubSpec
                  /\ GrSpec /\ [](part \in Parts)
<1>1. part \in Parts /\ UNCHANGED part => (part \in Parts)'
  BY DEF Parts
<1> QED
  BY <1>1, ServicesSteps, ServicesStarts, PTL
  DEF ServicesSpec, LkSpec, ScSpec, FanSpec, SqSpec, FsSpec, MbSpec, WaitSpec, SubSpec, GrSpec

(* Whatever service is at work keeps to the domains of its state.            *)
THEOREM ServicesTypeCorrect == ServicesSpec => []ServicesTypeOK
<1>1. /\ part \in Parts /\ LkTypeOK /\ ScTypeOK /\ FanTypeOK /\ SqTypeOK /\ FsTypeOK /\ MbTypeOK
      /\ WaitTypeOK /\ SubTypeOK /\ GrTypeOK
      => ServicesTypeOK
  BY Zenon DEF Parts, ServicesTypeOK
<1> QED
  BY <1>1, ServicesProject, LkTypeCorrect, ScTypeCorrect, FanTypeCorrect, SqliteTypeCorrect,
     FileTypeCorrect, MailboxTypeCorrect, WaitTypeCorrect, SubTypeCorrect, GraphTypeHolds, PTL

(* Of the system the Services run explores, whatever service a behaviour     *)
(* exercises: drives are serialized (lease.go), schedules keep their cap and *)
(* their slots and lose no one-shot (schedule.go, cron.go), the stores       *)
(* forget nothing (workflow_store_sqlite_delta.go, workflow_store_groupcommit *)
(* .go), the mailbox keeps its cap (signal_store.go), a wait ends for a      *)
(* cause (timer.go, signal.go), a parent completes over a child that is over *)
(* (subworkflow.go), and a built graph keeps what Build certified of it      *)
(* (dag.go, reconvergence.go, boundary.go).                                  *)
THEOREM ServicesHold ==
  ServicesSpec =>
    /\ [](DrivesSerialized /\ BacklogBounded /\ NextSlotExact /\ NothingForgotten /\ ParkedIsDurable
          /\ SyncedIsCurrent /\ LossBounded /\ MailboxWithinCap /\ WaitEndsForCause
          /\ CompletedOverResult /\ BuiltGraphHolds)
    /\ OneshotNeverLost
  BY ServicesProject, SerializedHolds, BacklogHolds, SlotHolds, OneshotHolds, NothingForgottenHolds,
     ParkedHolds, SyncHolds, LossHolds, MailboxHolds, CauseHolds, ResultHolds, BuiltGraphProved,
     PTL

(* ... and, where the fan-out node is not retried within a drive, its        *)
(* expansion is durable before a branch starts and its branches add up       *)
(* (fanout.go).                                                              *)
THEOREM ServicesFanOutHolds ==
  NodeRetries = 0 /\ ServicesSpec => [](ExpansionBeforeBranches /\ FanOutPartition)
<1> SUFFICES ASSUME NodeRetries = 0
             PROVE  ServicesSpec => [](ExpansionBeforeBranches /\ FanOutPartition)
  OBVIOUS
<1>1. (FanSpec => []ExpansionBeforeBranches) /\ (FanSpec => []FanOutPartition)
  BY ExpansionFirst, PartitionHolds
<1> QED
  BY <1>1, ServicesProject, PTL
=============================================================================
