------------------------------ MODULE CliHandlers -----------------------------
(***************************************************************************)
(* The commands.  Each opens the store, works and exits; the batch commands   *)
(* exit with an error when a subject failed, after the rest was done and      *)
(* context.md written again.  batch-close and batch-update hand their ids     *)
(* straight to the store.                                                     *)
(***************************************************************************)
EXTENDS Surfaces

\* Issues.
CmdCreate == Single(<<"check", "create", "refresh">>)
CmdShow == Single(<<"find", "look">>)
CmdListIssues == Single(<<"check", "look">>)
CmdUpdate == Single(<<"check", "statusgate", "update", "refresh">>)
CmdClose ==
    <<Once(<<"look">>), PerItem(<<"gate", "look", "close">>), Once(<<"refresh", "look">>)>>
CmdReopen == <<PerItem(<<"reopen">>), Once(<<"refresh">>)>>
CmdClaim == Single(<<"check", "claim", "refresh">>)
CmdClaimNext == Single(<<"check", "pick", "refresh">>)
CmdRelease == Single(<<"check", "release", "refresh">>)
CmdReleaseMyClaims == <<Once(<<"check">>), PerItem(<<"release">>), Once(<<"refresh">>)>>
CmdHeartbeatWork == Single(<<"check", "claim", "refresh">>)
CmdStaleClaims == Single(<<"check", "look">>)
CmdReclaim == Single(<<"check", "claim", "refresh">>)
CmdUndo == Single(<<"undo", "refresh">>)
CmdDeleteIssue == Single(<<"check", "delete", "refresh">>)
CmdStartWork == Single(<<"check", "start", "refresh">>)
CmdStartNextWork == Single(<<"check", "pick", "refresh">>)

\* Comments, labels and batches.
CmdAddComment == Single(<<"prefix", "find", "write", "look", "refresh">>)
CmdGetComments == Single(<<"find", "look">>)
CmdAddLabel == Single(<<"prefix", "find", "write", "refresh">>)
CmdRemoveLabel == Single(<<"prefix", "find", "write", "refresh">>)
CmdSearch == Single(<<"look">>)
CmdEvents == Single(<<"find">>)
CmdBatchUpdate == <<Once(<<"check", "prefix">>), PerItem(<<"update">>), Once(<<"refresh">>)>>
CmdBatchClose ==
    <<Once(<<"look", "prefix">>), PerItem(<<"close">>), Once(<<"look", "refresh">>)>>
CmdBatchAddLabel == <<Once(<<"prefix">>), PerItem(<<"write">>), Once(<<"reread", "refresh">>)>>
CmdBatchRemoveLabel ==
    <<Once(<<"prefix">>), PerItem(<<"write">>), Once(<<"reread", "refresh">>)>>
CmdBatchAddComment ==
    <<Once(<<"prefix">>), PerItem(<<"write">>), Once(<<"reread", "refresh">>)>>
CmdReconciliationDebt == Single(<<"check", "look">>)

\* Observations.
CmdObserve == Single(<<"check", "create", "refresh">>)
CmdListObservations == Single(<<"check", "look">>)
CmdDismissObservation == Single(<<"dismiss", "refresh">>)
CmdPromoteObservation == Single(<<"check", "promote", "reread", "refresh">>)
CmdBatchDismissObservations ==
    <<Once(<<"snapshot">>), PerItem(<<"dismiss">>), Once(<<"refresh">>)>>
CmdBatchPromoteObservations ==
    <<Once(<<"check">>), PerItem(<<"promote">>), Once(<<"reread", "refresh">>)>>
CmdLinkObservation == Single(<<"write", "refresh">>)
CmdBatchLinkObservations == <<Once(<<"find">>), PerItem(<<"write">>), Once(<<"refresh">>)>>
CmdPromoteObservationsToIssue == Single(<<"check", "create", "reread", "refresh">>)

\* Dependencies and plans.
CmdReady == Single(<<"look">>)
CmdBlocked == Single(<<"look">>)
CmdPlan == Single(<<"find">>)
CmdAddDep == Single(<<"write", "refresh">>)
CmdRemoveDep == Single(<<"write", "refresh">>)
CmdCriticalPath == Single(<<"look">>)
CmdCreatePlan == Single(<<"check", "create", "refresh">>)
CmdChanges == Single(<<"check", "look">>)

\* Files and findings.
CmdListFiles == Single(<<"check", "look">>)
CmdGetFile == Single(<<"find">>)
CmdGetFileTimeline == Single(<<"check", "find">>)
CmdGetIssueFiles == Single(<<"find", "look">>)
CmdAddFileAssociation == Single(<<"find", "find", "note">>)
CmdRegisterFile == Single(<<"check", "note">>)
CmdDeleteFileRecord == Single(<<"note">>)
CmdListFindings == Single(<<"check", "look">>)
CmdGetFinding == Single(<<"find">>)
CmdUpdateFinding == Single(<<"check", "note", "refresh">>)
CmdPromoteFinding == Single(<<"check", "create", "refresh">>)
CmdDismissFinding == Single(<<"check", "note", "refresh">>)
CmdBatchUpdateFindings == <<Once(<<"check">>), SomeCaught(<<"note">>), Once(<<"refresh">>)>>
CmdExportFindings == Single(<<"check", "look">>)

\* Annotations.
CmdAnnotateFile == Single(<<"check", "create", "refresh">>)
CmdListAnnotations == Single(<<"check", "look">>)
CmdGetAnnotation == Single(<<"find">>)
CmdResolveAnnotation == Single(<<"note", "refresh">>)
CmdCarryForwardAnnotation == Single(<<"note", "refresh">>)

\* Scanners.
CmdScannerEnable == Single(<<"check", "note">>)
CmdScannerDisable == Single(<<"check", "note">>)
CmdTriggerScan == Single(<<"check", "register", "reserve", "consult", "track", "poll">>)
CmdTriggerScanBatch ==
    <<Once(<<"check">>), SomeItem(<<"check">>), Once(<<"check">>), InTurn(<<"register">>),
      SomeCaught(<<"reserve">>), SomeCaught(<<"consult">>), SomeCaught(<<"track">>),
      Once(<<"poll">>)>>
CmdGetScanStatus == Single(<<"check", "find">>)
CmdPreviewScan == Single(<<"check">>)
CmdReportFinding == Single(<<"check", "sweep", "refresh", "readback">>)

\* Upkeep.
CmdExportData == Single(<<"look">>)
CmdImportData == Single(<<"check", "sweep", "refresh">>)
CmdDbCheckpoint == Single(<<"tidy">>)
CmdArchive == Single(<<"check", "sweep", "refresh">>)
CmdCleanStaleFindings == Single(<<"sweep">>)
CmdCompact == Single(<<"tidy">>)

\* Workflow templates.
CmdTemplatesReload == Single(<<"consult", "refresh">>)
CmdTransitions == Single(<<"find", "look">>)
CmdValidate == Single(<<"find">>)

-----------------------------------------------------------------------------
\* What this surface can be asked.
CliPlans == {
    CmdCreate, CmdShow, CmdListIssues, CmdUpdate, CmdClose, CmdReopen, CmdClaim, CmdClaimNext,
    CmdRelease, CmdReleaseMyClaims, CmdHeartbeatWork, CmdStaleClaims, CmdReclaim, CmdUndo,
    CmdDeleteIssue, CmdStartWork, CmdStartNextWork, CmdAddComment, CmdGetComments, CmdAddLabel,
    CmdRemoveLabel, CmdSearch, CmdEvents, CmdBatchUpdate, CmdBatchClose, CmdBatchAddLabel,
    CmdBatchRemoveLabel, CmdBatchAddComment, CmdReconciliationDebt, CmdObserve,
    CmdListObservations, CmdDismissObservation, CmdPromoteObservation,
    CmdBatchDismissObservations, CmdBatchPromoteObservations, CmdLinkObservation,
    CmdBatchLinkObservations, CmdPromoteObservationsToIssue, CmdReady, CmdBlocked, CmdPlan,
    CmdAddDep, CmdRemoveDep, CmdCriticalPath, CmdCreatePlan, CmdChanges, CmdListFiles,
    CmdGetFile, CmdGetFileTimeline, CmdGetIssueFiles, CmdAddFileAssociation, CmdRegisterFile,
    CmdDeleteFileRecord, CmdListFindings, CmdGetFinding, CmdUpdateFinding, CmdPromoteFinding,
    CmdDismissFinding, CmdBatchUpdateFindings, CmdExportFindings, CmdAnnotateFile,
    CmdListAnnotations, CmdGetAnnotation, CmdResolveAnnotation, CmdCarryForwardAnnotation,
    CmdScannerEnable, CmdScannerDisable, CmdTriggerScan, CmdTriggerScanBatch, CmdGetScanStatus,
    CmdPreviewScan, CmdReportFinding, CmdExportData, CmdImportData, CmdDbCheckpoint,
    CmdArchive, CmdCleanStaleFindings, CmdCompact, CmdTemplatesReload, CmdTransitions,
    CmdValidate}
===============================================================================
