------------------------------ MODULE McpHandlers -----------------------------
(***************************************************************************)
(* The MCP server's tools.  A tool that changes what context.md shows writes  *)
(* it again before it answers; the close and update tools ask the closure     *)
(* gate, once per issue in the batch tools, before their first write.         *)
(***************************************************************************)
EXTENDS Surfaces

\* Issues: one call, one issue.
HandleGetIssue == Single(<<"check", "find", "look">>)
HandleListIssues == Single(<<"check", "look">>)
HandleSearchIssues == Single(<<"check", "look">>)
HandleCreateIssue == Single(<<"check", "consult", "create", "refresh">>)
HandleUpdateIssue == Single(<<"check", "find", "statusgate", "update", "refresh">>)
PrepareCloseIssue == Single(<<"hint">>)
HandleCloseIssue ==
    PrepareCloseIssue \o Single(<<"check", "look", "gate", "look", "look", "close", "refresh", "look">>)
HandleDeleteIssue == Single(<<"check", "delete", "refresh">>)
HandleReopenIssue == Single(<<"check", "reopen", "refresh">>)
HandleClaimIssue == Single(<<"check", "claim", "refresh">>)
HandleReleaseClaim == Single(<<"check", "release", "refresh">>)
HandleHeartbeatWork == Single(<<"check", "claim", "refresh">>)
HandleReclaimIssue == Single(<<"check", "claim", "refresh">>)
HandleGetStaleClaims == Single(<<"check", "look">>)
HandleClaimNext == Single(<<"check", "pick", "refresh">>)
HandleStartWork == Single(<<"check", "start", "refresh">>)
HandleStartNextWork == Single(<<"check", "pick", "refresh">>)

\* Issues: several in one call.
HandleReleaseMyClaims == <<Once(<<"check">>), PerItem(<<"release">>), Once(<<"refresh">>)>>
HandleBatchClose ==
    <<Once(<<"check">>), PerItem(<<"gate">>), Once(<<"look", "prefix">>), PerItem(<<"close">>),
      Once(<<"refresh", "look">>)>>
HandleBatchUpdate ==
    <<Once(<<"check">>), PerItem(<<"statusgate">>), Once(<<"prefix">>), PerItem(<<"update">>),
      Once(<<"refresh">>)>>

\* Dependencies, plans and labels of a subtree.
HandleAddDependency == Single(<<"check", "write", "refresh", "reread">>)
HandleRemoveDependency == Single(<<"check", "write", "refresh", "reread">>)
HandleGetReady == Single(<<"check", "look">>)
HandleGetBlocked == Single(<<"check", "look">>)
HandleGetPlan == Single(<<"check", "find">>)
CreatePlanFromPayload == Single(<<"check", "create", "refresh">>)
HandleCreatePlanFromFile == Single(<<"check", "create", "refresh">>)
HandleAddPlanStep == Single(<<"check", "create", "refresh">>)
HandleRetargetPlanDependency == Single(<<"check", "write", "refresh">>)
HandleMovePlanStep == Single(<<"check", "find", "write", "refresh">>)
HandleLabelPlanTree ==
    <<Once(<<"check", "find">>), PerItem(<<"write">>), Once(<<"refresh", "readback">>)>>
HandleLabelSubtree == <<Once(<<"check">>), PerItem(<<"write">>), Once(<<"refresh", "reread">>)>>
HandleGetCriticalPath == Single(<<"look">>)

\* Comments, labels, events and upkeep.
HandleListReconciliationDebt == Single(<<"check", "look">>)
HandleAddComment == Single(<<"check", "find", "write", "refresh", "reread">>)
HandleGetComments == Single(<<"find", "look">>)
HandleAddLabel == Single(<<"check", "find", "write", "refresh", "reread">>)
HandleRemoveLabel == Single(<<"check", "find", "write", "refresh", "reread">>)
HandleBatchAddLabel ==
    <<Once(<<"check", "prefix">>), PerItem(<<"write">>), Once(<<"refresh", "reread">>)>>
HandleBatchRemoveLabel ==
    <<Once(<<"check", "prefix">>), PerItem(<<"write">>), Once(<<"refresh", "reread">>)>>
HandleBatchAddComment ==
    <<Once(<<"check", "prefix">>), PerItem(<<"write">>), Once(<<"refresh", "reread">>)>>
HandleGetChanges == Single(<<"check", "look">>)
HandleExportJsonl == Single(<<"check", "look">>)
HandleImportJsonl == Single(<<"check", "sweep", "refresh">>)
HandleCheckpointDb == Single(<<"tidy">>)
HandleArchiveClosed == Single(<<"check", "sweep", "refresh">>)
HandleCompactEvents == Single(<<"check", "tidy">>)
HandleUndoLast == Single(<<"check", "undo", "refresh">>)
HandleGetIssueEvents == Single(<<"check", "find">>)

\* Observations.
HandleObserve == Single(<<"check", "create", "refresh">>)
HandleListObservations == Single(<<"check", "look">>)
HandleDismissObservation == Single(<<"check", "dismiss", "refresh">>)
HandleBatchDismissObservations ==
    <<Once(<<"check", "snapshot">>), PerItem(<<"dismiss">>), Once(<<"refresh">>)>>
HandleBatchPromoteObservations ==
    <<Once(<<"check">>), PerItem(<<"promote">>), Once(<<"refresh", "reread">>)>>
HandleLinkObservation == Single(<<"check", "write", "refresh">>)
HandleBatchLinkObservations ==
    <<Once(<<"check", "find">>), PerItem(<<"write">>), Once(<<"refresh">>)>>
HandlePromoteObservationsToIssue == Single(<<"check", "create", "reread", "refresh">>)
HandlePromoteObservation == Single(<<"check", "promote", "refresh", "reread">>)

\* Files and findings: none of them is in context.md, a promotion is.
HandleListFiles == Single(<<"check", "look">>)
HandleGetFile == Single(<<"check", "find">>)
HandleDeleteFileRecord == Single(<<"check", "note">>)
HandleGetFileTimeline == Single(<<"check", "find">>)
HandleGetIssueFiles == Single(<<"check", "find", "look">>)
HandleAddFileAssociation == Single(<<"check", "find", "find", "note">>)
HandleRegisterFile == Single(<<"check", "note">>)
HandleListFindings == Single(<<"check", "look">>)
HandleUpdateFinding == Single(<<"check", "note">>)
HandleBatchUpdateFindings == <<Once(<<"check">>), SomeItem(<<"note">>)>>
HandlePromoteFinding == Single(<<"check", "create", "refresh">>)
HandlePromoteFindingAndAttachEntity == Single(<<"check", "create", "attach", "refresh">>)
HandleDismissFinding == Single(<<"check", "note">>)

\* Annotations.
HandleAnnotateFile == Single(<<"check", "consult", "create", "refresh">>)
HandleListAnnotations == Single(<<"check", "look">>)
HandleUpdateAnnotation == Single(<<"check", "note", "refresh">>)
HandleResolveAnnotation == Single(<<"check", "note", "refresh">>)
HandleSupersedeAnnotation == Single(<<"check", "note", "refresh">>)
HandlePromoteAnnotation == Single(<<"check", "promote", "refresh">>)
HandleCarryForwardAnnotation == Single(<<"check", "note", "refresh">>)
HandleLinkAnnotation == Single(<<"check", "note", "refresh">>)
HandleUnlinkAnnotation == Single(<<"check", "note", "refresh">>)
HandleGetFileAnnotations == Single(<<"check", "look">>)
HandleListAttentionAnnotations == Single(<<"check", "look">>)

\* Entity associations.
HandleAddEntityAssociation == Single(<<"check", "note">>)
HandleRemoveEntityAssociation == Single(<<"check", "note">>)
HandleListEntityAssociations == Single(<<"check", "prefix", "look", "find">>)
HandleListAssociationsByEntity == Single(<<"check", "look">>)

\* Workflow templates.
HandleGetValidTransitions == Single(<<"find", "look">>)
HandleValidateIssue == Single(<<"find", "look">>)
HandleReloadTemplates == Single(<<"consult", "refresh">>)

\* Scanners.
HandleEnableScanner == Single(<<"check", "note">>)
HandleDisableScanner == Single(<<"check", "note">>)
HandleReportFinding == Single(<<"check", "consult", "check", "sweep", "refresh", "readback">>)
HandleTriggerScan == Single(<<"check", "register", "reserve", "consult", "track", "poll">>)
HandleTriggerScanBatch ==
    <<Once(<<"check">>), SomeItem(<<"check">>), Once(<<"check">>), InTurn(<<"register">>),
      SomeCaught(<<"reserve">>), SomeCaught(<<"consult">>), SomeCaught(<<"track">>),
      Once(<<"poll">>)>>
HandleGetScanStatus == Single(<<"check", "find">>)
HandlePreviewScan == Single(<<"check">>)

-----------------------------------------------------------------------------
\* What this surface can be asked.
McpPlans == {
    HandleGetIssue, HandleListIssues, HandleSearchIssues, HandleCreateIssue, HandleUpdateIssue,
    HandleCloseIssue, HandleDeleteIssue, HandleReopenIssue, HandleClaimIssue,
    HandleReleaseClaim, HandleHeartbeatWork, HandleReclaimIssue, HandleGetStaleClaims,
    HandleClaimNext, HandleStartWork, HandleStartNextWork, HandleReleaseMyClaims,
    HandleBatchClose, HandleBatchUpdate, HandleAddDependency, HandleRemoveDependency,
    HandleGetReady, HandleGetBlocked, HandleGetPlan, CreatePlanFromPayload,
    HandleCreatePlanFromFile, HandleAddPlanStep, HandleRetargetPlanDependency,
    HandleMovePlanStep, HandleLabelPlanTree, HandleLabelSubtree, HandleGetCriticalPath,
    HandleListReconciliationDebt, HandleAddComment, HandleGetComments, HandleAddLabel,
    HandleRemoveLabel, HandleBatchAddLabel, HandleBatchRemoveLabel, HandleBatchAddComment,
    HandleGetChanges, HandleExportJsonl, HandleImportJsonl, HandleCheckpointDb,
    HandleArchiveClosed, HandleCompactEvents, HandleUndoLast, HandleGetIssueEvents,
    HandleObserve, HandleListObservations, HandleDismissObservation,
    HandleBatchDismissObservations, HandleBatchPromoteObservations, HandleLinkObservation,
    HandleBatchLinkObservations, HandlePromoteObservationsToIssue, HandlePromoteObservation,
    HandleListFiles, HandleGetFile, HandleDeleteFileRecord, HandleGetFileTimeline,
    HandleGetIssueFiles, HandleAddFileAssociation, HandleRegisterFile, HandleListFindings,
    HandleUpdateFinding, HandleBatchUpdateFindings, HandlePromoteFinding,
    HandlePromoteFindingAndAttachEntity, HandleDismissFinding, HandleAnnotateFile,
    HandleListAnnotations, HandleUpdateAnnotation, HandleResolveAnnotation,
    HandleSupersedeAnnotation, HandlePromoteAnnotation, HandleCarryForwardAnnotation,
    HandleLinkAnnotation, HandleUnlinkAnnotation, HandleGetFileAnnotations,
    HandleListAttentionAnnotations, HandleAddEntityAssociation, HandleRemoveEntityAssociation,
    HandleListEntityAssociations, HandleListAssociationsByEntity, HandleGetValidTransitions,
    HandleValidateIssue, HandleReloadTemplates, HandleEnableScanner, HandleDisableScanner,
    HandleReportFinding, HandleTriggerScan, HandleTriggerScanBatch, HandleGetScanStatus,
    HandlePreviewScan}
===============================================================================
