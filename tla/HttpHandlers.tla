------------------------------ MODULE HttpHandlers ----------------------------
(***************************************************************************)
(* The dashboard's routes, the classic ones and the federation's (weft).      *)
(* They write the same store as the tools and the commands, and leave         *)
(* context.md alone but for the ingest of scan results.                       *)
(***************************************************************************)
EXTENDS Surfaces

\* Issues, the classic routes.
ApiIssueDetail == Single(<<"prefix", "find", "look">>)
ApiIssueTransitions == Single(<<"prefix", "find">>)
ApiIssueFiles == Single(<<"find", "look">>)
ApiIssueFindings == Single(<<"find", "look">>)
ApiUpdateIssue == Single(<<"check", "statusgate", "update">>)
ApiCloseIssue == Single(<<"check", "look", "gate", "look", "close">>)
ApiReopenIssue == Single(<<"check", "reopen">>)
ApiAddComment == Single(<<"prefix", "find", "check", "write", "look">>)
ApiSearch == Single(<<"check", "look">>)
ApiPlan == Single(<<"check", "find">>)
ApiBatchUpdate ==
    <<Once(<<"check">>), PerItem(<<"statusgate">>), Once(<<"prefix">>), PerItem(<<"update">>)>>
ApiBatchClose ==
    <<Once(<<"check">>), PerItem(<<"gate">>), Once(<<"prefix">>), PerItem(<<"close">>)>>
ApiCreateIssue == Single(<<"check", "create">>)
ApiClaimIssue == Single(<<"check", "claim">>)
ApiReleaseClaim == Single(<<"check", "release", "readback">>)
ApiClaimNext == Single(<<"check", "pick">>)
ApiAddDependency == Single(<<"check", "write">>)
ApiRemoveDependency == Single(<<"write">>)

\* Issues, the federation routes.
ApiWeftListIssues == Single(<<"check", "look">>)
ApiWeftReady == Single(<<"look">>)
ApiWeftBlocked == Single(<<"look">>)
ApiWeftSearch == Single(<<"check", "look">>)
ApiWeftGetComments == Single(<<"prefix", "find", "look">>)
ApiWeftGetIssueEvents == Single(<<"check", "find">>)
ApiWeftGetIssueFiles == Single(<<"prefix", "find", "look">>)
ApiWeftBatchUpdate ==
    <<Once(<<"check">>), PerItem(<<"statusgate">>), Once(<<"prefix">>), PerItem(<<"update">>)>>
ApiWeftBatchClose ==
    <<Once(<<"check">>), PerItem(<<"gate">>), Once(<<"look", "prefix">>), PerItem(<<"close">>),
      Once(<<"look">>)>>
ApiWeftGetIssue == Single(<<"check", "find", "look">>)
ApiWeftCreateIssue == Single(<<"check", "create">>)
ApiWeftUpdateIssue == Single(<<"check", "statusgate", "update">>)
ApiWeftCloseIssue == Single(<<"check", "look", "look", "gate", "look", "close", "look">>)
ApiWeftReopenIssue == Single(<<"check", "reopen">>)
ApiWeftClaimIssue == Single(<<"check", "claim">>)
ApiWeftReleaseClaim == Single(<<"check", "release", "readback">>)
ApiWeftClaimNext == Single(<<"check", "pick">>)
ApiWeftAddComment == Single(<<"prefix", "find", "check", "write", "look">>)
ApiWeftAddDependency == Single(<<"check", "write">>)
ApiWeftRemoveDependency == Single(<<"write">>)

\* Files, findings and scan results.
ApiListFiles == Single(<<"check", "look">>)
ApiFileHotspots == Single(<<"check", "look">>)
ApiGetFile == Single(<<"find">>)
ApiGetFileFindings == Single(<<"find", "check", "look">>)
ApiUpdateFileFinding == Single(<<"check", "note">>)
ApiGetFileTimeline == Single(<<"check", "find">>)
ApiAddFileAssociation == Single(<<"find", "check", "note">>)
ApiScanResults == Single(<<"check", "sweep", "refresh">>)
ApiWeftScanResults == Single(<<"check", "sweep", "refresh">>)
ApiWeftListFiles == Single(<<"check", "look">>)
ApiWeftListFindings == Single(<<"check", "look">>)
ApiWeftFindingDossier == Single(<<"find", "look">>)
ApiWeftSessionEvidence == Single(<<"check", "look", "look">>)
ApiWeftPromoteFinding == Single(<<"check", "find", "create">>)
ApiWeftPromoteFindingAndAttach == Single(<<"check", "find", "create", "attach">>)
ApiWeftCleanStaleFindings == Single(<<"check", "sweep">>)

\* Observations, changes and statistics.
CreateObservationHandler == Single(<<"check", "look", "create">>)
ApiWeftChanges == Single(<<"check", "look">>)
ApiWeftListObservations == Single(<<"check", "look">>)
ApiActivity == Single(<<"check", "look">>)
ApiGraph == Single(<<"check", "look">>)

\* Entity associations.
ApiListEntityAssociations == Single(<<"prefix", "look", "find">>)
ApiListAssociationsByEntity == Single(<<"check", "look">>)
ApiAddEntityAssociation == Single(<<"check", "note">>)
ApiRemoveEntityAssociation == Single(<<"check", "note">>)

-----------------------------------------------------------------------------
\* What this surface can be asked.
HttpPlans == {
    ApiIssueDetail, ApiIssueTransitions, ApiIssueFiles, ApiIssueFindings, ApiUpdateIssue,
    ApiCloseIssue, ApiReopenIssue, ApiAddComment, ApiSearch, ApiPlan, ApiBatchUpdate,
    ApiBatchClose, ApiCreateIssue, ApiClaimIssue, ApiReleaseClaim, ApiClaimNext,
    ApiAddDependency, ApiRemoveDependency, ApiWeftListIssues, ApiWeftReady, ApiWeftBlocked,
    ApiWeftSearch, ApiWeftGetComments, ApiWeftGetIssueEvents, ApiWeftGetIssueFiles,
    ApiWeftBatchUpdate, ApiWeftBatchClose, ApiWeftGetIssue, ApiWeftCreateIssue,
    ApiWeftUpdateIssue, ApiWeftCloseIssue, ApiWeftReopenIssue, ApiWeftClaimIssue,
    ApiWeftReleaseClaim, ApiWeftClaimNext, ApiWeftAddComment, ApiWeftAddDependency,
    ApiWeftRemoveDependency, ApiListFiles, ApiFileHotspots, ApiGetFile, ApiGetFileFindings,
    ApiUpdateFileFinding, ApiGetFileTimeline, ApiAddFileAssociation, ApiScanResults,
    ApiWeftScanResults, ApiWeftListFiles, ApiWeftListFindings, ApiWeftFindingDossier,
    ApiWeftSessionEvidence, ApiWeftPromoteFinding, ApiWeftPromoteFindingAndAttach,
    ApiWeftCleanStaleFindings, CreateObservationHandler, ApiWeftChanges,
    ApiWeftListObservations, ApiActivity, ApiGraph, ApiListEntityAssociations,
    ApiListAssociationsByEntity, ApiAddEntityAssociation, ApiRemoveEntityAssociation}
===============================================================================
