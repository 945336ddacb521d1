-------------------------------- MODULE ApiResponses -------------------------------
(***************************************************************************)
(* The response parsers of the generated HTTP client, one definition per    *)
(* operation: the type each documented status is decoded into when the     *)
(* answer is labelled JSON.  An undocumented status, and one documented    *)
(* without a body, is decoded into nothing.  The response headers a parser *)
(* binds are strings, whose binding cannot fail, and are left out.         *)
(***************************************************************************)
EXTENDS TLC

\* the statuses documented with an ErrorResponse body
Errors(statuses) == [s \in statuses |-> "ErrorResponse"]

ParseActivateAiResp == 200 :> "AiActivateResponse" @@ Errors({400, 401, 403, 409, 500, 502, 503})
ParseAnalyzeProfilerWithAiResp ==
    200 :> "AiAnalyzeProfilerResponse" @@ Errors({400, 401, 403, 409, 500, 502, 503, 504})
ParseChatWithAiResp ==
    200 :> "AiChatResponse" @@ 400 :> "AiProtocolError" @@ Errors({401, 402, 403, 404, 409, 429, 500, 502, 503, 504})
ParseStreamChatWithAiResp ==
    400 :> "AiProtocolError" @@ Errors({401, 402, 403, 404, 409, 429, 500, 502, 503, 504})
ParseListAiChatsResp == 200 :> "AiChatList" @@ Errors({401, 403, 500})
ParseDeleteAiChatResp == 200 :> "AiChatDeleted" @@ Errors({401, 403, 404, 500})
ParseGetAiChatResp == 200 :> "AiChat" @@ Errors({401, 403, 404, 500})
ParseUpdateAiChatResp == 200 :> "AiChat" @@ Errors({400, 401, 403, 404, 500})
ParseGetAiConfigResp == 200 :> "AiConfig" @@ Errors({401, 403, 500})
ParseExecuteBatchResp ==
    200 :> "BatchResponse" @@ 400 :> "BatchError" @@ 408 :> "BatchError" @@ Errors({401, 403, 404, 409, 413, 500, 503})
ParseBeginTransactionResp == Errors({400, 401, 404, 409, 500})
ParseGetClusterStatusResp == 200 :> "ClusterStatus" @@ Errors({401, 403, 500, 503})
ParseAcceptClusterDatabaseCopyResp ==
    200 :> "ClusterActionResponse" @@ Errors({400, 401, 403, 404, 409, 500})
ParseAcceptClusterDivergedDatabaseResp ==
    200 :> "ClusterActionResponse" @@ Errors({400, 401, 403, 404, 409, 500})
ParseAcceptClusterStaleSnapshotResp ==
    200 :> "ClusterActionResponse" @@ Errors({400, 401, 403, 404, 409, 500})
ParseResolveClusterAuthSessionResp ==
    200 :> "ClusterAuthSessionResponse" @@ Errors({400, 401, 403, 404, 409, 500})
ParseGetClusterBootstrapStateResp ==
    200 :> "BootstrapStateResponse" @@ Errors({400, 401, 403, 409, 500})
ParseGetClusterPeerCapabilitiesResp ==
    200 :> "PeerCapabilitiesResponse" @@ Errors({400, 401, 403, 409, 500})
ParseTransferClusterLeadershipResp ==
    200 :> "ClusterActionResponse" @@ Errors({400, 401, 403, 409, 500})
ParseLeaveClusterResp == 200 :> "ClusterActionResponse" @@ Errors({400, 401, 403, 409, 500})
ParseAddClusterPeerResp == 200 :> "ClusterActionResponse" @@ Errors({400, 401, 403, 409, 500, 503})
ParseRemoveClusterPeerResp == 200 :> "ClusterActionResponse" @@ Errors({400, 401, 403, 409, 500})
ParseResyncClusterDatabaseResp ==
    200 :> "ClusterActionResponse" @@ Errors({400, 401, 403, 409, 500, 503})
ParseSeedClusterSecurityDocumentsResp ==
    200 :> "SecuritySeedResponse" @@ 503 :> "SecuritySeedResponse" @@ Errors({400, 401, 403, 409, 500})
ParseStepDownClusterLeaderResp ==
    200 :> "ClusterActionResponse" @@ Errors({400, 401, 403, 409, 500})
ParseVerifyClusterDatabaseResp ==
    200 :> "VerifyDatabaseResponse" @@ Errors({400, 401, 403, 404, 409, 500})
ParseExecuteCommandResp == 200 :> "QueryResponse" @@ Errors({400, 401, 404, 409, 413, 500})
ParseCommitTransactionResp == Errors({400, 401, 404, 409, 500})
ParseListDatabasesResp == 200 :> "DatabaseList" @@ Errors({401, 500})
ParseCheckDatabaseExistsResp == 200 :> "DatabaseExists" @@ Errors({400, 401, 500})
ParseDownloadDatabaseSnapshotResp == Errors({400, 401, 403, 404, 503})
ParseGetDatabaseSnapshotChecksumsResp ==
    200 :> "GetDatabaseSnapshotChecksums200JSONResponseBody" @@ Errors({400, 401, 403, 404, 500, 503})
ParseCheckHealthResp == Errors({})
ParseCheckHealthHeadResp == Errors({})
ParseLoginResp == 200 :> "LoginResponse" @@ Errors({401, 403, 409, 500, 503})
ParseLogoutResp == Errors({401, 409, 500})
ParseInvokeMcpResp ==
    200 :> "JsonRpcMessage" @@ 403 :> "JsonRpcMessage" @@ 405 :> "JsonRpcMessage" @@ 503 :> "JsonRpcMessage" @@ Errors({401, 409, 500})
ParseGetMcpConfigResp == 200 :> "McpConfig" @@ Errors({401, 403, 405, 500})
ParseUpdateMcpConfigResp == 200 :> "McpConfig" @@ Errors({400, 401, 403, 405, 409, 500})
ParseGetOperationProgressResp == 200 :> "ProgressResponse" @@ Errors({400, 401, 403, 500})
ParseExecuteQueryPostResp == 200 :> "QueryResponse" @@ Errors({400, 401, 404, 409, 413, 500})
ParseExecuteQueryGetResp == 200 :> "QueryResponse" @@ Errors({400, 401, 404, 409, 413, 500})
ParseCheckReadyResp == Errors({})
ParseCheckReadyHeadResp == Errors({})
ParseRollbackTransactionResp == Errors({400, 401, 404, 409, 500})
ParseGetServerInfoResp == 200 :> "ServerInfo" @@ Errors({401, 500})
ParseExecuteServerCommandResp ==
    200 :> "ServerCommandResponse" @@ Errors({400, 401, 404, 409, 413, 500, 503, 504})
ParseDeleteApiTokenResp == 200 :> "SecurityAdminResult" @@ Errors({400, 401, 403, 404, 500, 504})
ParseListApiTokensResp == 200 :> "ApiTokenList" @@ Errors({400, 401, 403, 500})
ParseCreateApiTokenResp ==
    201 :> "CreateApiTokenResponse" @@ Errors({400, 401, 403, 409, 412, 500, 504})
ParseDeleteGroupResp == 200 :> "SecurityAdminResult" @@ Errors({400, 401, 403, 404, 500, 504})
ParseListGroupsResp == 200 :> "GroupList" @@ Errors({400, 401, 403, 500})
ParseCreateOrUpdateGroupResp ==
    200 :> "SecurityAdminResult" @@ Errors({400, 401, 403, 409, 500, 504})
ParseGetSupportStatusResp == 200 :> "SupportStatus" @@ Errors({401, 403, 500})
ParseDownloadSupportBundleResp == Errors({400, 401, 403, 404, 409})
ParseCancelSupportConnectResp == Errors({401, 403})
ParseGetSupportConnectResp == Errors({401, 403})
ParseStartSupportConnectResp == Errors({401, 403, 404, 409, 429, 503})
ParseRegisterSupportInstallationResp == Errors({401, 403, 409, 503})
ParseListSupportIssuesResp ==
    200 :> "map[string]interface{}" @@ Errors({400, 401, 402, 403, 404, 409, 413, 429, 502, 503})
ParseCreateSupportIssueResp ==
    201 :> "map[string]interface{}" @@ Errors({400, 401, 402, 403, 404, 409, 413, 429, 502, 503})
ParseGetSupportIssueResp ==
    200 :> "map[string]interface{}" @@ Errors({400, 401, 402, 403, 404, 409, 413, 429, 502, 503})
ParseSetSupportIssueOpenResp == Errors({400, 401, 402, 403, 404, 409, 413, 429, 502, 503})
ParseAttachToSupportIssueResp ==
    200 :> "map[string]interface{}" @@ Errors({400, 401, 402, 403, 404, 409, 413, 429, 502, 503})
ParseCommentSupportIssueResp ==
    201 :> "map[string]interface{}" @@ Errors({400, 401, 402, 403, 404, 409, 413, 429, 502, 503})
ParseAnswerSupportRequestResp ==
    201 :> "map[string]interface{}" @@ Errors({400, 401, 402, 403, 404, 409, 413, 429, 502, 503})
ParseAnswerSupportRequestsResp ==
    201 :> "map[string]interface{}" @@ Errors({400, 401, 402, 403, 404, 409, 413, 429, 502, 503})
ParseRunSupportPeerQueryResp == Errors({400, 401, 403, 409})
ParseGetSupportPeersResp == Errors({401, 403})
ParsePreviewSupportBundleResp == 200 :> "SupportPreview" @@ Errors({400, 401, 403, 409, 413, 500})
ParseUnregisterSupportResp == Errors({401, 403, 409})
ParseRegisterSupportResp == 200 :> "SupportStatus" @@ Errors({400, 401, 403, 409, 503})
ParseStageSupportScreenshotResp ==
    201 :> "map[string]interface{}" @@ Errors({400, 401, 403, 409, 413})
ParseDiscardSupportScreenshotResp == Errors({401, 403})
ParseDeleteUserResp == 200 :> "SecurityAdminResult" @@ Errors({400, 401, 403, 404, 500, 504})
ParseListUsersResp == 200 :> "UserList" @@ Errors({400, 401, 403, 500})
ParseCreateUserResp == 201 :> "SecurityAdminResult" @@ Errors({400, 401, 403, 409, 500, 504})
ParseUpdateUserResp == 200 :> "SecurityAdminResult" @@ Errors({400, 401, 403, 404, 500, 504})
ParseListSessionsResp == 200 :> "SessionList" @@ Errors({401, 403, 500})
ParseCheckGrafanaHealthResp == 200 :> "GrafanaHealth" @@ Errors({400, 401, 403, 404, 500})
ParseGetGrafanaMetadataResp == 200 :> "GrafanaMetadata" @@ Errors({400, 401, 403, 404, 500})
ParseQueryGrafanaResp == 200 :> "GrafanaQueryResponse" @@ Errors({400, 401, 403, 404, 409, 500})
ParseGetTimeSeriesLatestResp ==
    200 :> "TimeSeriesLatestResponse" @@ Errors({400, 401, 403, 404, 500})
ParsePromQLLabelValuesResp ==
    200 :> "PromQLLabelsResponse" @@ 400 :> "PromQLErrorResponse" @@ Errors({401, 403, 404, 500})
ParsePromQLLabelsResp ==
    200 :> "PromQLLabelsResponse" @@ 400 :> "PromQLErrorResponse" @@ Errors({401, 403, 404, 500})
ParsePromQLQueryResp ==
    200 :> "PromQLDataResponse" @@ 400 :> "PromQLErrorResponse" @@ Errors({401, 403, 404, 500})
ParsePromQLQueryRangeResp ==
    200 :> "PromQLDataResponse" @@ 400 :> "PromQLErrorResponse" @@ Errors({401, 403, 404, 500})
ParsePromQLSeriesResp ==
    200 :> "PromQLSeriesResponse" @@ 400 :> "PromQLErrorResponse" @@ Errors({401, 403, 404, 500})
ParsePrometheusRemoteReadResp == Errors({400, 401, 403, 404, 409, 413, 500})
ParsePrometheusRemoteWriteResp == Errors({400, 401, 403, 404, 409, 413, 500})
ParseQueryTimeSeriesResp ==
    200 :> "QueryTimeSeries200JSONResponseBody" @@ Errors({400, 401, 403, 404, 409, 413, 500})
ParseWriteTimeSeriesResp == 400 :> "TimeSeriesWriteError" @@ Errors({401, 403, 404, 409, 413, 500})
ParseFullTextSearchResp ==
    200 :> "FullTextSearchResponse" @@ Errors({400, 401, 403, 404, 409, 500})
ParseHybridSearchResp == 200 :> "HybridSearchResponse" @@ Errors({400, 401, 403, 404, 409, 500})
ParseVectorSearchResp == 200 :> "VectorSearchResponse" @@ Errors({400, 401, 403, 404, 409, 500})
ParseScrapePrometheusMetricsResp == Errors({401, 403, 500})
====================================================================================
