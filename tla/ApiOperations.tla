-------------------------------- MODULE ApiOperations ------------------------------
(***************************************************************************)
(* The operations of the generated HTTP client: which request builder and  *)
(* which response parser each ...WithResponse method joins.                *)
(***************************************************************************)
EXTENDS ApiRequests, ApiResponses

Operation(request, parse) == [request |-> request, parse |-> parse]

ActivateAiWithResponse == Operation(NewActivateAiRequest, ParseActivateAiResp)
AnalyzeProfilerWithAiWithResponse == Operation(NewAnalyzeProfilerWithAiRequest, ParseAnalyzeProfilerWithAiResp)
ChatWithAiWithResponse == Operation(NewChatWithAiRequest, ParseChatWithAiResp)
StreamChatWithAiWithResponse == Operation(NewStreamChatWithAiRequest, ParseStreamChatWithAiResp)
ListAiChatsWithResponse == Operation(NewListAiChatsRequest, ParseListAiChatsResp)
DeleteAiChatWithResponse == Operation(NewDeleteAiChatRequest, ParseDeleteAiChatResp)
GetAiChatWithResponse == Operation(NewGetAiChatRequest, ParseGetAiChatResp)
UpdateAiChatWithResponse == Operation(NewUpdateAiChatRequest, ParseUpdateAiChatResp)
GetAiConfigWithResponse == Operation(NewGetAiConfigRequest, ParseGetAiConfigResp)
ExecuteBatchWithResponse == Operation(NewExecuteBatchRequest, ParseExecuteBatchResp)
BeginTransactionWithResponse == Operation(NewBeginTransactionRequest, ParseBeginTransactionResp)
GetClusterStatusWithResponse == Operation(NewGetClusterStatusRequest, ParseGetClusterStatusResp)
AcceptClusterDatabaseCopyWithResponse == Operation(NewAcceptClusterDatabaseCopyRequest, ParseAcceptClusterDatabaseCopyResp)
AcceptClusterDivergedDatabaseWithResponse == Operation(NewAcceptClusterDivergedDatabaseRequest, ParseAcceptClusterDivergedDatabaseResp)
AcceptClusterStaleSnapshotWithResponse == Operation(NewAcceptClusterStaleSnapshotRequest, ParseAcceptClusterStaleSnapshotResp)
ResolveClusterAuthSessionWithResponse == Operation(NewResolveClusterAuthSessionRequest, ParseResolveClusterAuthSessionResp)
GetClusterBootstrapStateWithResponse == Operation(NewGetClusterBootstrapStateRequest, ParseGetClusterBootstrapStateResp)
GetClusterPeerCapabilitiesWithResponse == Operation(NewGetClusterPeerCapabilitiesRequest, ParseGetClusterPeerCapabilitiesResp)
TransferClusterLeadershipWithResponse == Operation(NewTransferClusterLeadershipRequest, ParseTransferClusterLeadershipResp)
LeaveClusterWithResponse == Operation(NewLeaveClusterRequest, ParseLeaveClusterResp)
AddClusterPeerWithResponse == Operation(NewAddClusterPeerRequest, ParseAddClusterPeerResp)
RemoveClusterPeerWithResponse == Operation(NewRemoveClusterPeerRequest, ParseRemoveClusterPeerResp)
ResyncClusterDatabaseWithResponse == Operation(NewResyncClusterDatabaseRequest, ParseResyncClusterDatabaseResp)
SeedClusterSecurityDocumentsWithResponse == Operation(NewSeedClusterSecurityDocumentsRequest, ParseSeedClusterSecurityDocumentsResp)
StepDownClusterLeaderWithResponse == Operation(NewStepDownClusterLeaderRequest, ParseStepDownClusterLeaderResp)
VerifyClusterDatabaseWithResponse == Operation(NewVerifyClusterDatabaseRequest, ParseVerifyClusterDatabaseResp)
ExecuteCommandWithResponse == Operation(NewExecuteCommandRequest, ParseExecuteCommandResp)
CommitTransactionWithResponse == Operation(NewCommitTransactionRequest, ParseCommitTransactionResp)
ListDatabasesWithResponse == Operation(NewListDatabasesRequest, ParseListDatabasesResp)
CheckDatabaseExistsWithResponse == Operation(NewCheckDatabaseExistsRequest, ParseCheckDatabaseExistsResp)
DownloadDatabaseSnapshotWithResponse == Operation(NewDownloadDatabaseSnapshotRequest, ParseDownloadDatabaseSnapshotResp)
GetDatabaseSnapshotChecksumsWithResponse == Operation(NewGetDatabaseSnapshotChecksumsRequest, ParseGetDatabaseSnapshotChecksumsResp)
CheckHealthWithResponse == Operation(NewCheckHealthRequest, ParseCheckHealthResp)
CheckHealthHeadWithResponse == Operation(NewCheckHealthHeadRequest, ParseCheckHealthHeadResp)
LoginWithResponse == Operation(NewLoginRequest, ParseLoginResp)
LogoutWithResponse == Operation(NewLogoutRequest, ParseLogoutResp)
InvokeMcpWithResponse == Operation(NewInvokeMcpRequest, ParseInvokeMcpResp)
GetMcpConfigWithResponse == Operation(NewGetMcpConfigRequest, ParseGetMcpConfigResp)
UpdateMcpConfigWithResponse == Operation(NewUpdateMcpConfigRequest, ParseUpdateMcpConfigResp)
GetOperationProgressWithResponse == Operation(NewGetOperationProgressRequest, ParseGetOperationProgressResp)
ExecuteQueryPostWithResponse == Operation(NewExecuteQueryPostRequest, ParseExecuteQueryPostResp)
ExecuteQueryGetWithResponse == Operation(NewExecuteQueryGetRequest, ParseExecuteQueryGetResp)
CheckReadyWithResponse == Operation(NewCheckReadyRequest, ParseCheckReadyResp)
CheckReadyHeadWithResponse == Operation(NewCheckReadyHeadRequest, ParseCheckReadyHeadResp)
RollbackTransactionWithResponse == Operation(NewRollbackTransactionRequest, ParseRollbackTransactionResp)
GetServerInfoWithResponse == Operation(NewGetServerInfoRequest, ParseGetServerInfoResp)
ExecuteServerCommandWithResponse == Operation(NewExecuteServerCommandRequest, ParseExecuteServerCommandResp)
DeleteApiTokenWithResponse == Operation(NewDeleteApiTokenRequest, ParseDeleteApiTokenResp)
ListApiTokensWithResponse == Operation(NewListApiTokensRequest, ParseListApiTokensResp)
CreateApiTokenWithResponse == Operation(NewCreateApiTokenRequest, ParseCreateApiTokenResp)
DeleteGroupWithResponse == Operation(NewDeleteGroupRequest, ParseDeleteGroupResp)
ListGroupsWithResponse == Operation(NewListGroupsRequest, ParseListGroupsResp)
CreateOrUpdateGroupWithResponse == Operation(NewCreateOrUpdateGroupRequest, ParseCreateOrUpdateGroupResp)
GetSupportStatusWithResponse == Operation(NewGetSupportStatusRequest, ParseGetSupportStatusResp)
DownloadSupportBundleWithResponse == Operation(NewDownloadSupportBundleRequest, ParseDownloadSupportBundleResp)
CancelSupportConnectWithResponse == Operation(NewCancelSupportConnectRequest, ParseCancelSupportConnectResp)
GetSupportConnectWithResponse == Operation(NewGetSupportConnectRequest, ParseGetSupportConnectResp)
StartSupportConnectWithResponse == Operation(NewStartSupportConnectRequest, ParseStartSupportConnectResp)
RegisterSupportInstallationWithResponse == Operation(NewRegisterSupportInstallationRequest, ParseRegisterSupportInstallationResp)
ListSupportIssuesWithResponse == Operation(NewListSupportIssuesRequest, ParseListSupportIssuesResp)
CreateSupportIssueWithResponse == Operation(NewCreateSupportIssueRequest, ParseCreateSupportIssueResp)
GetSupportIssueWithResponse == Operation(NewGetSupportIssueRequest, ParseGetSupportIssueResp)
SetSupportIssueOpenWithResponse == Operation(NewSetSupportIssueOpenRequest, ParseSetSupportIssueOpenResp)
AttachToSupportIssueWithResponse == Operation(NewAttachToSupportIssueRequest, ParseAttachToSupportIssueResp)
CommentSupportIssueWithResponse == Operation(NewCommentSupportIssueRequest, ParseCommentSupportIssueResp)
AnswerSupportRequestWithResponse == Operation(NewAnswerSupportRequestRequest, ParseAnswerSupportRequestResp)
AnswerSupportRequestsWithResponse == Operation(NewAnswerSupportRequestsRequest, ParseAnswerSupportRequestsResp)
RunSupportPeerQueryWithResponse == Operation(NewRunSupportPeerQueryRequest, ParseRunSupportPeerQueryResp)
GetSupportPeersWithResponse == Operation(NewGetSupportPeersRequest, ParseGetSupportPeersResp)
PreviewSupportBundleWithResponse == Operation(NewPreviewSupportBundleRequest, ParsePreviewSupportBundleResp)
UnregisterSupportWithResponse == Operation(NewUnregisterSupportRequest, ParseUnregisterSupportResp)
RegisterSupportWithResponse == Operation(NewRegisterSupportRequest, ParseRegisterSupportResp)
StageSupportScreenshotWithResponse == Operation(NewStageSupportScreenshotRequest, ParseStageSupportScreenshotResp)
DiscardSupportScreenshotWithResponse == Operation(NewDiscardSupportScreenshotRequest, ParseDiscardSupportScreenshotResp)
DeleteUserWithResponse == Operation(NewDeleteUserRequest, ParseDeleteUserResp)
ListUsersWithResponse == Operation(NewListUsersRequest, ParseListUsersResp)
CreateUserWithResponse == Operation(NewCreateUserRequest, ParseCreateUserResp)
UpdateUserWithResponse == Operation(NewUpdateUserRequest, ParseUpdateUserResp)
ListSessionsWithResponse == Operation(NewListSessionsRequest, ParseListSessionsResp)
CheckGrafanaHealthWithResponse == Operation(NewCheckGrafanaHealthRequest, ParseCheckGrafanaHealthResp)
GetGrafanaMetadataWithResponse == Operation(NewGetGrafanaMetadataRequest, ParseGetGrafanaMetadataResp)
QueryGrafanaWithResponse == Operation(NewQueryGrafanaRequest, ParseQueryGrafanaResp)
GetTimeSeriesLatestWithResponse == Operation(NewGetTimeSeriesLatestRequest, ParseGetTimeSeriesLatestResp)
PromQLLabelValuesWithResponse == Operation(NewPromQLLabelValuesRequest, ParsePromQLLabelValuesResp)
PromQLLabelsWithResponse == Operation(NewPromQLLabelsRequest, ParsePromQLLabelsResp)
PromQLQueryWithResponse == Operation(NewPromQLQueryRequest, ParsePromQLQueryResp)
PromQLQueryRangeWithResponse == Operation(NewPromQLQueryRangeRequest, ParsePromQLQueryRangeResp)
PromQLSeriesWithResponse == Operation(NewPromQLSeriesRequest, ParsePromQLSeriesResp)
PrometheusRemoteReadWithResponse == Operation(NewPrometheusRemoteReadRequest, ParsePrometheusRemoteReadResp)
PrometheusRemoteWriteWithResponse == Operation(NewPrometheusRemoteWriteRequest, ParsePrometheusRemoteWriteResp)
QueryTimeSeriesWithResponse == Operation(NewQueryTimeSeriesRequest, ParseQueryTimeSeriesResp)
WriteTimeSeriesWithResponse == Operation(NewWriteTimeSeriesRequest, ParseWriteTimeSeriesResp)
FullTextSearchWithResponse == Operation(NewFullTextSearchRequest, ParseFullTextSearchResp)
HybridSearchWithResponse == Operation(NewHybridSearchRequest, ParseHybridSearchResp)
VectorSearchWithResponse == Operation(NewVectorSearchRequest, ParseVectorSearchResp)
ScrapePrometheusMetricsWithResponse == Operation(NewScrapePrometheusMetricsRequest, ParseScrapePrometheusMetricsResp)

\* every operation Raw() offers
Operations ==
    {
      ActivateAiWithResponse, AnalyzeProfilerWithAiWithResponse, ChatWithAiWithResponse,
      StreamChatWithAiWithResponse, ListAiChatsWithResponse, DeleteAiChatWithResponse,
      GetAiChatWithResponse, UpdateAiChatWithResponse, GetAiConfigWithResponse,
      ExecuteBatchWithResponse, BeginTransactionWithResponse, GetClusterStatusWithResponse,
      AcceptClusterDatabaseCopyWithResponse, AcceptClusterDivergedDatabaseWithResponse,
      AcceptClusterStaleSnapshotWithResponse, ResolveClusterAuthSessionWithResponse,
      GetClusterBootstrapStateWithResponse, GetClusterPeerCapabilitiesWithResponse,
      TransferClusterLeadershipWithResponse, LeaveClusterWithResponse,
      AddClusterPeerWithResponse, RemoveClusterPeerWithResponse,
      ResyncClusterDatabaseWithResponse, SeedClusterSecurityDocumentsWithResponse,
      StepDownClusterLeaderWithResponse, VerifyClusterDatabaseWithResponse,
      ExecuteCommandWithResponse, CommitTransactionWithResponse, ListDatabasesWithResponse,
      CheckDatabaseExistsWithResponse, DownloadDatabaseSnapshotWithResponse,
      GetDatabaseSnapshotChecksumsWithResponse, CheckHealthWithResponse,
      CheckHealthHeadWithResponse, LoginWithResponse, LogoutWithResponse, InvokeMcpWithResponse,
      GetMcpConfigWithResponse, UpdateMcpConfigWithResponse, GetOperationProgressWithResponse,
      ExecuteQueryPostWithResponse, ExecuteQueryGetWithResponse, CheckReadyWithResponse,
      CheckReadyHeadWithResponse, RollbackTransactionWithResponse, GetServerInfoWithResponse,
      ExecuteServerCommandWithResponse, DeleteApiTokenWithResponse, ListApiTokensWithResponse,
      CreateApiTokenWithResponse, DeleteGroupWithResponse, ListGroupsWithResponse,
      CreateOrUpdateGroupWithResponse, GetSupportStatusWithResponse,
      DownloadSupportBundleWithResponse, CancelSupportConnectWithResponse,
      GetSupportConnectWithResponse, StartSupportConnectWithResponse,
      RegisterSupportInstallationWithResponse, ListSupportIssuesWithResponse,
      CreateSupportIssueWithResponse, GetSupportIssueWithResponse,
      SetSupportIssueOpenWithResponse, AttachToSupportIssueWithResponse,
      CommentSupportIssueWithResponse, AnswerSupportRequestWithResponse,
      AnswerSupportRequestsWithResponse, RunSupportPeerQueryWithResponse,
      GetSupportPeersWithResponse, PreviewSupportBundleWithResponse,
      UnregisterSupportWithResponse, RegisterSupportWithResponse,
      StageSupportScreenshotWithResponse, DiscardSupportScreenshotWithResponse,
      DeleteUserWithResponse, ListUsersWithResponse, CreateUserWithResponse,
      UpdateUserWithResponse, ListSessionsWithResponse, CheckGrafanaHealthWithResponse,
      GetGrafanaMetadataWithResponse, QueryGrafanaWithResponse, GetTimeSeriesLatestWithResponse,
      PromQLLabelValuesWithResponse, PromQLLabelsWithResponse, PromQLQueryWithResponse,
      PromQLQueryRangeWithResponse, PromQLSeriesWithResponse, PrometheusRemoteReadWithResponse,
      PrometheusRemoteWriteWithResponse, QueryTimeSeriesWithResponse,
      WriteTimeSeriesWithResponse, FullTextSearchWithResponse, HybridSearchWithResponse,
      VectorSearchWithResponse, ScrapePrometheusMetricsWithResponse}
====================================================================================
