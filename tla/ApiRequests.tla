-------------------------------- MODULE ApiRequests --------------------------------
(***************************************************************************)
(* The request builders of the generated HTTP client, one definition per    *)
(* operation: the HTTP method, the path template and the header parameters  *)
(* the builder writes when its caller sets them.  Values are left out, and  *)
(* so are query parameters and bodies, which no property tells apart.       *)
(***************************************************************************)

Session == "arcadedb-session-id"
Tag == "X-ArcadeDB-Query-Tag"
Accept == "Accept"
RequestId == "X-Request-Id"

Request(method, path, takes) == [method |-> method, path |-> path, takes |-> takes]

NewActivateAiRequest == Request("POST", "/api/v1/ai/activate", {RequestId})
NewAnalyzeProfilerWithAiRequest == Request("POST", "/api/v1/ai/analyze-profiler", {RequestId})
NewChatWithAiRequest == Request("POST", "/api/v1/ai/chat", {RequestId})
NewStreamChatWithAiRequest == Request("POST", "/api/v1/ai/chat/stream", {RequestId})
NewListAiChatsRequest == Request("GET", "/api/v1/ai/chats", {})
NewDeleteAiChatRequest == Request("DELETE", "/api/v1/ai/chats/{id}", {})
NewGetAiChatRequest == Request("GET", "/api/v1/ai/chats/{id}", {})
NewUpdateAiChatRequest == Request("PUT", "/api/v1/ai/chats/{id}", {})
NewGetAiConfigRequest == Request("GET", "/api/v1/ai/config", {})
NewExecuteBatchRequest == Request("POST", "/api/v1/batch/{database}", {Accept, Session, Tag})
NewBeginTransactionRequest ==
    Request("POST", "/api/v1/begin/{database}", {Session, Tag, RequestId})
NewGetClusterStatusRequest == Request("GET", "/api/v1/cluster", {})
NewAcceptClusterDatabaseCopyRequest ==
    Request("POST", "/api/v1/cluster/accept-copy/{database}", {RequestId})
NewAcceptClusterDivergedDatabaseRequest ==
    Request("POST", "/api/v1/cluster/accept-diverged/{database}", {RequestId})
NewAcceptClusterStaleSnapshotRequest ==
    Request("POST", "/api/v1/cluster/accept-stale-snapshot", {RequestId})
NewResolveClusterAuthSessionRequest == Request("POST", "/api/v1/cluster/auth-session", {RequestId})
NewGetClusterBootstrapStateRequest ==
    Request("POST", "/api/v1/cluster/bootstrap-state", {RequestId})
NewGetClusterPeerCapabilitiesRequest ==
    Request("POST", "/api/v1/cluster/capabilities", {RequestId})
NewTransferClusterLeadershipRequest == Request("POST", "/api/v1/cluster/leader", {RequestId})
NewLeaveClusterRequest == Request("POST", "/api/v1/cluster/leave", {RequestId})
NewAddClusterPeerRequest == Request("POST", "/api/v1/cluster/peer", {RequestId})
NewRemoveClusterPeerRequest == Request("DELETE", "/api/v1/cluster/peer/{peerId}", {})
NewResyncClusterDatabaseRequest ==
    Request("POST", "/api/v1/cluster/resync/{database}", {RequestId})
NewSeedClusterSecurityDocumentsRequest ==
    Request("POST", "/api/v1/cluster/security-seed", {RequestId})
NewStepDownClusterLeaderRequest == Request("POST", "/api/v1/cluster/stepdown", {RequestId})
NewVerifyClusterDatabaseRequest ==
    Request("POST", "/api/v1/cluster/verify/{database}", {RequestId})
NewExecuteCommandRequest ==
    Request("POST", "/api/v1/command/{database}", {Session, Tag, Accept, RequestId})
NewCommitTransactionRequest == Request("POST", "/api/v1/commit/{database}", {Session, RequestId})
NewListDatabasesRequest == Request("GET", "/api/v1/databases", {})
NewCheckDatabaseExistsRequest == Request("GET", "/api/v1/exists/{database}", {})
NewDownloadDatabaseSnapshotRequest == Request("GET", "/api/v1/ha/snapshot/{database}", {})
NewGetDatabaseSnapshotChecksumsRequest ==
    Request("GET", "/api/v1/ha/snapshot/{database}/checksums", {})
NewCheckHealthRequest == Request("GET", "/api/v1/health", {})
NewCheckHealthHeadRequest == Request("HEAD", "/api/v1/health", {})
NewLoginRequest == Request("POST", "/api/v1/login", {RequestId})
NewLogoutRequest == Request("POST", "/api/v1/logout", {RequestId})
NewInvokeMcpRequest == Request("POST", "/api/v1/mcp", {RequestId})
NewGetMcpConfigRequest == Request("GET", "/api/v1/mcp/config", {})
NewUpdateMcpConfigRequest == Request("POST", "/api/v1/mcp/config", {RequestId})
NewGetOperationProgressRequest == Request("GET", "/api/v1/progress/{database}", {})
NewExecuteQueryPostRequest ==
    Request("POST", "/api/v1/query/{database}", {Session, Tag, Accept, RequestId})
NewExecuteQueryGetRequest ==
    Request("GET", "/api/v1/query/{database}/{language}/{command}", {Session, Tag, Accept})
NewCheckReadyRequest == Request("GET", "/api/v1/ready", {})
NewCheckReadyHeadRequest == Request("HEAD", "/api/v1/ready", {})
NewRollbackTransactionRequest ==
    Request("POST", "/api/v1/rollback/{database}", {Session, RequestId})
NewGetServerInfoRequest == Request("GET", "/api/v1/server", {})
NewExecuteServerCommandRequest == Request("POST", "/api/v1/server", {RequestId})
NewDeleteApiTokenRequest == Request("DELETE", "/api/v1/server/api-tokens", {})
NewListApiTokensRequest == Request("GET", "/api/v1/server/api-tokens", {})
NewCreateApiTokenRequest == Request("POST", "/api/v1/server/api-tokens", {RequestId})
NewDeleteGroupRequest == Request("DELETE", "/api/v1/server/groups", {})
NewListGroupsRequest == Request("GET", "/api/v1/server/groups", {})
NewCreateOrUpdateGroupRequest == Request("POST", "/api/v1/server/groups", {RequestId})
NewGetSupportStatusRequest == Request("GET", "/api/v1/server/support", {})
NewDownloadSupportBundleRequest == Request("POST", "/api/v1/server/support/bundle", {RequestId})
NewCancelSupportConnectRequest == Request("DELETE", "/api/v1/server/support/connect", {})
NewGetSupportConnectRequest == Request("GET", "/api/v1/server/support/connect", {})
NewStartSupportConnectRequest == Request("POST", "/api/v1/server/support/connect", {RequestId})
NewRegisterSupportInstallationRequest ==
    Request("POST", "/api/v1/server/support/installation", {RequestId})
NewListSupportIssuesRequest == Request("GET", "/api/v1/server/support/issues", {})
NewCreateSupportIssueRequest == Request("POST", "/api/v1/server/support/issues", {RequestId})
NewGetSupportIssueRequest == Request("GET", "/api/v1/server/support/issues/{number}", {})
NewSetSupportIssueOpenRequest == Request("PUT", "/api/v1/server/support/issues/{number}", {})
NewAttachToSupportIssueRequest ==
    Request("POST", "/api/v1/server/support/issues/{number}/attachments", {RequestId})
NewCommentSupportIssueRequest ==
    Request("POST", "/api/v1/server/support/issues/{number}/comments", {RequestId})
NewAnswerSupportRequestRequest ==
    Request("POST", "/api/v1/server/support/issues/{number}/requests/{requestId}/response", {RequestId})
NewAnswerSupportRequestsRequest ==
    Request("POST", "/api/v1/server/support/issues/{number}/responses", {RequestId})
NewRunSupportPeerQueryRequest == Request("POST", "/api/v1/server/support/peer-query", {RequestId})
NewGetSupportPeersRequest == Request("GET", "/api/v1/server/support/peers", {})
NewPreviewSupportBundleRequest == Request("POST", "/api/v1/server/support/preview", {RequestId})
NewUnregisterSupportRequest == Request("DELETE", "/api/v1/server/support/register", {})
NewRegisterSupportRequest == Request("POST", "/api/v1/server/support/register", {RequestId})
NewStageSupportScreenshotRequest ==
    Request("POST", "/api/v1/server/support/screenshots", {RequestId})
NewDiscardSupportScreenshotRequest ==
    Request("DELETE", "/api/v1/server/support/screenshots/{id}", {})
NewDeleteUserRequest == Request("DELETE", "/api/v1/server/users", {})
NewListUsersRequest == Request("GET", "/api/v1/server/users", {})
NewCreateUserRequest == Request("POST", "/api/v1/server/users", {RequestId})
NewUpdateUserRequest == Request("PUT", "/api/v1/server/users", {})
NewListSessionsRequest == Request("GET", "/api/v1/sessions", {})
NewCheckGrafanaHealthRequest == Request("GET", "/api/v1/ts/{database}/grafana/health", {Session})
NewGetGrafanaMetadataRequest == Request("GET", "/api/v1/ts/{database}/grafana/metadata", {Session})
NewQueryGrafanaRequest ==
    Request("POST", "/api/v1/ts/{database}/grafana/query", {Session, RequestId})
NewGetTimeSeriesLatestRequest == Request("GET", "/api/v1/ts/{database}/latest", {Session})
NewPromQLLabelValuesRequest ==
    Request("GET", "/api/v1/ts/{database}/prom/api/v1/label/{name}/values", {Session})
NewPromQLLabelsRequest == Request("GET", "/api/v1/ts/{database}/prom/api/v1/labels", {Session})
NewPromQLQueryRequest == Request("GET", "/api/v1/ts/{database}/prom/api/v1/query", {Session})
NewPromQLQueryRangeRequest ==
    Request("GET", "/api/v1/ts/{database}/prom/api/v1/query_range", {Session})
NewPromQLSeriesRequest == Request("GET", "/api/v1/ts/{database}/prom/api/v1/series", {Session})
NewPrometheusRemoteReadRequest ==
    Request("POST", "/api/v1/ts/{database}/prom/read", {Session, RequestId})
NewPrometheusRemoteWriteRequest ==
    Request("POST", "/api/v1/ts/{database}/prom/write", {Session, RequestId})
NewQueryTimeSeriesRequest == Request("POST", "/api/v1/ts/{database}/query", {Session, RequestId})
NewWriteTimeSeriesRequest == Request("POST", "/api/v1/ts/{database}/write", {Session, RequestId})
NewFullTextSearchRequest ==
    Request("POST", "/api/v1/vector/{database}/fulltext", {Session, RequestId})
NewHybridSearchRequest == Request("POST", "/api/v1/vector/{database}/hybrid", {Session, RequestId})
NewVectorSearchRequest == Request("POST", "/api/v1/vector/{database}/search", {Session, RequestId})
NewScrapePrometheusMetricsRequest == Request("GET", "/prometheus", {})
====================================================================================
