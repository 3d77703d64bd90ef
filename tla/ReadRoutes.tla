----------------------------- MODULE ReadRoutes -----------------------------
(***************************************************************************)
(* How each of the 30 resources is named: the parts of its import          *)
(* identifier in their order (under the name they have in the path), those *)
(* that answers of the API set, those ImportState does not check, the      *)
(* parameters its Read passes, and the path of that request, of the last   *)
(* one where Read falls back from a list.                                  *)
(***************************************************************************)

Certificate ==
    [parts |-> <<"certificate_id">>, answered |-> {"certificate_id"},
     free |-> {}, params |-> {"certificate_id"},
     path |-> <<"organization", "certificates", "{certificate_id}">>]

ExternalKey ==
    [parts |-> <<"external_key_id">>, answered |-> {"external_key_id"},
     free |-> {}, params |-> {"external_key_id"},
     path |-> <<"organization", "external_keys", "{external_key_id}">>]

Group ==
    [parts |-> <<"group_id">>, answered |-> {"group_id"}, free |-> {}, params |-> {"group_id"},
     path |-> <<"organization", "groups", "{group_id}">>]

GroupRole ==
    [parts |-> <<"group_id", "role_id">>, answered |-> {},
     free |-> {}, params |-> {"group_id", "role_id"},
     path |-> <<"organization", "groups", "{group_id}", "roles", "{role_id}">>]

GroupUser ==
    [parts |-> <<"group_id", "user_id">>, answered |-> {},
     free |-> {}, params |-> {"group_id", "user_id"},
     path |-> <<"organization", "groups", "{group_id}", "users", "{user_id}">>]

Invite ==
    [parts |-> <<"invite_id">>, answered |-> {"invite_id"},
     free |-> {}, params |-> {"invite_id"},
     path |-> <<"organization", "invites", "{invite_id}">>]

McpTunnel ==
    [parts |-> <<"tunnel_id">>, answered |-> {"tunnel_id"},
     free |-> {}, params |-> {"tunnel_id"},
     path |-> <<"tunnels", "{tunnel_id}">>]

OrganizationDataRetention ==
    [parts |-> <<"singleton_id">>, answered |-> {"singleton_id"}, free |-> {}, params |-> {},
     path |-> <<"organization", "data_retention">>]

OrganizationSpendAlert ==
    [parts |-> <<"alert_id">>, answered |-> {"alert_id"}, free |-> {}, params |-> {},
     path |-> <<"organization", "spend_alerts">>]

OrganizationSpendLimit ==
    [parts |-> <<"singleton_id">>, answered |-> {"singleton_id"}, free |-> {}, params |-> {},
     path |-> <<"organization", "spend_limit">>]

OrganizationUser ==
    [parts |-> <<"user_id">>, answered |-> {"user_id"}, free |-> {}, params |-> {"user_id"},
     path |-> <<"organization", "users", "{user_id}">>]

Project ==
    [parts |-> <<"project_id">>, answered |-> {"project_id"}, free |-> {}, params |-> {},
     path |-> <<"organization", "projects">>]

ProjectDataRetention ==
    [parts |-> <<"project_id">>, answered |-> {}, free |-> {}, params |-> {"project_id"},
     path |-> <<"organization", "projects", "{project_id}", "data_retention">>]

ProjectGroup ==
    [parts |-> <<"project_id", "group_id", "role">>, answered |-> {},
     free |-> {"role"}, params |-> {"project_id"},
     path |-> <<"organization", "projects", "{project_id}", "groups">>]

ProjectGroupRole ==
    [parts |-> <<"project_id", "group_id", "role_id">>, answered |-> {},
     free |-> {}, params |-> {"project_id", "group_id", "role_id"},
     path |-> <<"projects", "{project_id}", "groups", "{group_id}", "roles", "{role_id}">>]

ProjectHostedToolPermissions ==
    [parts |-> <<"project_id">>, answered |-> {}, free |-> {}, params |-> {"project_id"},
     path |-> <<"organization", "projects", "{project_id}", "hosted_tool_permissions">>]

ProjectModelPermissions ==
    [parts |-> <<"project_id">>, answered |-> {}, free |-> {}, params |-> {"project_id"},
     path |-> <<"organization", "projects", "{project_id}", "model_permissions">>]

ProjectRateLimit ==
    [parts |-> <<"project_id", "rate_limit_id">>, answered |-> {},
     free |-> {}, params |-> {"project_id"},
     path |-> <<"organization", "projects", "{project_id}", "rate_limits">>]

ProjectRole ==
    [parts |-> <<"project_id", "role_id">>, answered |-> {"role_id"},
     free |-> {}, params |-> {"project_id", "role_id"},
     path |-> <<"projects", "{project_id}", "roles", "{role_id}">>]

ProjectServiceAccount ==
    [parts |-> <<"project_id", "service_account_id">>, answered |-> {"service_account_id"},
     free |-> {}, params |-> {"project_id", "service_account_id"},
     path |-> <<"organization", "projects", "{project_id}", "service_accounts", "{service_account_id}">>]

ProjectServiceTierSettings ==
    [parts |-> <<"project_id">>, answered |-> {}, free |-> {}, params |-> {"project_id"},
     path |-> <<"organization", "projects", "{project_id}", "service_tier_settings">>]

ProjectSpendAlert ==
    [parts |-> <<"project_id", "alert_id">>, answered |-> {"alert_id"},
     free |-> {}, params |-> {"project_id"},
     path |-> <<"organization", "projects", "{project_id}", "spend_alerts">>]

ProjectSpendLimit ==
    [parts |-> <<"project_id">>, answered |-> {}, free |-> {}, params |-> {"project_id"},
     path |-> <<"organization", "projects", "{project_id}", "spend_limit">>]

ProjectUser ==
    [parts |-> <<"project_id", "user_id">>, answered |-> {"user_id"},
     free |-> {}, params |-> {"project_id", "user_id"},
     path |-> <<"organization", "projects", "{project_id}", "users", "{user_id}">>]

ProjectUserRole ==
    [parts |-> <<"project_id", "user_id", "role_id">>, answered |-> {},
     free |-> {}, params |-> {"project_id", "user_id", "role_id"},
     path |-> <<"projects", "{project_id}", "users", "{user_id}", "roles", "{role_id}">>]

Role ==
    [parts |-> <<"role_id">>, answered |-> {"role_id"}, free |-> {}, params |-> {"role_id"},
     path |-> <<"organization", "roles", "{role_id}">>]

UserRole ==
    [parts |-> <<"user_id", "role_id">>, answered |-> {},
     free |-> {}, params |-> {"user_id", "role_id"},
     path |-> <<"organization", "users", "{user_id}", "roles", "{role_id}">>]

WebhookEndpoint ==
    [parts |-> <<"webhook_endpoint_id">>, answered |-> {"webhook_endpoint_id"},
     free |-> {}, params |-> {"webhook_endpoint_id"},
     path |-> <<"webhook_endpoints", "{webhook_endpoint_id}">>]

WorkloadIdentityFederationRule ==
    [parts |-> <<"workload_identity_provider_id", "workload_identity_federation_rule_id">>, answered |-> {"workload_identity_federation_rule_id"},
     free |-> {}, params |-> {"workload_identity_provider_id", "workload_identity_federation_rule_id"},
     path |-> <<"organization", "workload_identity_providers", "{workload_identity_provider_id}", "federation_rules", "{workload_identity_federation_rule_id}">>]

WorkloadIdentityProvider ==
    [parts |-> <<"workload_identity_provider_id">>, answered |-> {"workload_identity_provider_id"},
     free |-> {}, params |-> {"workload_identity_provider_id"},
     path |-> <<"organization", "workload_identity_providers", "{workload_identity_provider_id}">>]

ReadRoutes ==
    {Certificate, ExternalKey, Group, GroupRole, GroupUser, Invite, McpTunnel,
     OrganizationDataRetention, OrganizationSpendAlert, OrganizationSpendLimit,
     OrganizationUser, Project, ProjectDataRetention, ProjectGroup, ProjectGroupRole,
     ProjectHostedToolPermissions, ProjectModelPermissions, ProjectRateLimit,
     ProjectRole, ProjectServiceAccount, ProjectServiceTierSettings, ProjectSpendAlert,
     ProjectSpendLimit, ProjectUser, ProjectUserRole, Role, UserRole, WebhookEndpoint,
     WorkloadIdentityFederationRule, WorkloadIdentityProvider}

=============================================================================
