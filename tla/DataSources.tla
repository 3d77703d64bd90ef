---------------------------- MODULE DataSources ----------------------------
(***************************************************************************)
(* What each of the 49 data sources asks the API for and which fields of   *)
(* the answer its Read puts into Terraform's state, and the three cached   *)
(* requests that resources make in their own Reads.                        *)
(***************************************************************************)
EXTENDS Integers

(***************************************************************************)
(* How a field of an answer is read                                        *)
(***************************************************************************)

Text == [type |-> "text", required |-> FALSE]
Integer == [type |-> "integer", required |-> FALSE]
Flag == [type |-> "flag", required |-> FALSE]
Texts == [type |-> "texts", required |-> FALSE]
TextOrTexts == [type |-> "textOrTexts", required |-> FALSE]
Tree == [type |-> "tree", required |-> FALSE]
Trees == [type |-> "trees", required |-> FALSE]
Objects == [type |-> "objects", required |-> FALSE]
Anything == [type |-> "any", required |-> FALSE]

Demanded(field) == [field EXCEPT !.required = TRUE]

(***************************************************************************)
(* Families of requests                                                    *)
(***************************************************************************)

\* One GET of one object.
Single == [audience |-> "admin", request |-> "single", path |-> "", params |-> {}, query |-> {},
           exact |-> FALSE, cache |-> "", keys |-> {}, match |-> "id", absent |-> "error", fields |-> [id |-> Text]]

\* Every page of a list.
Listing == [Single EXCEPT !.request = "listing", !.query = {"limit=100"}]

\* Every page of a list, of which one object is used.
Pick == [Listing EXCEPT !.request = "pick"]

\* Read of a resource in a cached list: what is not listed leaves the state.
Refresh == [Pick EXCEPT !.absent = "removed"]

(***************************************************************************)
(* The data sources                                                        *)
(***************************************************************************)

Certificate ==
    [Single EXCEPT !.path = "/organization/certificates/{certificate_id}",
        !.params = {"certificate_id"}, !.fields =
        [id |-> Demanded(Text), name |-> Text, created_at |-> Integer, valid_at |-> Integer,
         expires_at |-> Integer]]

Certificates ==
    [Listing EXCEPT !.path = "/organization/certificates", !.fields =
        [id |-> Text, name |-> Text, created_at |-> Integer, valid_at |-> Integer,
         expires_at |-> Integer, active |-> Flag]]

Group ==
    [Single EXCEPT !.path = "/organization/groups/{group_id}", !.params = {"group_id"}, !.fields =
        [id |-> Demanded(Text), name |-> Text, created_at |-> Integer, is_scim_managed |-> Flag,
         group_type |-> Text]]

Groups ==
    [Listing EXCEPT !.path = "/organization/groups", !.fields =
        [id |-> Text, name |-> Text, created_at |-> Integer, is_scim_managed |-> Flag,
         group_type |-> Text]]

GroupRole ==
    [Single EXCEPT !.path = "/organization/groups/{group_id}/roles/{role_id}",
        !.params = {"group_id", "role_id"}, !.fields =
        [id |-> Demanded(Text), name |-> Text, description |-> Text, permissions |-> Texts,
         resource_type |-> Text, predefined_role |-> Flag]]

GroupRoles ==
    [Listing EXCEPT !.path = "/organization/groups/{group_id}/roles", !.params = {"group_id"},
        !.fields =
        [id |-> Text, name |-> Text, description |-> Text, permissions |-> Texts,
         resource_type |-> Text, predefined_role |-> Flag]]

GroupUser ==
    [Single EXCEPT !.path = "/organization/groups/{group_id}/users/{user_id}",
        !.params = {"group_id", "user_id"}, !.fields =
        [id |-> Demanded(Text), name |-> Text, email |-> Text, is_service_account |-> Flag,
         user_type |-> Text]]

GroupUsers ==
    [Listing EXCEPT !.path = "/organization/groups/{group_id}/users", !.params = {"group_id"},
        !.fields =
        [id |-> Text, name |-> Text, email |-> Text, is_service_account |-> Flag, user_type |-> Text]]

Invite ==
    [Single EXCEPT !.path = "/organization/invites/{invite_id}", !.params = {"invite_id"},
        !.fields =
        [id |-> Demanded(Text), email |-> Text, role |-> Text, status |-> Text,
         created_at |-> Integer, expires_at |-> Integer, accepted_at |-> Integer]]

Invites ==
    [Listing EXCEPT !.path = "/organization/invites", !.fields =
        [id |-> Text, email |-> Text, role |-> Text, status |-> Text, created_at |-> Integer,
         expires_at |-> Integer, accepted_at |-> Integer]]

McpTunnel ==
    [Single EXCEPT !.path = "/tunnels/{tunnel_id}", !.params = {"tunnel_id"}, !.fields =
        [name |-> Text, description |-> Text, creator |-> Text, organization_ids |-> Texts,
         workspace_ids |-> Texts, tenant_ids |-> Texts]]

OrganizationDataRetention ==
    [Single EXCEPT !.path = "/organization/data_retention", !.fields =
        [object |-> Text, type |-> Text]]

OrganizationSpendAlerts ==
    [Listing EXCEPT !.path = "/organization/spend_alerts", !.fields =
        [id |-> Text, threshold_amount |-> Integer, currency |-> Text, interval |-> Text]]

OrganizationSpendLimit ==
    [Single EXCEPT !.path = "/organization/spend_limit", !.fields =
        [object |-> Text, threshold_amount |-> Integer, currency |-> Text, interval |-> Text,
         enforcement_status |-> Text]]

OrganizationUser ==
    [Single EXCEPT !.path = "/organization/users/{user_id}", !.params = {"user_id"}, !.fields =
        [id |-> Demanded(Text), name |-> Text, email |-> Text, role |-> Text, added_at |-> Integer,
         is_default |-> Flag, created |-> Integer, is_service_account |-> Flag,
         is_scale_tier_authorized_purchaser |-> Flag, is_scim_managed |-> Flag,
         api_key_last_used_at |-> Integer, technical_level |-> Text, developer_persona |-> Text]]

OrganizationUsers ==
    [Listing EXCEPT !.path = "/organization/users", !.fields =
        [id |-> Text, name |-> Text, email |-> Text, role |-> Text, added_at |-> Integer,
         is_default |-> Flag, created |-> Integer, is_service_account |-> Flag,
         is_scale_tier_authorized_purchaser |-> Flag, is_scim_managed |-> Flag,
         api_key_last_used_at |-> Integer, technical_level |-> Text, developer_persona |-> Text]]

Project ==
    [Single EXCEPT !.path = "/organization/projects/{project_id}", !.params = {"project_id"},
        !.fields =
        [id |-> Demanded(Text), name |-> Text, external_key_id |-> Text, created_at |-> Integer,
         archived_at |-> Integer, status |-> Text]]

Projects ==
    [Listing EXCEPT !.path = "/organization/projects",
        !.query = {"include_archived=false", "limit=100"}, !.fields =
        [id |-> Text, name |-> Text, external_key_id |-> Text, created_at |-> Integer,
         archived_at |-> Integer, status |-> Text]]

ProjectCertificates ==
    [Listing EXCEPT !.path = "/organization/projects/{project_id}/certificates",
        !.params = {"project_id"}, !.fields = Certificates.fields]

ProjectDataRetention ==
    [Single EXCEPT !.path = "/organization/projects/{project_id}/data_retention",
        !.params = {"project_id"}, !.fields = OrganizationDataRetention.fields]

ProjectGroup ==
    [Single EXCEPT !.path = "/organization/projects/{project_id}/groups/{group_id}",
        !.params = {"project_id", "group_id"}, !.fields =
        [group_name |-> Text, group_type |-> Text, created_at |-> Integer]]

ProjectGroups ==
    [Listing EXCEPT !.path = "/organization/projects/{project_id}/groups",
        !.params = {"project_id"}, !.fields =
        [project_id |-> Text, group_id |-> Text, group_name |-> Text, group_type |-> Text,
         created_at |-> Integer]]

ProjectGroupRole ==
    [Single EXCEPT !.path = "/projects/{project_id}/groups/{group_id}/roles/{role_id}",
        !.params = {"project_id", "group_id", "role_id"}, !.fields = GroupRole.fields]

ProjectGroupRoles ==
    [Listing EXCEPT !.path = "/projects/{project_id}/groups/{group_id}/roles",
        !.params = {"project_id", "group_id"}, !.fields = GroupRoles.fields]

ProjectHostedToolPermissions ==
    [Single EXCEPT !.path = "/organization/projects/{project_id}/hosted_tool_permissions",
        !.params = {"project_id"}, !.fields =
        [file_search_enabled |-> Flag, web_search_enabled |-> Flag,
         image_generation_enabled |-> Flag, mcp_enabled |-> Flag, code_interpreter_enabled |-> Flag]]

ProjectModelPermissions ==
    [Single EXCEPT !.path = "/organization/projects/{project_id}/model_permissions",
        !.params = {"project_id"}, !.fields =
        [object |-> Text, mode |-> Text, model_ids |-> Texts]]

ProjectRateLimit ==
    [Pick EXCEPT !.path = "/organization/projects/{project_id}/rate_limits",
        !.params = {"project_id"}, !.query = {"limit=1000"}, !.cache = "project_rate_limits",
        !.keys = {"project_id"}, !.fields =
        [id |-> Demanded(Text), model |-> Text, max_requests_per_1_minute |-> Integer,
         max_tokens_per_1_minute |-> Integer, max_images_per_1_minute |-> Integer,
         max_audio_megabytes_per_1_minute |-> Integer, max_requests_per_1_day |-> Integer,
         batch_1_day_max_input_tokens |-> Integer]]

ProjectRateLimits ==
    [Listing EXCEPT !.path = "/organization/projects/{project_id}/rate_limits",
        !.params = {"project_id"}, !.query = {"limit=1000"}, !.cache = "project_rate_limits",
        !.keys = {"project_id"}, !.fields =
        [id |-> Text, model |-> Text, max_requests_per_1_minute |-> Integer,
         max_tokens_per_1_minute |-> Integer, max_images_per_1_minute |-> Integer,
         max_audio_megabytes_per_1_minute |-> Integer, max_requests_per_1_day |-> Integer,
         batch_1_day_max_input_tokens |-> Integer]]

ProjectRole ==
    [Single EXCEPT !.path = "/projects/{project_id}/roles/{role_id}",
        !.params = {"project_id", "role_id"}, !.fields =
        [id |-> Demanded(Text), name |-> Text, permissions |-> Texts, description |-> Text,
         resource_type |-> Text, predefined_role |-> Flag]]

ProjectRoles ==
    [Listing EXCEPT !.path = "/projects/{project_id}/roles", !.params = {"project_id"},
        !.fields = GroupRoles.fields]

ProjectServiceTierSettings ==
    [Single EXCEPT !.path = "/organization/projects/{project_id}/service_tier_settings",
        !.params = {"project_id"}, !.fields =
        [default |-> Demanded(Text), enabled_tiers |-> Demanded(TextOrTexts)]]

ProjectSpendAlert ==
    [Pick EXCEPT !.path = "/organization/projects/{project_id}/spend_alerts",
        !.params = {"project_id"}, !.fields =
        [id |-> Demanded(Text), threshold_amount |-> Integer, currency |-> Text, interval |-> Text,
         notification_channel_type |-> Text, notification_channel_recipients |-> Texts,
         notification_channel_subject_prefix |-> Text]]

ProjectSpendAlerts ==
    [Listing EXCEPT !.path = "/organization/projects/{project_id}/spend_alerts",
        !.params = {"project_id"}, !.fields =
        [id |-> Text, threshold_amount |-> Integer, currency |-> Text, interval |-> Text,
         notification_channel_type |-> Text, notification_channel_recipients |-> Texts,
         notification_channel_subject_prefix |-> Text]]

ProjectSpendLimit ==
    [Single EXCEPT !.path = "/organization/projects/{project_id}/spend_limit",
        !.params = {"project_id"}, !.fields = OrganizationSpendLimit.fields]

ProjectUser ==
    [Single EXCEPT !.path = "/organization/projects/{project_id}/users/{user_id}",
        !.params = {"project_id", "user_id"}, !.fields =
        [id |-> Demanded(Text), name |-> Text, email |-> Text, role |-> Text, added_at |-> Integer]]

ProjectUsers ==
    [Listing EXCEPT !.path = "/organization/projects/{project_id}/users",
        !.params = {"project_id"}, !.fields =
        [id |-> Text, name |-> Text, email |-> Text, role |-> Text, added_at |-> Integer]]

ProjectUserRole ==
    [Single EXCEPT !.path = "/projects/{project_id}/users/{user_id}/roles/{role_id}",
        !.params = {"project_id", "user_id", "role_id"}, !.fields = GroupRole.fields]

ProjectUserRoles ==
    [Listing EXCEPT !.path = "/projects/{project_id}/users/{user_id}/roles",
        !.params = {"project_id", "user_id"}, !.fields = GroupRoles.fields]

Role ==
    [Single EXCEPT !.path = "/organization/roles/{role_id}", !.params = {"role_id"},
        !.fields = ProjectRole.fields]

Roles ==
    [Listing EXCEPT !.path = "/organization/roles", !.fields = GroupRoles.fields]

UserRole ==
    [Single EXCEPT !.path = "/organization/users/{user_id}/roles/{role_id}",
        !.params = {"user_id", "role_id"}, !.fields = GroupRole.fields]

UserRoles ==
    [Listing EXCEPT !.path = "/organization/users/{user_id}/roles", !.params = {"user_id"},
        !.fields = GroupRoles.fields]

WebhookEndpoint ==
    [Single EXCEPT !.path = "/webhook_endpoints/{webhook_endpoint_id}",
        !.params = {"webhook_endpoint_id"}, !.audience = "project", !.fields =
        [name |-> Text, url |-> Text, event_types |-> Texts, object |-> Text,
         created_at |-> Integer, updated_at |-> Integer, signing_secret_hint |-> Text]]

WebhookEndpoints ==
    [Listing EXCEPT !.path = "/webhook_endpoints", !.audience = "project", !.fields =
        [id |-> Text, name |-> Text, url |-> Text, event_types |-> Texts, object |-> Text,
         created_at |-> Integer, updated_at |-> Integer, signing_secret_hint |-> Text]]

WebhookEventTypes ==
    [Single EXCEPT !.path = "/webhook_event_types", !.audience = "project", !.fields =
        [data |-> Texts]]

WorkloadIdentityFederationRule ==
    [Single EXCEPT
        !.path = "/organization/workload_identity_providers/{workload_identity_provider_id}/federation_rules/{workload_identity_federation_rule_id}",
        !.params = {"workload_identity_provider_id", "workload_identity_federation_rule_id"},
        !.exact = TRUE, !.fields =
        [id |-> Demanded(Text), project_id |-> Text, service_account_id |-> Text, name |-> Text,
         description |-> Text, attribute_matchers |-> Anything, permissions |-> Tree, enabled |-> Flag,
         created_at |-> Integer, updated_at |-> Integer]]

WorkloadIdentityFederationRules ==
    [Listing EXCEPT
        !.path = "/organization/workload_identity_providers/{workload_identity_provider_id}/federation_rules",
        !.params = {"workload_identity_provider_id"}, !.exact = TRUE, !.fields =
        [workload_identity_provider_id |-> Text, id |-> Text, project_id |-> Text,
         service_account_id |-> Text, name |-> Text, description |-> Text, permissions |-> Tree,
         enabled |-> Flag, created_at |-> Integer, updated_at |-> Integer]]

WorkloadIdentityProvider ==
    [Single EXCEPT
        !.path = "/organization/workload_identity_providers/{workload_identity_provider_id}",
        !.params = {"workload_identity_provider_id"}, !.exact = TRUE, !.fields =
        [id |-> Demanded(Text), name |-> Text, type |-> Text, issuer |-> Text, audience |-> Text,
         verification |-> Tree, description |-> Text, attribute_transformations |-> Objects,
         enabled |-> Flag, created_at |-> Integer, updated_at |-> Integer]]

WorkloadIdentityProviders ==
    [Listing EXCEPT !.path = "/organization/workload_identity_providers", !.exact = TRUE, !.fields =
        [id |-> Text, name |-> Text, type |-> Text, issuer |-> Text, audience |-> Text,
         description |-> Text, attribute_transformations |-> Trees, enabled |-> Flag,
         created_at |-> Integer, updated_at |-> Integer]]

DataSources ==
    [certificate |-> Certificate, certificates |-> Certificates, group |-> Group,
     groups |-> Groups, group_role |-> GroupRole, group_roles |-> GroupRoles,
     group_user |-> GroupUser, group_users |-> GroupUsers, invite |-> Invite, invites |-> Invites,
     mcp_tunnel |-> McpTunnel, organization_data_retention |-> OrganizationDataRetention,
     organization_spend_alerts |-> OrganizationSpendAlerts,
     organization_spend_limit |-> OrganizationSpendLimit, organization_user |-> OrganizationUser,
     organization_users |-> OrganizationUsers, project |-> Project, projects |-> Projects,
     project_certificates |-> ProjectCertificates, project_data_retention |-> ProjectDataRetention,
     project_group |-> ProjectGroup, project_groups |-> ProjectGroups,
     project_group_role |-> ProjectGroupRole, project_group_roles |-> ProjectGroupRoles,
     project_hosted_tool_permissions |-> ProjectHostedToolPermissions,
     project_model_permissions |-> ProjectModelPermissions,
     project_rate_limit |-> ProjectRateLimit, project_rate_limits |-> ProjectRateLimits,
     project_role |-> ProjectRole, project_roles |-> ProjectRoles,
     project_service_tier_settings |-> ProjectServiceTierSettings,
     project_spend_alert |-> ProjectSpendAlert, project_spend_alerts |-> ProjectSpendAlerts,
     project_spend_limit |-> ProjectSpendLimit, project_user |-> ProjectUser,
     project_users |-> ProjectUsers, project_user_role |-> ProjectUserRole,
     project_user_roles |-> ProjectUserRoles, role |-> Role, roles |-> Roles,
     user_role |-> UserRole, user_roles |-> UserRoles, webhook_endpoint |-> WebhookEndpoint,
     webhook_endpoints |-> WebhookEndpoints, webhook_event_types |-> WebhookEventTypes,
     workload_identity_federation_rule |-> WorkloadIdentityFederationRule,
     workload_identity_federation_rules |-> WorkloadIdentityFederationRules,
     workload_identity_provider |-> WorkloadIdentityProvider,
     workload_identity_providers |-> WorkloadIdentityProviders]

(***************************************************************************)
(* The cached reads of resources                                           *)
(***************************************************************************)

ProjectRefresh ==
    [Refresh EXCEPT !.path = "/organization/projects",
        !.query = {"include_archived=true", "limit=100"}, !.cache = "organization_projects", !.fields = Project.fields]

ProjectGroupRefresh ==
    [Refresh EXCEPT !.path = "/organization/projects/{project_id}/groups", !.params = {"project_id"},
        !.cache = "project_groups", !.keys = {"project_id"}, !.match = "group_id",
        !.fields = ProjectGroups.fields]

ProjectRateLimitRefresh ==
    [Refresh EXCEPT !.path = "/organization/projects/{project_id}/rate_limits",
        !.params = {"project_id"}, !.query = {"limit=1000"}, !.cache = "project_rate_limits", !.keys = {"project_id"},
        !.fields = ProjectRateLimit.fields]

CachedRefreshes ==
    [project |-> ProjectRefresh, project_group |-> ProjectGroupRefresh,
     project_rate_limit |-> ProjectRateLimitRefresh]

=============================================================================
