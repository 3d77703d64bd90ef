----------------------------- MODULE Resources -----------------------------
(***************************************************************************)
(* The thirty resources: how the handlers of each differ from the common   *)
(* pattern, and what its schema and handlers do with each attribute.       *)
(* Attributes that identify the object (path parameters and identifiers)   *)
(* are the identity in ManagedResource and are not repeated here.          *)
(***************************************************************************)
EXTENDS Integers

(***************************************************************************)
(* Families of handlers                                                    *)
(***************************************************************************)

\* POST to a collection, GET, POST and DELETE on the object.
Collection == [create |-> "post", read |-> "get", missing |-> "any404", update |-> "post", remove |-> "delete",
               retried |-> {"create", "update", "delete"}, identity |-> TRUE, guarded |-> FALSE]

\* No update: every attribute that can be configured replaces the object.
Immutable == [Collection EXCEPT !.update = "unsupported"]

\* A POST that puts an existing object into a group, a project or a role.
Membership == [Immutable EXCEPT !.create = "put"]

\* Settings of something that exists: Create is an update, Delete sends nothing.
Settings == [Collection EXCEPT !.create = "put", !.remove = "forget", !.identity = FALSE]

(***************************************************************************)
(* Shapes of attributes                                                    *)
(***************************************************************************)

Required == [mode |-> "required", replace |-> FALSE, keep |-> FALSE, create |-> "value", update |-> "value",
             shown |-> {"create", "read", "update"}, demanded |-> FALSE]
Replaced == [Required EXCEPT !.replace = TRUE, !.update = "no"]
Clearable == [Required EXCEPT !.mode = "optional", !.update = "nullable"]
Choice == [Required EXCEPT !.mode = "optionalComputed"]
ClearableChoice == [Choice EXCEPT !.update = "nullable"]
Defaulted == [Required EXCEPT !.mode = "defaulted"]
ReplacedDefault == [Replaced EXCEPT !.mode = "defaulted"]
Reported == [Required EXCEPT !.mode = "computed", !.create = "no", !.update = "no"]
Nothing == [Reported EXCEPT !.mode = "none", !.shown = {}]

Kept(a) == [a EXCEPT !.keep = TRUE]
Unseen(a) == [a EXCEPT !.shown = {}]
ShownOnce(a) == [a EXCEPT !.shown = {"create"}]
Demanded(a) == [a EXCEPT !.demanded = TRUE]

(***************************************************************************)
(* The resources                                                           *)
(***************************************************************************)

Certificate == Collection
CertificateAttributes ==
    [name |-> Kept(Choice), certificate |-> Unseen(Replaced), created_at |-> Reported,
     valid_at |-> Reported, expires_at |-> Reported]

ExternalKey == [Immutable EXCEPT !.missing = "message", !.retried = {"delete"}, !.guarded = TRUE]
ExternalKeyAttributes ==
    [name |-> Replaced, kms_arn |-> Replaced, role_arn |-> Replaced,
     external_id |-> Replaced, type |-> Demanded(Kept(Reported)),
     purpose |-> Demanded(Kept(Reported)), object |-> Kept(Reported),
     api_project_ids |-> Reported, workspace_id |-> Kept(Reported), created_at |-> Reported]

Group == Collection
GroupAttributes ==
    [name |-> Required, created_at |-> Reported, is_scim_managed |-> Reported,
     group_type |-> Kept(Reported)]

GroupRole == [Membership EXCEPT !.identity = FALSE]
GroupRoleAttributes == [none |-> Nothing]

GroupUser == Membership
GroupUserAttributes == [none |-> Nothing]

Invite == Immutable
InviteAttributes ==
    [email |-> Replaced, role |-> Replaced, projects |-> ReplacedDefault,
     status |-> Kept(Reported), created_at |-> Reported, expires_at |-> Reported,
     accepted_at |-> Reported]

McpTunnel == [Collection EXCEPT !.missing = "message", !.retried = {}]
McpTunnelAttributes ==
    [name |-> Required, description |-> Required, creator |-> Kept(Reported),
     organization_ids |-> Reported, workspace_ids |-> Reported, tenant_ids |-> Reported]

OrganizationDataRetention == Settings
OrganizationDataRetentionAttributes ==
    [object |-> Kept(Reported), type |-> Required]

OrganizationSpendAlert == [Collection EXCEPT !.read = "list"]
OrganizationSpendAlertAttributes ==
    [threshold_amount |-> Required, currency |-> Required, interval |-> Required,
     notification_channel_type |-> Required, notification_channel_recipients |-> Required,
     notification_channel_subject_prefix |-> Clearable]

OrganizationSpendLimit == [Settings EXCEPT !.remove = "delete"]
OrganizationSpendLimitAttributes ==
    [object |-> Kept(Reported), threshold_amount |-> Required, currency |-> Required,
     interval |-> Required, enforcement_status |-> Reported]

OrganizationUser == [Collection EXCEPT !.create = "unsupported"]
OrganizationUserAttributes ==
    [name |-> Kept(Reported), email |-> Kept(Reported), role |-> Kept(ClearableChoice),
     added_at |-> Reported, is_default |-> Reported, created |-> Reported,
     is_service_account |-> Reported, is_scale_tier_authorized_purchaser |-> Reported,
     is_scim_managed |-> Reported, api_key_last_used_at |-> Reported,
     technical_level |-> Kept(ClearableChoice), developer_persona |-> Kept(ClearableChoice)]

Project == [Collection EXCEPT !.read = "list", !.remove = "archive"]
ProjectAttributes ==
    [name |-> Required, geography |-> Unseen(Clearable), external_key_id |-> Clearable,
     created_at |-> Reported, archived_at |-> Reported, status |-> Kept(Reported)]

ProjectDataRetention == Settings
ProjectDataRetentionAttributes ==
    [object |-> Kept(Reported), type |-> Required]

ProjectGroup == [Membership EXCEPT !.read = "list", !.identity = FALSE]
ProjectGroupAttributes ==
    [role |-> Unseen(Replaced), group_name |-> Kept(Reported),
     group_type |-> Kept(Reported), created_at |-> Reported]

ProjectGroupRole == [Membership EXCEPT !.identity = FALSE]
ProjectGroupRoleAttributes == [none |-> Nothing]

ProjectHostedToolPermissions == Settings
ProjectHostedToolPermissionsAttributes ==
    [file_search_enabled |-> Required, web_search_enabled |-> Required,
     image_generation_enabled |-> Required, mcp_enabled |-> Required,
     code_interpreter_enabled |-> Required]

ProjectModelPermissions == [Settings EXCEPT !.remove = "delete"]
ProjectModelPermissionsAttributes ==
    [object |-> Kept(Reported), mode |-> Required, model_ids |-> Required]

ProjectRateLimit == [Settings EXCEPT !.read = "list", !.identity = TRUE]
ProjectRateLimitAttributes ==
    [model |-> Kept(Reported), max_requests_per_1_minute |-> Choice,
     max_tokens_per_1_minute |-> Choice, max_images_per_1_minute |-> Choice,
     max_audio_megabytes_per_1_minute |-> Choice, max_requests_per_1_day |-> Choice,
     batch_1_day_max_input_tokens |-> Choice]

ProjectRole == Collection
ProjectRoleAttributes ==
    [role_name |-> Required, permissions |-> Required, description |-> Clearable,
     resource_type |-> Kept(Reported), predefined_role |-> Reported]

ProjectServiceAccount == Immutable
ProjectServiceAccountAttributes ==
    [name |-> Replaced, created_at |-> Reported]

ProjectServiceTierSettings == Settings
ProjectServiceTierSettingsAttributes ==
    [default |-> Demanded(Required), enabled_tiers |-> Demanded(Required)]

ProjectSpendAlert == [Collection EXCEPT !.read = "list"]
ProjectSpendAlertAttributes ==
    [threshold_amount |-> Required, currency |-> Required, interval |-> Required,
     notification_channel_type |-> Required, notification_channel_recipients |-> Required,
     notification_channel_subject_prefix |-> Clearable]

ProjectSpendLimit == [Settings EXCEPT !.remove = "delete"]
ProjectSpendLimitAttributes ==
    [object |-> Kept(Reported), threshold_amount |-> Required, currency |-> Required,
     interval |-> Required, enforcement_status |-> Reported]

ProjectUser == [Membership EXCEPT !.read = "page", !.update = "post"]
ProjectUserAttributes ==
    [role |-> Required, name |-> Kept(Reported), added_at |-> Reported]

ProjectUserRole == [Membership EXCEPT !.identity = FALSE]
ProjectUserRoleAttributes ==
    [name |-> Kept(Reported), description |-> Kept(Reported), permissions |-> Reported,
     resource_type |-> Kept(Reported), predefined_role |-> Reported]

Role == Collection
RoleAttributes ==
    [role_name |-> Required, permissions |-> Required, description |-> Clearable,
     resource_type |-> Kept(Reported), predefined_role |-> Reported]

UserRole == [Membership EXCEPT !.identity = FALSE]
UserRoleAttributes == [none |-> Nothing]

WebhookEndpoint == [Collection EXCEPT !.retried = {}]
WebhookEndpointAttributes ==
    [name |-> Required, url |-> Required, event_types |-> Required,
     object |-> Kept(Reported), created_at |-> Reported, updated_at |-> Reported,
     signing_secret_hint |-> Kept(Reported),
     signing_secret |-> Demanded(ShownOnce(Kept(Reported)))]

WorkloadIdentityFederationRule == [Collection EXCEPT !.retried = {"update", "delete"}]
WorkloadIdentityFederationRuleAttributes ==
    [project_id |-> Replaced, service_account_id |-> Replaced, name |-> Clearable,
     description |-> Clearable, attribute_matchers |-> Required, permissions |-> Choice,
     enabled |-> Choice, created_at |-> Reported, updated_at |-> Reported]

WorkloadIdentityProvider == [Collection EXCEPT !.retried = {"update", "delete"}]
WorkloadIdentityProviderAttributes ==
    [name |-> Required, type |-> Kept(Reported), issuer |-> Required, audience |-> Required,
     verification |-> Choice, description |-> Clearable,
     attribute_transformations |-> Defaulted, enabled |-> Choice, created_at |-> Reported,
     updated_at |-> Reported]
Of(handlers, attributes) ==
    {[handlers |-> handlers, attribute |-> attributes[a]] : a \in DOMAIN attributes}

AllKinds ==
    UNION {Of(Certificate, CertificateAttributes),
           Of(ExternalKey, ExternalKeyAttributes),
           Of(Group, GroupAttributes),
           Of(GroupRole, GroupRoleAttributes),
           Of(GroupUser, GroupUserAttributes),
           Of(Invite, InviteAttributes),
           Of(McpTunnel, McpTunnelAttributes),
           Of(OrganizationDataRetention, OrganizationDataRetentionAttributes),
           Of(OrganizationSpendAlert, OrganizationSpendAlertAttributes),
           Of(OrganizationSpendLimit, OrganizationSpendLimitAttributes),
           Of(OrganizationUser, OrganizationUserAttributes),
           Of(Project, ProjectAttributes),
           Of(ProjectDataRetention, ProjectDataRetentionAttributes),
           Of(ProjectGroup, ProjectGroupAttributes),
           Of(ProjectGroupRole, ProjectGroupRoleAttributes),
           Of(ProjectHostedToolPermissions, ProjectHostedToolPermissionsAttributes),
           Of(ProjectModelPermissions, ProjectModelPermissionsAttributes),
           Of(ProjectRateLimit, ProjectRateLimitAttributes),
           Of(ProjectRole, ProjectRoleAttributes),
           Of(ProjectServiceAccount, ProjectServiceAccountAttributes),
           Of(ProjectServiceTierSettings, ProjectServiceTierSettingsAttributes),
           Of(ProjectSpendAlert, ProjectSpendAlertAttributes),
           Of(ProjectSpendLimit, ProjectSpendLimitAttributes),
           Of(ProjectUser, ProjectUserAttributes),
           Of(ProjectUserRole, ProjectUserRoleAttributes),
           Of(Role, RoleAttributes),
           Of(UserRole, UserRoleAttributes),
           Of(WebhookEndpoint, WebhookEndpointAttributes),
           Of(WorkloadIdentityFederationRule, WorkloadIdentityFederationRuleAttributes),
           Of(WorkloadIdentityProvider, WorkloadIdentityProviderAttributes)}
=============================================================================
