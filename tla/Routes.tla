------------------------------- MODULE Routes -------------------------------
(***************************************************************************)
(* What every endpoint of the server asks of its caller: the permissions   *)
(* of the roles (backend/app/security/authorization.py), the guards of the *)
(* routers (require_... in each router.py), and for each endpoint whether  *)
(* it changes anything in the database or only reads, and its guard.       *)
(* Endpoints are grouped as they follow each other in their files.         *)
(* Access uses the table to say who can do what.                           *)
(***************************************************************************)
EXTENDS Naturals

Roles == {"Administrator", "Operator", "Reviewer", "Viewer"}

-----------------------------------------------------------------------------
(* The permissions of a role                                               *)

OperatorPermissions ==
    {"incident.create", "incident.update", "incident.event", "incident.evidence",
     "incident.read", "approval.request", "alerts.ack", "alerts.read", "reports.read",
     "connectors.read", "connectors.manage", "decisions.read", "decisions.review",
     "dashboard.read", "platform.read", "ops.read", "ops.coordinate", "org.read", "fleet.read",
     "fleet.manage", "component.read", "component.manage", "configuration.read",
     "configuration.manage", "publication.read", "publication.manage", "personnel.read",
     "personnel.manage", "maintenance.read", "maintenance.manage", "certification.sign",
     "logbook.read", "signature.create", "task.read", "task.manage", "work_order.read",
     "work_order.manage", "work_order.execute", "store.read", "planner.read", "planning.read",
     "planning.manage", "logistics.read", "logistics.manage", "logistics.stores",
     "logistics.purchase", "logistics.tools", "logistics.finance", "platform.manage",
     "marketplace.read", "marketplace.manage", "oem.read", "authority.read", "fabric.read",
     "fabric.manage", "ecosystem.read", "ecosystem.manage", "connect.read", "connect.manage",
     "network.read", "network.manage", "twin.read", "twin.manage", "plugins.read",
     "plugins.manage", "event_fabric.read", "event_fabric.manage"}

ReviewerPermissions ==
    {"approval.review", "alerts.ack", "alerts.read", "audit.read", "reports.read",
     "connectors.read", "decisions.read", "decisions.review", "incident.read", "dashboard.read",
     "platform.read", "org.read", "fleet.read", "component.read", "configuration.read",
     "publication.read", "personnel.read", "maintenance.read", "certification.sign",
     "certification.release", "logbook.read", "signature.create", "task.read", "work_order.read",
     "work_order.execute", "inspector.approve", "engineering.read", "qa.read", "planning.read",
     "logistics.read", "logistics.tools", "marketplace.read", "oem.read", "authority.read",
     "fabric.read", "ecosystem.read", "connect.read", "network.read", "twin.read",
     "plugins.read", "event_fabric.read"}

ViewerPermissions ==
    {"reports.read", "connectors.read", "decisions.read", "incident.read", "alerts.read",
     "dashboard.read", "platform.read", "org.read", "fleet.read", "component.read",
     "configuration.read", "publication.read", "personnel.read", "maintenance.read",
     "logbook.read", "task.read", "work_order.read", "store.read", "planner.read",
     "planning.read", "engineering.read", "logistics.read", "marketplace.read", "oem.read",
     "authority.read", "fabric.read", "ecosystem.read", "connect.read", "network.read",
     "twin.read", "plugins.read", "event_fabric.read"}

\* Faulty: a role that is not known is read as Operator.
PermissionsOrOperator(role) ==
    CASE role = "Administrator" -> {"*"}
      [] role = "Reviewer" -> ReviewerPermissions
      [] OTHER -> OperatorPermissions

\* "*" stands for every permission.
PermissionsOf(role) ==
    CASE role = "Administrator" -> {"*"}
      [] role = "Operator" -> OperatorPermissions
      [] role = "Reviewer" -> ReviewerPermissions
      [] OTHER -> ViewerPermissions

-----------------------------------------------------------------------------
(* Guards: all of the permissions named, or any of them, asked of the      *)
(* session (its role and what was granted on top of it), of its role only, *)
(* of the role in the login directory, or of session or directory          *)

Guard(permissions, any, who) == [needs |-> permissions, any |-> any, who |-> who]
AllOf(permissions) == Guard(permissions, FALSE, {"role", "grants"})
AnyOf(permissions) == Guard(permissions, TRUE, {"role", "grants"})
ByRole(permissions) == Guard(permissions, FALSE, {"role"})
ByDirectory(permissions) == Guard(permissions, FALSE, {"directory"})
ByEither(permissions) == Guard(permissions, FALSE, {"role", "grants", "directory"})
Open == AllOf({})
Signed == AllOf({})

Holds(guard, permissions) ==
    \/ "*" \in permissions
    \/ guard.any /\ guard.needs \cap permissions # {}
    \/ ~guard.any /\ guard.needs \subseteq permissions

\* role, granted and directory: the role of the session, what was granted to its user in
\* its organization, and the role of its user in the login directory.
Passes(guard, role, granted, directory) ==
    \/ "role" \in guard.who /\ Holds(guard, PermissionsOf(role))
    \/ "grants" \in guard.who /\ Holds(guard, granted)
    \/ "directory" \in guard.who /\ Holds(guard, PermissionsOf(directory))

Reading(guard, names) == {[name |-> n, writes |-> FALSE, guard |-> guard] : n \in names}
Writing(guard, names) == {[name |-> n, writes |-> TRUE, guard |-> guard] : n \in names}

-----------------------------------------------------------------------------
(* Guards, file by file                                                    *)

AuthorityGuards ==
    [authority_read |-> AnyOf({"authority.read", "platform.read", "org.read"})]

ComponentsGuards ==
    [component_read |-> AllOf({"component.read"}),
     component_manage |-> AllOf({"component.manage"}),
     configuration_read |-> AllOf({"configuration.read"}),
     catalog_admin |-> ByDirectory({"admin.system"})]

ConnectGuards ==
    [connect_read |-> AnyOf({"connect.read", "platform.read", "org.read"}),
     connect_manage |-> AnyOf({"connect.manage", "platform.manage"})]

EcosystemGuards ==
    [ecosystem_read |-> AnyOf({"ecosystem.read", "platform.read", "org.read"}),
     ecosystem_manage |-> AnyOf({"ecosystem.manage", "platform.manage"})]

EventFabricGuards ==
    [ef_read |-> AnyOf({"event_fabric.read", "platform.read", "fabric.read", "org.read"}),
     ef_manage |-> AnyOf({"event_fabric.manage", "platform.manage"})]

FabricGuards ==
    [fabric_read |-> AnyOf({"fabric.read", "platform.read", "org.read"}),
     fabric_manage |-> AnyOf({"fabric.manage", "platform.manage"})]

FleetGuards ==
    [fleet_read |-> AllOf({"fleet.read"}),
     fleet_manage |-> AllOf({"fleet.manage"}),
     fleet_catalog |-> ByDirectory({"admin.system"})]

LogisticsGuards ==
    [logistics_read |-> AnyOf({"logistics.read", "store.read", "planning.read", "maintenance.read",
                               "work_order.read"}),
     logistics_manage |-> AnyOf({"logistics.manage", "store.manage", "maintenance.manage",
                                 "work_order.manage"}),
     logistics_stores |-> AnyOf({"logistics.stores", "store.manage", "logistics.manage",
                                 "maintenance.manage", "work_order.manage"}),
     logistics_purchase |-> AnyOf({"logistics.purchase", "procurement.manage", "logistics.manage",
                                   "maintenance.manage"}),
     logistics_tools |-> AnyOf({"logistics.tools", "store.manage", "logistics.manage",
                                "maintenance.manage", "work_order.manage"})]

MaintenanceGuards ==
    [maintenance_read |-> AllOf({"maintenance.read"}),
     maintenance_manage |-> AllOf({"maintenance.manage"}),
     logbook_read |-> AllOf({"logbook.read"}),
     certification_sign |-> AnyOf({"certification.sign", "signature.create", "maintenance.manage"})]

MarketplaceGuards ==
    [marketplace_read |-> AnyOf({"marketplace.read", "platform.read", "org.read"}),
     marketplace_manage |-> AnyOf({"marketplace.manage", "platform.manage"})]

NetworkGuards ==
    [network_read |-> AnyOf({"network.read", "platform.read", "org.read"}),
     network_manage |-> AnyOf({"network.manage", "platform.manage"})]

OemGuards ==
    [oem_read |-> AnyOf({"oem.read", "platform.read", "org.read"})]

OrgGuards ==
    [org_read |-> AllOf({"org.read"}),
     org_manage |-> ByDirectory({"admin.system"})]

PersonnelGuards ==
    [personnel_read |-> AllOf({"personnel.read"}),
     personnel_manage |-> AllOf({"personnel.manage"})]

PlanningGuards ==
    [planning_read |-> AnyOf({"planning.read", "planner.read", "maintenance.read"}),
     planning_manage |-> AnyOf({"planning.manage", "work_order.manage", "maintenance.manage"})]

PlatformGuards ==
    [platform_read |-> AnyOf({"platform.read", "platform.manage", "org.read"}),
     platform_manage |-> AllOf({"platform.manage"})]

PluginsGuards ==
    [plugins_read |-> AnyOf({"plugins.read", "connect.read", "platform.read", "org.read"}),
     plugins_manage |-> AnyOf({"plugins.manage", "connect.manage", "platform.manage"})]

PublicationsGuards ==
    [publication_read |-> AllOf({"publication.read"}),
     publication_manage |-> AllOf({"publication.manage"}),
     publication_admin |-> ByEither({"publication.admin"})]

TwinGuards ==
    [twin_read |-> AnyOf({"twin.read", "fabric.read", "platform.read", "org.read"}),
     twin_manage |-> AnyOf({"twin.manage", "fabric.manage", "platform.manage"})]

WorkOrdersGuards ==
    [wo_read |-> AnyOf({"work_order.read", "maintenance.read"}),
     wo_manage |-> AnyOf({"work_order.manage", "maintenance.manage"}),
     wo_execute |-> AnyOf({"work_order.execute", "certification.sign"}),
     wo_inspect |-> AnyOf({"inspector.approve", "certification.sign", "work_order.manage"}),
     wo_release |-> AllOf({"certification.release"})]

AdminGuards ==
    [admin |-> ByRole({"admin.system"})]

ConnectorsGuards ==
    [connectors_read |-> AllOf({"connectors.read"}),
     connectors_manage |-> AllOf({"connectors.manage"})]

OpsGuards ==
    [ops_read |-> AllOf({"ops.read"}),
     ops_coordinate |-> AllOf({"ops.coordinate"})]

-----------------------------------------------------------------------------
(* Endpoints, file by file                                                 *)

AuthorityRoutes ==
    Reading(AuthorityGuards.authority_read, {"list_authorities", "get_authority"})

CatalogRoutes ==
    Reading(ComponentsGuards.component_read, {"list_ata_chapters", "list_catalog",
                                              "list_alternates", "list_serialized",
                                              "get_serialized"})
    \cup Writing(ComponentsGuards.catalog_admin, {"create_ata_chapter", "create_catalog_item",
                                                  "create_alternate"})
    \cup Writing(ComponentsGuards.component_manage, {"create_serialized"})

InstallationRoutes ==
    Writing(ComponentsGuards.component_manage, {"install_component", "remove_component",
                                                "transfer_component", "update_life_limits",
                                                "update_time_cycles"})
    \cup Reading(ComponentsGuards.component_read, {"component_history"})

ConfigurationRoutes ==
    Reading(ComponentsGuards.component_read, {"list_history"})
    \cup Reading(ComponentsGuards.configuration_read, {"aircraft_configuration"})

ConnectRoutes ==
    Reading(ConnectGuards.connect_read, {"overview", "list_connectors", "get_connector",
                                         "list_bindings"})
    \cup Writing(ConnectGuards.connect_manage, {"create_binding"})

EcosystemRoutes ==
    Reading(EcosystemGuards.ecosystem_read, {"overview", "list_ecosystems", "get_ecosystem",
                                             "list_capabilities", "list_enrollments"})
    \cup Writing(EcosystemGuards.ecosystem_manage, {"enroll"})

EventFabricRoutes ==
    Reading(EventFabricGuards.ef_read, {"overview", "list_catalog", "list_events", "get_event",
                                        "list_subscriptions", "list_dlq"})
    \cup Writing(EventFabricGuards.ef_manage, {"publish_event", "create_subscription",
                                               "create_dlq", "retry_dlq", "replay_events"})

PassportRoutes ==
    Reading(FabricGuards.fabric_read, {"overview", "list_entity_types", "list_passports",
                                       "get_passport", "passport_history", "digital_thread",
                                       "list_relationships", "list_events"})
    \cup Writing(FabricGuards.fabric_manage, {"ensure_passport", "update_lifecycle",
                                              "create_relationship", "delete_relationship",
                                              "emit_event"})

HoldRoutes ==
    Writing(FabricGuards.fabric_manage, {"add_tag", "add_attachment", "place_hold", "release_hold"})
    \cup Reading(FabricGuards.fabric_read, {"list_tags", "list_attachments", "search",
                                            "list_retention", "list_holds"})

FleetCatalogRoutes ==
    Reading(FleetGuards.fleet_read, {"list_manufacturers", "list_families", "list_models",
                                     "list_statuses", "list_operators", "list_fleets"})
    \cup Writing(FleetGuards.fleet_catalog, {"create_manufacturer", "create_model"})
    \cup Writing(FleetGuards.fleet_manage, {"create_operator"})

AircraftRoutes ==
    Writing(FleetGuards.fleet_manage, {"create_fleet", "create_aircraft", "update_aircraft_status"})
    \cup Reading(FleetGuards.fleet_read, {"list_aircraft", "get_aircraft", "list_registrations"})

RegistrationRoutes ==
    Writing(FleetGuards.fleet_manage, {"create_registration", "update_registration"})
    \cup Reading(FleetGuards.fleet_read, {"get_registration"})

WarehouseRoutes ==
    Reading(LogisticsGuards.logistics_read, {"list_warehouses", "list_locations", "list_parts",
                                             "get_part"})
    \cup Writing(LogisticsGuards.logistics_manage, {"create_warehouse", "create_warehouse_tree",
                                                    "create_location", "create_part"})

PartRoutes ==
    Writing(LogisticsGuards.logistics_manage, {"update_part", "add_identifier", "add_attachment",
                                               "create_family", "add_supersession"})
    \cup Reading(LogisticsGuards.logistics_read, {"list_identifiers", "list_attachments",
                                                  "list_families", "list_family_members",
                                                  "list_supersessions"})

StockRoutes ==
    Reading(LogisticsGuards.logistics_read, {"list_balances", "list_stock_units", "list_movements",
                                             "list_reservations"})
    \cup Writing(LogisticsGuards.logistics_stores, {"receive_stock", "issue_stock", "adjust_stock",
                                                    "bulk_adjust", "scrap_stock"})

TransferRoutes ==
    Writing(LogisticsGuards.logistics_stores, {"reserve_stock", "release_reservation",
                                               "create_transfer", "complete_transfer",
                                               "open_rotable_cycle", "close_rotable_cycle"})
    \cup Reading(LogisticsGuards.logistics_read, {"list_transfers", "list_rotable_cycles"})

ToolRoutes ==
    Reading(LogisticsGuards.logistics_read, {"list_tools", "get_tool", "list_tool_calibrations",
                                             "list_tool_history"})
    \cup Writing(LogisticsGuards.logistics_tools, {"create_tool", "update_tool", "calibrate_tool",
                                                   "reserve_tool", "issue_tool", "return_tool",
                                                   "report_lost_tool"})

MaterialRequestRoutes ==
    Reading(LogisticsGuards.logistics_read, {"list_lost_tool_reports", "list_material_requests",
                                             "get_material_request"})
    \cup Writing(LogisticsGuards.logistics_stores, {"create_material_request",
                                                    "approve_material_request",
                                                    "reserve_material_request",
                                                    "issue_material_request",
                                                    "return_material_request",
                                                    "cancel_material_request"})

VendorRoutes ==
    Reading(LogisticsGuards.logistics_read, {"list_vendors", "get_vendor",
                                             "list_purchase_requests", "get_purchase_request"})
    \cup Writing(LogisticsGuards.logistics_purchase, {"create_vendor", "update_vendor",
                                                      "create_purchase_request",
                                                      "approve_purchase_request", "create_rfq"})

PurchaseOrderRoutes ==
    Reading(LogisticsGuards.logistics_read, {"list_rfqs", "get_rfq", "list_purchase_orders",
                                             "get_purchase_order", "list_vendor_invoices",
                                             "list_receipts"})
    \cup Writing(LogisticsGuards.logistics_purchase, {"add_quote", "select_quote",
                                                      "create_purchase_order",
                                                      "create_vendor_invoice",
                                                      "close_purchase_order"})
    \cup Writing(LogisticsGuards.logistics_stores, {"receive_purchase_order"})

ReceiptRoutes ==
    Reading(LogisticsGuards.logistics_read, {"get_receipt", "list_shipments", "scan", "dashboard",
                                             "shortages"})
    \cup Writing(LogisticsGuards.logistics_stores, {"inspect_receipt", "putaway_receipt",
                                                    "create_shipment"})
    \cup Writing(LogisticsGuards.logistics_manage, {"run_material_planning"})

LogisticsRunRoutes ==
    Writing(LogisticsGuards.logistics_tools, {"run_tool_planning"})
    \cup Writing(LogisticsGuards.logistics_manage, {"seed_demo"})

TaskRoutes ==
    Reading(MaintenanceGuards.maintenance_read, {"list_tasks", "get_task", "get_task_audit_trail"})
    \cup Writing(MaintenanceGuards.maintenance_manage, {"create_task", "transition_task"})

CertificationRoutes ==
    Writing(MaintenanceGuards.certification_sign, {"certify_task"})
    \cup Reading(MaintenanceGuards.logbook_read, {"list_logbook"})
    \cup Writing(MaintenanceGuards.maintenance_manage, {"amend_logbook", "create_critical_policy"})
    \cup Reading(MaintenanceGuards.maintenance_read, {"list_critical_policies"})

MaintenanceCatalogRoutes ==
    Reading(MaintenanceGuards.maintenance_read, {"list_fault_codes", "list_ai_index_stubs",
                                                 "list_ai_cross_refs", "get_signature"})
    \cup Writing(MaintenanceGuards.maintenance_manage, {"create_fault_code",
                                                        "create_ai_index_stub",
                                                        "create_ai_cross_ref"})

ListingRoutes ==
    Reading(MarketplaceGuards.marketplace_read, {"marketplace_overview", "list_categories",
                                                 "list_listings", "list_sellers", "get_seller",
                                                 "list_products"})
    \cup Writing(MarketplaceGuards.marketplace_manage, {"create_listing", "create_seller"})

ProductRoutes ==
    Writing(MarketplaceGuards.marketplace_manage, {"create_product", "add_cart"})
    \cup Reading(MarketplaceGuards.marketplace_read, {"get_product", "product_pricing",
                                                      "product_inventory", "search_products",
                                                      "list_cart", "list_quotes"})

TradeRoutes ==
    Writing(MarketplaceGuards.marketplace_manage, {"create_quote", "create_order", "create_review",
                                                   "add_favorite", "create_saved_search"})
    \cup Reading(MarketplaceGuards.marketplace_read, {"list_orders", "get_order", "list_reviews",
                                                      "list_favorites", "list_saved_searches"})

ProfileRoutes ==
    Reading(NetworkGuards.network_read, {"overview", "directory_search", "list_org_profiles",
                                         "list_professionals", "list_partnerships",
                                         "list_collaborations"})
    \cup Writing(NetworkGuards.network_manage, {"create_org_profile", "create_professional",
                                                "create_partnership", "approve_partnership",
                                                "create_collaboration"})

CollaborationRoutes ==
    Reading(NetworkGuards.network_read, {"list_document_shares", "list_threads", "list_messages",
                                         "list_events"})
    \cup Writing(NetworkGuards.network_manage, {"create_document_share", "create_thread",
                                                "post_message", "create_event"})

OemRoutes ==
    Reading(OemGuards.oem_read, {"list_manufacturers", "get_manufacturer"})

CompanyRoutes ==
    Reading(OrgGuards.org_read, {"list_companies", "list_organizations", "get_organization",
                                 "list_organization_sites", "list_sites"})
    \cup Writing(OrgGuards.org_manage, {"create_company", "create_organization", "create_site"})

DepartmentRoutes ==
    Reading(OrgGuards.org_read, {"list_departments", "list_teams"})
    \cup Writing(OrgGuards.org_manage, {"create_department", "create_team", "create_org_user",
                                        "bind_org_user_oidc"})
    \cup Reading(OrgGuards.org_manage, {"list_org_users"})

MembershipRoutes ==
    Reading(OrgGuards.org_read, {"list_memberships", "my_org_profile"})
    \cup Writing(OrgGuards.org_manage, {"create_membership"})

EmployeeRoutes ==
    Reading(PersonnelGuards.personnel_read, {"list_employees", "get_employee",
                                             "list_qualifications", "list_authorizations"})
    \cup Writing(PersonnelGuards.personnel_manage, {"create_employee", "update_employee",
                                                    "create_qualification"})

StampRoutes ==
    Writing(PersonnelGuards.personnel_manage, {"create_authorization", "create_stamp"})
    \cup Reading(PersonnelGuards.personnel_read, {"list_stamps"})

ProgramRoutes ==
    Reading(PlanningGuards.planning_read, {"list_programs", "list_revisions", "list_mpd",
                                           "list_checks", "get_check"})
    \cup Writing(PlanningGuards.planning_manage, {"create_program", "add_revision", "create_mpd",
                                                  "create_check"})

CheckRoutes ==
    Writing(PlanningGuards.planning_manage, {"generate_package", "create_ad", "create_sb",
                                             "create_eo"})
    \cup Reading(PlanningGuards.planning_read, {"list_ads", "get_ad", "list_sbs", "get_sb",
                                                "list_eos", "get_eo"})

DirectiveRoutes ==
    Writing(PlanningGuards.planning_manage, {"approve_eo", "create_defect", "create_mel",
                                             "upsert_utilization", "create_hangar"})
    \cup Reading(PlanningGuards.planning_read, {"list_defects", "get_defect", "list_mel",
                                                "get_mel", "list_hangar"})

WorkforceRoutes ==
    Reading(PlanningGuards.planning_read, {"list_workforce", "get_workforce", "forecast",
                                           "due_list", "dashboard", "aircraft_status"})
    \cup Writing(PlanningGuards.planning_manage, {"create_workforce", "update_workforce"})

KeyRoutes ==
    Reading(PlatformGuards.platform_read, {"platform_overview", "permission_matrix",
                                           "list_role_templates", "get_mfa",
                                           "list_business_units"})
    \cup Writing(PlatformGuards.platform_manage, {"create_api_key", "revoke_api_key", "create_pat",
                                                  "revoke_pat", "enroll_mfa",
                                                  "create_business_unit", "create_cost_center"})
    \cup Reading(PlatformGuards.platform_manage, {"list_api_keys", "list_pats"})

RoleRoutes ==
    Reading(PlatformGuards.platform_read, {"list_cost_centers", "list_facilities",
                                           "list_custom_roles", "list_temporary_access",
                                           "list_permission_audits", "list_workflow_definitions"})
    \cup Writing(PlatformGuards.platform_manage, {"create_facility", "create_custom_role",
                                                  "grant_temporary_access",
                                                  "create_workflow_definition", "start_workflow"})

WorkflowRoutes ==
    Reading(PlatformGuards.platform_read, {"list_workflow_instances", "list_workflow_logs",
                                           "list_notifications", "list_files"})
    \cup Writing(PlatformGuards.platform_manage, {"transition_workflow", "enqueue_notification",
                                                  "mark_notification_sent", "register_file",
                                                  "upload_file"})
    \cup Writing(PlatformGuards.platform_read, {"mark_notification_read"})

FileRoutes ==
    Writing(PlatformGuards.platform_manage, {"soft_delete_file", "index_document",
                                             "upsert_setting", "set_org_feature_flag"})
    \cup Reading(PlatformGuards.platform_read, {"search", "list_settings", "list_feature_flags",
                                                "list_org_feature_flags", "list_integrations",
                                                "integrations_health"})

PluginsRoutes ==
    Reading(PluginsGuards.plugins_read, {"overview", "list_catalog", "get_plugin",
                                         "list_installations", "list_dashboards"})
    \cup Writing(PluginsGuards.plugins_manage, {"install_plugin", "create_dashboard"})

PublicationRoutes ==
    Reading(PublicationsGuards.publication_read, {"list_publication_types", "publications_by_ata",
                                                  "publications_by_model",
                                                  "publications_by_component",
                                                  "publications_by_aircraft",
                                                  "list_or_search_publications"})
    \cup Writing(PublicationsGuards.publication_manage, {"create_publication"})

RevisionRoutes ==
    Reading(PublicationsGuards.publication_read, {"get_publication", "list_revisions"})
    \cup Writing(PublicationsGuards.publication_manage, {"update_publication", "create_revision"})
    \cup Writing(PublicationsGuards.publication_admin, {"update_access_classification",
                                                        "archive_publication"})

LibraryRoutes ==
    Writing(PublicationsGuards.publication_admin, {"activate_revision"})
    \cup Writing(PublicationsGuards.publication_manage, {"link_ata", "link_catalog"})
    \cup Reading(PublicationsGuards.publication_read, {"library_browse", "library_search"})

TwinRecordRoutes ==
    Reading(TwinGuards.twin_read, {"overview", "search", "list_twins", "get_twin_by_uuid",
                                   "get_twin", "twin_passport", "list_history"})
    \cup Writing(TwinGuards.twin_manage, {"create_twin", "twin_lifecycle", "append_history"})

TwinHistoryRoutes ==
    Reading(TwinGuards.twin_read, {"list_configurations", "list_reliability", "twin_relationships"})
    \cup Writing(TwinGuards.twin_manage, {"create_configuration", "create_reliability"})

PackageRoutes ==
    Reading(WorkOrdersGuards.wo_read, {"list_packages", "get_package", "list_orders", "get_order",
                                       "list_job_cards"})
    \cup Writing(WorkOrdersGuards.wo_manage, {"create_package", "create_order"})

JobCardRoutes ==
    Writing(WorkOrdersGuards.wo_manage, {"create_job_card", "assign_job_card"})
    \cup Reading(WorkOrdersGuards.wo_read, {"get_job_card"})
    \cup Writing(WorkOrdersGuards.wo_execute, {"transition_job_card", "complete_job_card_work"})
    \cup Writing(WorkOrdersGuards.wo_inspect, {"inspect_job_card"})

CardWorkRoutes ==
    Writing(WorkOrdersGuards.wo_release, {"release_job_card"})
    \cup Reading(WorkOrdersGuards.wo_read, {"list_attachments", "execution_dashboard",
                                            "execution_report"})
    \cup Writing(WorkOrdersGuards.wo_execute, {"add_attachment"})

AdminUserRoutes ==
    Reading(AdminGuards.admin, {"admin_system", "admin_health", "admin_metrics", "admin_audit"})
    \cup Writing(AdminGuards.admin, {"admin_create_user", "admin_change_password"})

AdminConfigRoutes ==
    Writing(AdminGuards.admin, {"admin_change_role", "admin_config_change"})

ConnectorsRoutes ==
    Reading(ConnectorsGuards.connectors_read, {"list_connectors", "connector_health",
                                               "connector_health_history", "recent_events"})
    \cup Writing(ConnectorsGuards.connectors_manage, {"start_connector", "stop_connector",
                                                      "recover_connector", "poll_connector"})

OpsRoutes ==
    Reading(OpsGuards.ops_read, {"ops_health"})
    \cup Writing(OpsGuards.ops_coordinate, {"coordinate"})

LoginRoutes ==
    Reading(Open, {"root_health", "root_ready", "root_live", "prometheus_metrics", "health",
                   "ready"})
    \cup Reading(AllOf({"platform.read"}), {"platform_status"})
    \cup Writing(Open, {"login"})

OidcRoutes ==
    Writing(Open, {"logout", "oidc_login", "oidc_callback"})
    \cup Reading(Open, {"session_status", "auth_public_config"})

ContextRoutes ==
    Reading(Signed, {"get_session_context"})
    \cup Writing(Signed, {"update_session_context"})
    \cup Writing(AllOf({"approval.request"}), {"create_approval_request"})

\* Faulty: asking for an approval is enough to review one.
LooseApprovalRoutes ==
    Reading(AllOf({"approval.review"}), {"list_approvals"})
    \cup Writing(AllOf({"approval.request"}), {"approve_request"})
    \cup Reading(AllOf({"incident.read"}), {"list_incidents", "get_incident"})
    \cup Writing(AllOf({"incident.create"}), {"create_incident"})

ApprovalRoutes ==
    Reading(AllOf({"approval.review"}), {"list_approvals"})
    \cup Writing(AllOf({"approval.review"}), {"approve_request"})
    \cup Reading(AllOf({"incident.read"}), {"list_incidents", "get_incident"})
    \cup Writing(AllOf({"incident.create"}), {"create_incident"})

IncidentRoutes ==
    Writing(AllOf({"incident.update"}), {"update_incident_status"})
    \cup Writing(AllOf({"incident.event"}), {"add_event"})
    \cup Writing(AllOf({"incident.evidence"}), {"add_evidence"})
    \cup Reading(AllOf({"incident.read"}), {"get_assessment"})

ReportRoutes ==
    Reading(AllOf({"incident.read"}), {"incident_report"})
    \cup Reading(AllOf({"audit.read"}), {"list_audit"})
    \cup Reading(AllOf({"reports.read"}), {"report_summary", "report_history"})
    \cup Reading(AllOf({"alerts.read"}), {"list_alerts"})
    \cup Writing(AllOf({"alerts.ack"}), {"acknowledge_alert"})
    \cup Reading(AllOf({"platform.read"}), {"integrations", "compliance"})

DecisionRoutes ==
    Writing(AllOf({"decisions.read"}), {"evaluate_decision"})
    \cup Reading(AllOf({"decisions.read"}), {"list_decisions", "get_decision"})
    \cup Writing(AllOf({"decisions.review"}), {"review_decision"})

DashboardRoutes ==
    Reading(AllOf({"dashboard.read"}), {"dashboard_summary"})

-----------------------------------------------------------------------------
\* Every endpoint.
Routes ==
    UNION {AuthorityRoutes, CatalogRoutes, InstallationRoutes, ConfigurationRoutes,
           ConnectRoutes, EcosystemRoutes, EventFabricRoutes, PassportRoutes, HoldRoutes,
           FleetCatalogRoutes, AircraftRoutes, RegistrationRoutes, WarehouseRoutes, PartRoutes,
           StockRoutes, TransferRoutes, ToolRoutes, MaterialRequestRoutes, VendorRoutes,
           PurchaseOrderRoutes, ReceiptRoutes, LogisticsRunRoutes, TaskRoutes,
           CertificationRoutes, MaintenanceCatalogRoutes, ListingRoutes, ProductRoutes,
           TradeRoutes, ProfileRoutes, CollaborationRoutes, OemRoutes, CompanyRoutes,
           DepartmentRoutes, MembershipRoutes, EmployeeRoutes, StampRoutes, ProgramRoutes,
           CheckRoutes, DirectiveRoutes, WorkforceRoutes, KeyRoutes, RoleRoutes, WorkflowRoutes,
           FileRoutes, PluginsRoutes, PublicationRoutes, RevisionRoutes, LibraryRoutes,
           TwinRecordRoutes, TwinHistoryRoutes, PackageRoutes, JobCardRoutes, CardWorkRoutes,
           AdminUserRoutes, AdminConfigRoutes, ConnectorsRoutes, OpsRoutes, LoginRoutes,
           OidcRoutes, ContextRoutes, ApprovalRoutes, IncidentRoutes, ReportRoutes,
           DecisionRoutes, DashboardRoutes}

\* The endpoint of that name; the names used in Access are unique.
RouteOf(name) == CHOOSE r \in Routes : r.name = name
=============================================================================
